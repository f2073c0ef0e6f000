------------------------- MODULE CommandLineProofs -------------------------
(***************************************************************************)
(* Proofs about CommandLine, the getopt_long of GetOpt and the filters of  *)
(* Exclude: the types; that the scan delivers the options of a command     *)
(* line in order and leaves its operands in order, although it moves       *)
(* elements of argv; that main ends as the command line says; and that the *)
(* filters accept the names they should.                                   *)
(*                                                                         *)
(* The first invariant, GInv, orders the indices of getopt_long.  From it  *)
(* follows what exchange does: Skipped names the operands skipped so far   *)
(* by where the elements of argv will be once it is through, and no turn   *)
(* of its loop changes them.  The second, SInv, says that what was         *)
(* delivered and skipped, followed by what is to come, is what the command *)
(* line means.  Scan, a function defined by recursion over the command     *)
(* line, is shown to exist by RecursionExists of SequenceLemmas.           *)
(*                                                                         *)
(* The third, WInv, says that the variables of main are what the options   *)
(* seen so far say, whatever their order, and the filters the patterns     *)
(* given (Filter: each of them in a segment of its type).  The fourth,     *)
(* OInv, says that the words taken and the operands left are together the  *)
(* words of the command line, and what each outcome means.                 *)
(***************************************************************************)
EXTENDS CommandLine, SequenceLemmas, SequenceTheorems, FiniteSetTheorems

-----------------------------------------------------------------------------
(* The state of getopt_long: types, and how the indices are ordered.  *)

\* What may be missing: <<>> or <<e>>.
Optional(S) == {<<>>} \cup {<<e>> : e \in S}

\* exchange is at work.
Exchanging == gpc \in {"exchange", "exchange_rest"}

\* The operands skipped lie in front of the options after them, and those in front
\* of the next element.
Order ==
  /\ gpc \notin {"skip", "done"} => first_nonopt <= last_nonopt /\ last_nonopt <= optind
  /\ gpc = "skip" => first_nonopt <= optind /\ last_nonopt <= optind
  /\ gpc = "done" => first_nonopt <= last_nonopt

\* The segments that exchange has still to swap lie between the first operand
\* and the next element.
Bounds ==
  Exchanging =>
    /\ ordering = "PERMUTE" /\ first_nonopt < last_nonopt /\ last_nonopt < optind
    /\ first_nonopt <= bottom /\ bottom <= middle /\ middle <= top /\ top <= optind

\* Without reordering nothing counts as skipped before a "--".
Modes ==
  /\ ordering = "REQUIRE_ORDER" =>
       /\ gpc # "skip"
       /\ \/ first_nonopt = 1 /\ last_nonopt = 1
          \/ /\ gpc \in {"element", "done"} /\ last_nonopt = argc
             /\ gpc = "element" => optind = argc
  /\ ordering = "PERMUTE" /\ gpc = "element" => last_nonopt = optind

\* The elements and what is returned of them.
Elements ==
  /\ args \in ArgLists /\ argv \in Seq(Seq(Pieces)) /\ Len(argv) = Len(args)
  /\ nextchar \in Seq(Pieces)
  /\ optarg \in Optional(Seq(Pieces))

\* The indices.
Indices == {first_nonopt, last_nonopt, optind, bottom, middle, top} \subseteq 1 .. argc

\* Where getopt_long stands.
Control ==
  /\ ordering \in {"PERMUTE", "REQUIRE_ORDER"}
  /\ gpc \in {"call", "skip", "exchange", "exchange_rest", "element", "letter",
              "return", "done"}
  /\ gpc = "letter" => nextchar # <<>>
  /\ nextchar # <<>> => gpc \in {"call", "letter", "return"}

\* The letters left are less than the element they are of.
Letters == nextchar # <<>> => optind < argc /\ Len(nextchar) < Len(argv[optind])

\* No operand is counted before the first of them.
Counted == gpc # "skip" => first_nonopt <= last_nonopt

\* The types.
Typed == Elements /\ Indices /\ Control /\ Letters /\ Counted

\* The invariant of the scan.
GInv == Typed /\ Order /\ Bounds /\ Modes

\* The program between the steps of getopt_long.
Others ==
  /\ gpc = "done" /\ optind < argc /\ optind' = optind + 1
  /\ UNCHANGED <<argv, ordering, nextchar, first_nonopt, last_nonopt, segments, gpc,
                 returned>>

\* What the steps of main do to the state of getopt_long.
LEMMA Steps ==
  Next => GetOptNext
    \/ (gpc = "return" /\ gpc' = "call" /\ UNCHANGED <<argv, ordering, scan, segments, returned>>)
            \/ Others \/ UNCHANGED getopt_vars
<1> SUFFICES ASSUME Next
             PROVE  GetOptNext \/ (gpc = "return" /\ gpc' = "call"
                        /\ UNCHANGED <<argv, ordering, scan, segments, returned>>)
                      \/ Others \/ UNCHANGED getopt_vars
  OBVIOUS
<1>1. CASE Switch
  BY <1>1, Zenon DEF Switch
<1>2. CASE Usage \/ Information \/ ChooseBackups \/ Dispatch \/ MallocFails
  BY <1>2, Zenon DEF Usage, Information, ChooseBackups, Dispatch, MallocFails, EndsWith
<1>3. CASE TakeOperand
  <2>1. gpc = "done" /\ optind < argc /\ optind' = optind + 1
        /\ UNCHANGED <<argv, ordering, nextchar, first_nonopt, last_nonopt, segments, gpc, returned>>
    BY <1>3, Zenon DEF TakeOperand, Chosen
  <2> QED
    BY <2>1 DEF Others
<1> QED
  BY <1>1, <1>2, <1>3, Zenon DEF Next, Works

-----------------------------------------------------------------------------
(* Arguments and swapped elements.  *)

\* The least number of a set.
LEMMA MinIs ==
  ASSUME NEW I \in SUBSET Nat, I # {}
  PROVE  Min(I) \in I /\ \A j \in I : Min(I) <= j
<1>1. \E m \in I : \A j \in I : m <= j
  BY Least, Zenon
<1> QED
  BY ONLY <1>1, Zenon DEF Min

\* The argument after a "=" is a part of the element.
LEMMA ArgumentType ==
  ASSUME NEW e \in Seq(Pieces)
  PROVE  ArgumentOf(e) \in Optional(Seq(Pieces))
<1> DEFINE k == SelectInSeq(e, LAMBDA c : c = "=")
<1>1. k \in Nat
  <2>1. PICK I : I = {i \in 1 .. Len(e) : e[i] = "="}
    OBVIOUS
  <2>2. k = IF I # {} THEN Min(I) ELSE 0
    BY <2>1 DEF SelectInSeq
  <2>3. I \in SUBSET Nat
    BY <2>1
  <2> QED
    BY <2>2, <2>3, MinIs
<1>2. SubSeq(e, k + 1, Len(e)) \in Seq(Pieces)
  BY <1>1
<1> QED
  BY <1>2, Zenon DEF ArgumentOf, Optional

\* Swapping keeps the elements.
LEMMA SwappedType ==
  ASSUME NEW i \in Nat, NEW j \in Nat, NEW len \in Nat, argv \in Seq(Seq(Pieces)),
         i >= 1, i + len <= j, j + len - 1 <= Len(argv)
  PROVE  /\ Swapped(i, j, len) \in Seq(Seq(Pieces))
         /\ Len(Swapped(i, j, len)) = Len(argv)
<1>1. PICK s : s = Swapped(i, j, len)
  OBVIOUS
<1>2. DOMAIN argv = 1 .. Len(argv) /\ Len(argv) \in Nat
      /\ \A k \in 1 .. Len(argv) : argv[k] \in Seq(Pieces)
  OBVIOUS
<1>3. s = [k \in 1 .. Len(argv) |-> IF k \in i .. i + len - 1 THEN argv[j + (k - i)]
                                    ELSE IF k \in j .. j + len - 1 THEN argv[i + (k - j)]
                                    ELSE argv[k]]
  BY <1>1, <1>2 DEF Swapped
<1>4. \A k \in 1 .. Len(argv) : s[k] = IF k \in i .. i + len - 1 THEN argv[j + (k - i)]
                                       ELSE IF k \in j .. j + len - 1 THEN argv[i + (k - j)]
                                       ELSE argv[k]
  BY ONLY <1>3
<1>5. \A k \in 1 .. Len(argv) : s[k] \in Seq(Pieces)
  <2> TAKE k \in 1 .. Len(argv)
  <2>1. CASE k \in i .. i + len - 1
    <3>1. j + (k - i) \in 1 .. Len(argv)
      BY <2>1
    <3> QED
      BY <2>1, <3>1, <1>2, <1>4
  <2>2. CASE k \notin i .. i + len - 1 /\ k \in j .. j + len - 1
    <3>1. i + (k - j) \in 1 .. Len(argv)
      BY <2>2
    <3> QED
      BY <2>2, <3>1, <1>2, <1>4
  <2> QED
    BY <2>1, <2>2, <1>2, <1>4
<1>6. s \in [1 .. Len(argv) -> Seq(Pieces)]
  BY ONLY <1>3, <1>5
<1>7. s \in Seq(Seq(Pieces)) /\ Len(s) = Len(argv)
  BY ONLY <1>2, <1>6
<1> QED
  BY <1>1, <1>7, Zenon

-----------------------------------------------------------------------------
(* The invariant of the scan.  *)

\* What may be missing is at most one.
LEMMA OptionalLength ==
  ASSUME NEW S, NEW o \in Optional(S)
  PROVE  o \in Seq(S) /\ Len(o) <= 1
<1>1. CASE o = <<>>
  BY <1>1
<1>2. ASSUME NEW e \in S, o = <<e>> PROVE o \in Seq(S) /\ Len(o) <= 1
  BY <1>2
<1> QED
  BY <1>1, <1>2 DEF Optional

\* The types are those that GetOpt states.
LEMMA TypedMeans == Typed => GetOptTypeOK
<1> SUFFICES ASSUME Typed PROVE GetOptTypeOK
  OBVIOUS
<1>1. Len(optarg) <= 1
  BY OptionalLength DEF Typed, Elements
<1> QED
  BY <1>1, Zenon DEF GetOptTypeOK, Typed, Indices, Control, Letters, Counted

\* What Typed says of the elements.
LEMMA Lengths ==
  ASSUME Typed
  PROVE  argv \in Seq(Seq(Pieces)) /\ Len(argv) \in Nat /\ argc = Len(argv) + 1 /\ Len(args) = Len(argv)
<1>1. argv \in Seq(Seq(Pieces)) /\ Len(args) = Len(argv)
  BY DEF Typed, Elements
<1> QED
  BY ONLY <1>1 DEF argc

\* And of the indices.
LEMMA Numbers ==
  ASSUME Typed
  PROVE  /\ argc \in Nat
         /\ first_nonopt \in Nat /\ 1 <= first_nonopt /\ first_nonopt <= argc
         /\ last_nonopt \in Nat /\ 1 <= last_nonopt /\ last_nonopt <= argc
         /\ optind \in Nat /\ 1 <= optind /\ optind <= argc
         /\ bottom \in Nat /\ 1 <= bottom /\ bottom <= argc
         /\ middle \in Nat /\ 1 <= middle /\ middle <= argc
         /\ top \in Nat /\ 1 <= top /\ top <= argc
<1>1. argc \in Nat
  BY Lengths
<1>2. {first_nonopt, last_nonopt, optind, bottom, middle, top} \subseteq 1 .. argc
  BY DEF Typed, Indices
<1> QED
  BY ONLY <1>1, <1>2

\* It holds at first.
LEMMA GInvInit == Init => GInv
<1> SUFFICES ASSUME Init PROVE GInv
  OBVIOUS
<1>1. GetOptInit
  BY DEF Init
<1>2. gpc = "call" /\ first_nonopt = 1 /\ last_nonopt = 1 /\ optind = 1 /\ nextchar = <<>>
      /\ bottom = 1 /\ middle = 1 /\ top = 1 /\ optarg = <<>>
           /\ ordering \in {"PERMUTE", "REQUIRE_ORDER"}
      /\ argv \in ArgLists /\ args = argv
  BY <1>1, Zenon DEF GetOptInit
<1>3. argv \in Seq(Seq(Pieces))
  BY <1>2, ArgAssumption
<1>4. Elements
  BY <1>2, <1>3 DEF Elements, Optional
<1>5. Indices
  BY <1>2, <1>3 DEF Indices, argc
<1>6. Control /\ Letters /\ Counted
  BY <1>2 DEF Control, Letters, Counted
<1>7. Order
  BY <1>2 DEF Order
<1>8. Bounds
  BY <1>2 DEF Bounds, Exchanging
<1>9. Modes
  BY <1>2 DEF Modes
<1> QED
  BY <1>4, <1>5, <1>6, <1>7, <1>8, <1>9 DEF GInv, Typed

\* An element of the command line.
LEMMA ElementType ==
  ASSUME Typed, NEW k \in Nat, 1 <= k, k < argc
  PROVE  argv[k] \in Seq(Pieces)
<1>1. argv \in Seq(Seq(Pieces)) /\ k \in 1 .. Len(argv)
  BY Lengths
<1> QED
  BY ONLY <1>1

\* What getopt_long returns is typed.
LEMMA DeliverType ==
  ASSUME Typed, NEW v, NEW a \in Optional(Seq(Pieces)), Deliver(v, a), nextchar' \in Seq(Pieces),
         optind' \in 1 .. argc, UNCHANGED <<first_nonopt, last_nonopt>>,
         nextchar' # <<>> => optind' < argc /\ Len(nextchar') < Len(argv[optind']),
         first_nonopt <= last_nonopt
  PROVE  Typed'
<1>1. gpc' = "return" /\ optarg' = a /\ UNCHANGED <<argv, ordering, args, first_nonopt, last_nonopt>>
      /\ UNCHANGED <<bottom, middle, top>>
  BY Zenon DEF Deliver, segments
<1>2. argc' = argc
  BY <1>1 DEF argc
<1>3. Elements'
  BY <1>1, Zenon DEF Elements, Typed
<1>4. Indices'
  BY <1>1, <1>2 DEF Indices, Typed
<1>5. Control' /\ Counted'
  BY <1>1 DEF Control, Counted, Typed
<1>6. Letters'
  BY <1>1, <1>2, Zenon DEF Letters
<1> QED
  BY <1>3, <1>4, <1>5, <1>6 DEF Typed

\* Every step of the scan keeps the types.
LEMMA TypedStep ==
  ASSUME GInv, GetOptNext
  PROVE  Typed'
<1>0. Typed /\ Order /\ Bounds /\ Elements /\ Indices /\ Control /\ Letters /\ Counted
  BY DEF GInv, Typed
<1>a. ASSUME UNCHANGED <<argv, nextchar, args, optarg>> PROVE Elements' /\ argc' = argc
  <2>1. Elements'
    BY <1>0, <1>a, Zenon DEF Elements
  <2> QED
    BY <1>a, <2>1 DEF argc
<1>1. CASE NextElement
  <2>1. UNCHANGED <<argv, ordering, optind, nextchar, last_nonopt, args, optarg>> /\ nextchar = <<>>
    BY <1>1, Zenon DEF NextElement, returned
  <2>2. Elements' /\ argc' = argc
    BY <1>a, <2>1, Zenon
  <2>3. first_nonopt' \in {first_nonopt, optind} /\ bottom' \in {bottom, first_nonopt}
        /\ middle' \in {middle, last_nonopt} /\ top' \in {top, optind}
             /\ gpc' \in {"exchange", "skip", "element"}
    BY <1>1, <2>1, Zenon DEF NextElement, StartExchange, segments
  <2>4. Indices'
    BY <1>0, <2>1, <2>2, <2>3 DEF Indices
  <2>5. first_nonopt' = first_nonopt \/ gpc' = "skip"
    BY <1>1, Zenon DEF NextElement
  <2>6. first_nonopt <= last_nonopt
    BY <1>0, <1>1, Numbers DEF Order, NextElement
  <2>7. Control' /\ Letters' /\ Counted'
    BY <1>0, <2>1, <2>3, <2>5, <2>6 DEF Control, Letters, Counted
  <2> QED
    BY <2>2, <2>4, <2>7 DEF Typed
<1>2. CASE Exchange
  <2>1. UNCHANGED <<ordering, optind, nextchar, first_nonopt, last_nonopt, gpc, middle, args, optarg>>
        /\ gpc \in {"exchange", "exchange_rest"}
    BY <1>2, Zenon DEF Exchange, returned, scan
  <2>2. first_nonopt <= bottom /\ bottom <= middle /\ middle <= top /\ top <= optind
    BY <1>0, <2>1, Zenon DEF Bounds, Exchanging
  <2>3. argv' \in Seq(Seq(Pieces)) /\ Len(argv') = Len(argv)
    <3>0. /\ bottom \in Nat /\ middle \in Nat /\ top \in Nat /\ Len(argv) \in Nat
          /\ 1 <= bottom /\ bottom <= middle /\ middle <= top /\ top <= Len(argv) + 1
      BY ONLY <1>0, <2>2, Numbers, Lengths
    <3>1. CASE top - middle > middle - bottom
      <4>1. argv' = Swapped(bottom, top - (middle - bottom), middle - bottom)
        BY <1>2, <3>0, <3>1 DEF Exchange
      <4>2. PICK j \in Nat, len \in Nat : j = top - (middle - bottom) /\ len = middle - bottom
        BY <3>0, <3>1
      <4>3. j \in Nat /\ len \in Nat /\ bottom + len <= j /\ j + len - 1 <= Len(argv)
        BY ONLY <3>0, <3>1, <4>2
      <4>4. argv' = Swapped(bottom, j, len)
        BY ONLY <4>1, <4>2
      <4> QED
        BY ONLY <1>0, <3>0, <4>3, <4>4, Lengths, SwappedType
    <3>2. CASE top - middle <= middle - bottom
      <4>1. argv' = Swapped(bottom, middle, top - middle)
        BY <1>2, <3>0, <3>2 DEF Exchange
      <4>2. PICK len \in Nat : len = top - middle
        BY <3>0
      <4>3. len \in Nat /\ bottom + len <= middle /\ middle + len - 1 <= Len(argv)
        BY ONLY <3>0, <3>2, <4>2
      <4>4. argv' = Swapped(bottom, middle, len)
        BY ONLY <4>1, <4>2
      <4> QED
        BY ONLY <1>0, <3>0, <4>3, <4>4, Lengths, SwappedType
    <3> QED
      BY <1>0, <2>2, <3>1, <3>2, Numbers
  <2>4. top' \in Nat /\ bottom' \in Nat /\ bottom <= bottom' /\ bottom' <= middle /\ middle <= top'
          /\ top' <= top
    BY <1>0, <1>2, <2>2, Numbers DEF Exchange
  <2>5. argc' = argc
    BY <2>3 DEF argc
  <2>6. bottom' \in 1 .. argc /\ top' \in 1 .. argc
    BY <1>0, <2>4, Numbers
  <2>7. nextchar = <<>>
    BY <1>0, <2>1 DEF Control
  <2>8. Elements'
    BY <1>0, <2>1, <2>3, Zenon DEF Elements
  <2>9. Indices'
    BY <1>0, <2>1, <2>5, <2>6 DEF Indices
  <2>10. Control' /\ Counted' /\ Letters'
    BY <1>0, <2>1, <2>7, Zenon DEF Control, Counted, Letters
  <2> QED
    BY <2>8, <2>9, <2>10 DEF Typed
<1>3. CASE ExchangeEnds
  <2>1. UNCHANGED <<argv, ordering, nextchar, bottom, middle, top, args, optarg>>
        /\ gpc \in {"exchange", "exchange_rest"}
    BY <1>3, Zenon DEF ExchangeEnds, returned, segments
  <2>2. /\ first_nonopt' = first_nonopt + (optind - last_nonopt)
        /\ last_nonopt' \in {optind, argc} /\ optind' \in {optind, argc}
        /\ gpc' \in {"skip", "element"}
    BY <1>3, Zenon DEF ExchangeEnds
  <2>3. first_nonopt < last_nonopt /\ last_nonopt < optind /\ nextchar = <<>>
    BY <1>0, <2>1 DEF Bounds, Exchanging, Control
  <2>4. first_nonopt' \in 1 .. argc /\ first_nonopt' <= last_nonopt'
    BY <1>0, <2>2, <2>3, Numbers
  <2>5. last_nonopt' \in 1 .. argc /\ optind' \in 1 .. argc
    BY <1>0, <2>2, Numbers
  <2>6. Elements' /\ argc' = argc
    BY <1>a, <2>1, Zenon
  <2>7. Indices'
    BY <1>0, <2>1, <2>4, <2>5, <2>6 DEF Indices
  <2>8. Control' /\ Counted' /\ Letters'
    BY <1>0, <2>1, <2>2, <2>3, <2>4 DEF Control, Counted, Letters
  <2> QED
    BY <2>6, <2>7, <2>8 DEF Typed
<1>4. CASE SkipNonOption
  <2>1. UNCHANGED <<argv, ordering, nextchar, first_nonopt, last_nonopt, bottom, middle, top, gpc,
            args, optarg>>
        /\ gpc = "skip" /\ optind < argc /\ optind' = optind + 1
    BY <1>4, Zenon DEF SkipNonOption, segments, returned
  <2>2. nextchar = <<>>
    BY <1>0, <2>1 DEF Control
  <2>3. Elements' /\ argc' = argc
    BY <1>a, <2>1, Zenon
  <2>4. optind' \in 1 .. argc
    BY <1>0, <2>1, Numbers
  <2>5. Indices'
    BY <1>0, <2>1, <2>3, <2>4 DEF Indices
  <2>6. Control' /\ Counted' /\ Letters'
    BY <1>0, <2>1, <2>2, Zenon DEF Control, Counted, Letters
  <2> QED
    BY <2>3, <2>5, <2>6 DEF Typed
<1>5. CASE SkipEnds
  <2>1. UNCHANGED <<argv, ordering, optind, nextchar, first_nonopt, bottom, middle, top, args, optarg>>
        /\ gpc = "skip" /\ last_nonopt' = optind /\ gpc' = "element"
    BY <1>5, Zenon DEF SkipEnds, segments, returned
  <2>2. nextchar = <<>> /\ first_nonopt <= optind
    BY <1>0, <2>1 DEF Control, Order
  <2>3. Elements' /\ argc' = argc
    BY <1>a, <2>1, Zenon
  <2>4. Indices'
    BY <1>0, <2>1, <2>3 DEF Indices
  <2>5. Control' /\ Counted' /\ Letters'
    BY <1>0, <2>1, <2>2 DEF Control, Counted, Letters
  <2> QED
    BY <2>3, <2>4, <2>5 DEF Typed
<1>6. CASE DashDash
  <2>1. UNCHANGED <<argv, ordering, nextchar, args, optarg>> /\ gpc = "element" /\ optind # argc
    BY <1>6, Zenon DEF DashDash, returned
  <2>2. nextchar = <<>> /\ first_nonopt <= last_nonopt /\ last_nonopt <= optind
    BY <1>0, <2>1 DEF Control, Order
  <2>3. Elements' /\ argc' = argc
    BY <1>a, <2>1, Zenon
  <2>4. optind + 1 \in 1 .. argc /\ argc \in 1 .. argc
    BY <1>0, <2>1, Numbers
  <2>5. first_nonopt' \in {first_nonopt, optind + 1} /\ last_nonopt' \in {last_nonopt, argc}
        /\ optind' \in {optind + 1, argc} /\ gpc' \in {"element", "exchange_rest"}
        /\ bottom' \in {bottom, first_nonopt} /\ middle' \in {middle, last_nonopt}
             /\ top' \in {top, optind'}
    BY <1>6, <2>1, Zenon DEF DashDash, StartExchange, segments
  <2>6. Indices'
    BY <1>0, <2>3, <2>4, <2>5 DEF Indices
  <2>7. (first_nonopt' = first_nonopt /\ last_nonopt' = last_nonopt) \/ last_nonopt' = argc
    BY <1>6, Zenon DEF DashDash
  <2>8. first_nonopt' <= last_nonopt'
    BY <1>0, <2>2, <2>4, <2>5, <2>7, Numbers
  <2>9. Control' /\ Counted' /\ Letters'
    BY <1>0, <2>1, <2>2, <2>5, <2>8, Zenon DEF Control, Counted, Letters
  <2> QED
    BY <2>3, <2>6, <2>9 DEF Typed
<1>7. CASE NoMore
  <2>1. UNCHANGED <<argv, ordering, nextchar, first_nonopt, last_nonopt, bottom, middle, top, args,
            optarg>>
        /\ gpc = "element" /\ gpc' = "done" /\ optind' \in {optind, first_nonopt}
    BY <1>7, Zenon DEF NoMore, segments, returned
  <2>2. nextchar = <<>> /\ first_nonopt <= last_nonopt
    BY <1>0, <2>1 DEF Control, Order
  <2>3. Elements' /\ argc' = argc
    BY <1>a, <2>1, Zenon
  <2>4. Indices'
    BY <1>0, <2>1, <2>3 DEF Indices
  <2>5. Control' /\ Counted' /\ Letters'
    BY <1>0, <2>1, <2>2 DEF Control, Counted, Letters
  <2> QED
    BY <2>3, <2>4, <2>5 DEF Typed
<1>8. CASE LongOption
  <2>1. PICK found : found = Meanings(Candidates(NameOf(argv[optind])))
    OBVIOUS
  <2>2. UNCHANGED <<first_nonopt, last_nonopt>> /\ nextchar' = <<>> /\ optind # argc /\ gpc = "element"
    BY <1>8, Zenon DEF LongOption
  <2>3. optind + 1 \in 1 .. argc /\ (optind + 1 < argc => optind + 2 \in 1 .. argc) /\ optind < argc
    <3>1. optind # argc
      BY <2>2
    <3> QED
      BY ONLY <1>0, <3>1, Numbers
  <2>4. <<>> \in Optional(Seq(Pieces)) /\ ArgumentOf(argv[optind]) \in Optional(Seq(Pieces))
    BY <1>0, <2>3, Numbers, ElementType, ArgumentType DEF Optional
  <2>5. optind + 1 < argc => <<argv[optind + 1]>> \in Optional(Seq(Pieces))
    BY <1>0, <2>3, Numbers, ElementType DEF Optional
  <2>6. \E v : \E a \in Optional(Seq(Pieces)) : Deliver(v, a) /\ optind' \in 1 .. argc
    BY <1>8, <2>1, <2>3, <2>4, <2>5, Zenon DEF LongOption
  <2>7. first_nonopt <= last_nonopt /\ <<>> \in Seq(Pieces)
    BY <1>0, <2>2 DEF Order
  <2> QED
    BY <1>0, <2>2, <2>6, <2>7, DeliverType, Zenon
<1>9. CASE ShortElement
  <2>1. UNCHANGED <<argv, ordering, optind, first_nonopt, last_nonopt, bottom, middle, top, args,
            optarg>>
        /\ gpc = "element" /\ gpc' = "letter" /\ nextchar' = Tail(argv[optind])
        /\ optind # argc /\ Len(argv[optind]) > 1
    BY <1>9, Zenon DEF ShortElement, segments, returned
  <2>2. optind < argc
    BY <1>0, <2>1, Numbers
  <2>3. PICK e \in Seq(Pieces) : e = argv[optind]
    BY <1>0, <2>2, Numbers, ElementType
  <2>4. nextchar' \in Seq(Pieces) /\ nextchar' # <<>> /\ Len(nextchar') < Len(e)
    <3>1. Tail(e) \in Seq(Pieces) /\ Len(Tail(e)) = Len(e) - 1 /\ Len(e) > 1 /\ Len(e) \in Nat
      BY <2>1, <2>3
    <3>2. Tail(e) # <<>>
      <4>1. Len(<<>>) = 0
        OBVIOUS
      <4>2. Len(Tail(e)) # 0
        BY ONLY <3>1
      <4> QED
        BY <4>1, <4>2, Zenon
    <3> QED
      BY <2>1, <2>3, <3>1, <3>2
  <2>5. argc' = argc
    BY <2>1 DEF argc
  <2>6. Elements'
    BY <1>0, <2>1, <2>4, Zenon DEF Elements
  <2>7. Indices'
    BY <1>0, <2>1, <2>5 DEF Indices
  <2>8. Control' /\ Counted'
    BY <1>0, <2>1, <2>4 DEF Control, Counted
  <2>9. Letters'
    BY <2>1, <2>2, <2>3, <2>4, <2>5, Zenon DEF Letters
  <2> QED
    BY <2>6, <2>7, <2>8, <2>9 DEF Typed
<1>10. CASE NextLetter
  <2>1. UNCHANGED <<argv, ordering, optind, nextchar, first_nonopt, last_nonopt, bottom, middle,
            top, args, optarg>>
        /\ gpc = "call" /\ nextchar # <<>> /\ gpc' = "letter"
    BY <1>10, Zenon DEF NextLetter, segments, returned, scan
  <2>2. Elements' /\ argc' = argc
    BY <1>a, <2>1, Zenon
  <2>3. Indices'
    BY <1>0, <2>1, <2>2 DEF Indices
  <2>4. Control' /\ Counted'
    BY <1>0, <2>1 DEF Control, Counted
  <2>5. Letters'
    BY <1>0, <2>1, <2>2, Zenon DEF Letters
  <2> QED
    BY <2>2, <2>3, <2>4, <2>5 DEF Typed
<1>11. CASE ShortOption
  <2>1. PICK rest : rest = Tail(nextchar)
    OBVIOUS
  <2>2. UNCHANGED <<first_nonopt, last_nonopt>> /\ gpc = "letter"
    BY <1>11, Zenon DEF ShortOption
  <2>3. nextchar # <<>> /\ nextchar \in Seq(Pieces)
    BY <1>0, <2>2 DEF Control, Elements
  <2>4. optind < argc /\ Len(nextchar) < Len(argv[optind])
    BY <1>0, <2>3 DEF Letters
  <2>5. rest \in Seq(Pieces) /\ Len(rest) < Len(nextchar)
    BY ONLY <2>1, <2>3
  <2>6. optind + 1 \in 1 .. argc /\ (optind + 1 # argc => optind + 2 \in 1 .. argc /\ optind + 1 < argc)
        /\ optind \in 1 .. argc
    BY <1>0, <2>4, Numbers
  <2>7. <<>> \in Optional(Seq(Pieces)) /\ <<rest>> \in Optional(Seq(Pieces))
    BY <2>5 DEF Optional
  <2>8. optind + 1 # argc => <<argv[optind + 1]>> \in Optional(Seq(Pieces))
    BY <1>0, <2>6, Numbers, ElementType DEF Optional
  <2>9. \E v : \E a \in Optional(Seq(Pieces)) : Deliver(v, a)
    BY <1>11, <2>1, <2>7, <2>8, Zenon DEF ShortOption
  <2>10. /\ nextchar' \in {rest, <<>>} /\ optind' \in 1 .. argc
         /\ nextchar' # <<>> => optind' = optind /\ nextchar' = rest
    BY <1>11, <2>1, <2>6, Zenon DEF ShortOption
  <2>11. PICK e \in Seq(Pieces) : e = argv[optind]
    BY <1>0, <2>4, Numbers, ElementType
  <2>12. nextchar' \in Seq(Pieces)
    <3>1. <<>> \in Seq(Pieces)
      OBVIOUS
    <3> QED
      BY <2>5, <2>10, <3>1, Zenon
  <2>13. Len(rest) < Len(e)
    BY ONLY <2>3, <2>4, <2>5, <2>11
  <2>14. nextchar' # <<>> => optind' < argc /\ Len(nextchar') < Len(argv[optind'])
    BY <2>4, <2>10, <2>11, <2>13, Zenon
  <2>15. first_nonopt <= last_nonopt
    BY <1>0, <2>2 DEF Order
  <2> QED
    BY <1>0, <2>2, <2>9, <2>10, <2>12, <2>14, <2>15, DeliverType, Zenon
<1> QED
  BY <1>1, <1>2, <1>3, <1>4, <1>5, <1>6, <1>7, <1>8, <1>9, <1>10, <1>11 DEF GetOptNext

\* Every step of the scan keeps the order of the indices.
LEMMA OrderStep ==
  ASSUME GInv, GetOptNext
  PROVE  Order' /\ Bounds' /\ Modes'
<1>0. Typed /\ Order /\ Bounds /\ Modes /\ ordering \in {"PERMUTE", "REQUIRE_ORDER"}
  BY DEF GInv, Typed, Control
<1>a. ASSUME Deliver(opt', optarg'), UNCHANGED <<first_nonopt, last_nonopt>>,
               optind' \in {optind, optind + 1, optind + 2},
             gpc \in {"element", "letter"}, gpc = "element" => optind # argc
      PROVE  Order' /\ Bounds' /\ Modes'
  <2>1. gpc' = "return" /\ ordering' = ordering
    BY <1>a, Zenon DEF Deliver
  <2>2. first_nonopt <= last_nonopt /\ last_nonopt <= optind
    BY <1>0, <1>a DEF Order
  <2>3. last_nonopt <= optind'
    BY <1>0, <1>a, <2>2, Numbers
  <2>4. ordering = "REQUIRE_ORDER" => first_nonopt = 1 /\ last_nonopt = 1
    BY <1>0, <1>a DEF Modes
  <2> QED
    BY <1>0, <1>a, <2>1, <2>2, <2>3, <2>4 DEF Order, Bounds, Exchanging, Modes
<1>1. CASE NextElement
  <2>1. UNCHANGED <<argv, ordering, optind, last_nonopt>> /\ gpc = "call"
    BY <1>1, Zenon DEF NextElement
  <2>2. first_nonopt <= last_nonopt /\ last_nonopt <= optind
    BY <1>0, <2>1 DEF Order
  <2>3. ordering = "REQUIRE_ORDER" => first_nonopt = 1 /\ last_nonopt = 1
    BY <1>0, <2>1 DEF Modes
  <2>4. CASE ordering = "PERMUTE" /\ first_nonopt # last_nonopt /\ last_nonopt # optind
    <3>1. bottom' = first_nonopt /\ middle' = last_nonopt /\ top' = optind /\ gpc' = "exchange"
          /\ first_nonopt' = first_nonopt
      BY <1>1, <2>1, <2>4, Zenon DEF NextElement, StartExchange, Interleaved
    <3>2. first_nonopt < last_nonopt /\ last_nonopt < optind
      BY <1>0, <2>2, <2>4, Numbers
    <3> QED
      BY <1>0, <2>1, <2>2, <2>4, <3>1, <3>2, Numbers DEF Order, Bounds, Exchanging, Modes
  <2>5. CASE ~(ordering = "PERMUTE" /\ first_nonopt # last_nonopt /\ last_nonopt # optind)
    <3>1. gpc' = (IF ordering = "PERMUTE" THEN "skip" ELSE "element")
          /\ first_nonopt' = (IF ordering = "PERMUTE" /\ last_nonopt # optind
                              THEN optind ELSE first_nonopt)
      BY <1>1, <2>1, <2>5, Zenon DEF NextElement, StartExchange, Interleaved
    <3>2. first_nonopt' <= optind
      BY <1>0, <2>2, <3>1, Numbers
    <3> QED
      BY <1>0, <2>1, <2>2, <2>3, <3>1, <3>2 DEF Order, Bounds, Exchanging, Modes
  <2> QED
    BY <2>4, <2>5
<1>2. CASE Exchange
  <2>1. UNCHANGED <<ordering, optind, first_nonopt, last_nonopt, gpc, middle>>
        /\ gpc \in {"exchange", "exchange_rest"} /\ top > middle /\ middle > bottom
    BY <1>2, Zenon DEF Exchange, scan
  <2>2. /\ ordering = "PERMUTE" /\ first_nonopt < last_nonopt /\ last_nonopt < optind
        /\ first_nonopt <= bottom /\ bottom <= middle /\ middle <= top /\ top <= optind
    BY <1>0, <2>1, Zenon DEF Bounds, Exchanging
  <2>3. first_nonopt <= bottom' /\ bottom' <= middle /\ middle <= top' /\ top' <= optind
    <3>1. (top' = top - (middle - bottom) /\ bottom' = bottom /\ top - middle > middle - bottom)
          \/ (bottom' = bottom + (top - middle) /\ top' = top /\ top - middle <= middle - bottom)
      BY <1>2, Zenon DEF Exchange
    <3> QED
      BY ONLY <1>0, <2>1, <2>2, <3>1, Numbers
  <2>4. first_nonopt <= last_nonopt /\ last_nonopt <= optind
    BY <1>0, <2>2, Numbers
  <2> QED
    BY <2>1, <2>2, <2>3, <2>4, Zenon DEF Order, Bounds, Exchanging, Modes
<1>3. CASE ExchangeEnds
  <2>1. ordering' = ordering /\ gpc \in {"exchange", "exchange_rest"}
        /\ argv' = argv
    BY <1>3, Zenon DEF ExchangeEnds
  <2>2. ordering = "PERMUTE" /\ first_nonopt < last_nonopt /\ last_nonopt < optind
    BY <1>0, <2>1, Zenon DEF Bounds, Exchanging
  <2>3. /\ first_nonopt' = first_nonopt + (optind - last_nonopt)
        /\ last_nonopt' = optind' /\ optind' \in {optind, argc}
        /\ gpc' \in {"skip", "element"}
    BY <1>3, Zenon DEF ExchangeEnds
  <2>4. first_nonopt' <= optind' /\ last_nonopt' <= optind'
    BY <1>0, <2>2, <2>3, Numbers
  <2> QED
    BY <2>1, <2>2, <2>3, <2>4 DEF Order, Bounds, Exchanging, Modes
<1>4. CASE SkipNonOption
  <2>1. UNCHANGED <<argv, ordering, first_nonopt, last_nonopt, gpc>>
        /\ gpc = "skip" /\ optind < argc /\ optind' = optind + 1
    BY <1>4, Zenon DEF SkipNonOption
  <2>2. first_nonopt <= optind /\ last_nonopt <= optind
    BY <1>0, <2>1 DEF Order
  <2>3. first_nonopt <= optind' /\ last_nonopt <= optind'
    BY <1>0, <2>1, <2>2, Numbers
  <2>4. ordering = "PERMUTE"
    BY <1>0, <2>1 DEF Modes
  <2> QED
    BY <2>1, <2>3, <2>4 DEF Order, Bounds, Exchanging, Modes
<1>5. CASE SkipEnds
  <2>1. UNCHANGED <<argv, ordering, optind, first_nonopt>>
        /\ gpc = "skip" /\ last_nonopt' = optind /\ gpc' = "element"
    BY <1>5, Zenon DEF SkipEnds
  <2>2. first_nonopt <= optind /\ optind <= optind
    BY <1>0, <2>1, Numbers DEF Order
  <2>3. ordering = "PERMUTE"
    BY <1>0, <2>1 DEF Modes
  <2> QED
    BY <2>1, <2>2, <2>3 DEF Order, Bounds, Exchanging, Modes
<1>6. CASE DashDash
  <2>1. UNCHANGED <<argv, ordering>> /\ gpc = "element" /\ optind # argc /\ argc' = argc
    BY <1>6, Zenon DEF DashDash, argc
  <2>2. first_nonopt <= last_nonopt /\ last_nonopt <= optind /\ optind < argc
    BY <1>0, <2>1, Numbers DEF Order
  <2>3. ordering = "REQUIRE_ORDER" => first_nonopt = 1 /\ last_nonopt = 1
    BY <1>0, <2>1 DEF Modes
  <2>4. CASE first_nonopt # last_nonopt /\ last_nonopt # optind + 1
    <3>1. bottom' = first_nonopt /\ middle' = last_nonopt /\ top' = optind + 1 /\ gpc' = "exchange_rest"
          /\ first_nonopt' = first_nonopt /\ last_nonopt' = last_nonopt /\ optind' = optind + 1
      BY <1>6, <2>1, <2>4, Zenon DEF DashDash, StartExchange, Interleaved
    <3>2. first_nonopt < last_nonopt /\ last_nonopt < optind' /\ ordering = "PERMUTE"
          /\ first_nonopt <= bottom' /\ bottom' <= middle' /\ middle' <= top' /\ top' <= optind'
      BY <1>0, <2>2, <2>3, <2>4, <3>1, Numbers
    <3>3. first_nonopt' <= last_nonopt' /\ last_nonopt' <= optind'
      BY <1>0, <2>2, <3>1, Numbers
    <3> QED
      BY <2>1, <3>1, <3>2, <3>3 DEF Order, Bounds, Exchanging, Modes
  <2>5. CASE ~(first_nonopt # last_nonopt /\ last_nonopt # optind + 1)
    <3>1. gpc' = "element" /\ optind' = argc /\ last_nonopt' = argc
          /\ first_nonopt' \in {first_nonopt, optind + 1}
      BY <1>6, <2>1, <2>5, Zenon DEF DashDash, StartExchange, Interleaved
    <3>2. first_nonopt' <= last_nonopt' /\ last_nonopt' <= optind'
      BY <1>0, <2>2, <3>1, Numbers
    <3> QED
      BY <1>0, <2>1, <3>1, <3>2 DEF Order, Bounds, Exchanging, Modes
  <2> QED
    BY <2>4, <2>5
<1>7. CASE NoMore
  <2>1. UNCHANGED <<argv, ordering, first_nonopt, last_nonopt>> /\ gpc = "element" /\ gpc' = "done"
          /\ argc' = argc
    BY <1>7, Zenon DEF NoMore, argc
  <2>2. first_nonopt <= last_nonopt
    BY <1>0, <2>1 DEF Order
  <2>3. ordering = "REQUIRE_ORDER" => (first_nonopt = 1 /\ last_nonopt = 1) \/ last_nonopt = argc
    BY <1>0, <2>1, Zenon DEF Modes
  <2> QED
    BY <1>0, <2>1, <2>2, <2>3 DEF Order, Bounds, Exchanging, Modes
<1>8. CASE LongOption
  <2>1. PICK found : found = Meanings(Candidates(NameOf(argv[optind])))
    OBVIOUS
  <2>2. gpc = "element" /\ UNCHANGED <<first_nonopt, last_nonopt>> /\ optind # argc
    BY <1>8, Zenon DEF LongOption
  <2>3. \E v, a : Deliver(v, a) /\ optind' \in {optind, optind + 1, optind + 2}
    BY <1>8, <2>1, Zenon DEF LongOption
  <2>4. Deliver(opt', optarg')
    BY <2>3, Zenon DEF Deliver
  <2> QED
    BY <1>a, <2>2, <2>3, <2>4, Zenon
<1>9. CASE ShortElement
  <2>1. UNCHANGED <<ordering, optind, first_nonopt, last_nonopt>>
        /\ gpc = "element" /\ gpc' = "letter" /\ optind # argc
    BY <1>9, Zenon DEF ShortElement
  <2>2. first_nonopt <= last_nonopt /\ last_nonopt <= optind
    BY <1>0, <2>1 DEF Order
  <2>3. ordering = "REQUIRE_ORDER" => first_nonopt = 1 /\ last_nonopt = 1
    BY <1>0, <2>1, Zenon DEF Modes
  <2> QED
    BY <1>0, <2>1, <2>2, <2>3 DEF Order, Bounds, Exchanging, Modes
<1>10. CASE NextLetter
  <2>1. UNCHANGED <<ordering, optind, first_nonopt, last_nonopt>>
        /\ gpc = "call" /\ gpc' = "letter"
    BY <1>10, Zenon DEF NextLetter, scan
  <2>2. first_nonopt <= last_nonopt /\ last_nonopt <= optind
    BY <1>0, <2>1 DEF Order
  <2>3. ordering = "REQUIRE_ORDER" => first_nonopt = 1 /\ last_nonopt = 1
    BY <1>0, <2>1 DEF Modes
  <2> QED
    BY <1>0, <2>1, <2>2, <2>3 DEF Order, Bounds, Exchanging, Modes
<1>11. CASE ShortOption
  <2>1. gpc = "letter" /\ UNCHANGED <<first_nonopt, last_nonopt>>
    BY <1>11, Zenon DEF ShortOption
  <2>2. \E v, a : Deliver(v, a) /\ optind' \in {optind, optind + 1, optind + 2}
    BY <1>11, Zenon DEF ShortOption
  <2>3. Deliver(opt', optarg')
    BY <2>2, Zenon DEF Deliver
  <2> QED
    BY <1>a, <2>1, <2>2, <2>3
<1> QED
  BY <1>1, <1>2, <1>3, <1>4, <1>5, <1>6, <1>7, <1>8, <1>9, <1>10, <1>11 DEF GetOptNext

\* The invariant of the scan is one.
LEMMA GInvStep == GInv /\ [Next]_vars => GInv'
<1> SUFFICES ASSUME GInv, [Next]_vars PROVE GInv'
  OBVIOUS
<1>0. Elements /\ Indices /\ Control /\ Letters /\ Counted /\ Order /\ Bounds /\ Modes /\ Typed
  BY DEF GInv, Typed
<1>1. CASE GetOptNext
  BY <1>1, TypedStep, OrderStep, Zenon DEF GInv
<1>2. CASE UNCHANGED getopt_vars
  <2>1. UNCHANGED <<argv, ordering, optind, nextchar, first_nonopt, last_nonopt, bottom, middle,
            top, gpc, optarg, args>>
        /\ argc' = argc
    BY <1>2, Zenon DEF getopt_vars, scan, segments, returned, argc
  <2>2. Elements' /\ Indices' /\ Control' /\ Letters' /\ Counted'
    BY <1>0, <2>1, Zenon DEF Elements, Indices, Control, Letters, Counted
  <2>3. Order' /\ Bounds' /\ Modes'
    BY <1>0, <2>1, Zenon DEF Order, Bounds, Modes, Exchanging
  <2> QED
    BY <2>2, <2>3 DEF GInv, Typed
<1>3. CASE gpc = "return" /\ gpc' = "call" /\ UNCHANGED <<argv, ordering, scan, segments, returned>>
  <2>1. UNCHANGED <<argv, ordering, optind, nextchar, first_nonopt, last_nonopt, bottom, middle,
            top, optarg, args>>
        /\ argc' = argc /\ gpc = "return" /\ gpc' = "call"
    BY <1>3, Zenon DEF scan, segments, returned, argc
  <2>2. Elements' /\ Indices' /\ Letters'
    BY <1>0, <2>1, Zenon DEF Elements, Indices, Letters
  <2>3. Control' /\ Counted' /\ Order' /\ Bounds' /\ Modes'
    BY <1>0, <2>1 DEF Order, Bounds, Modes, Exchanging, Control, Counted
  <2> QED
    BY <2>2, <2>3 DEF GInv, Typed
<1>4. CASE Others
  <2>1. UNCHANGED <<argv, ordering, nextchar, first_nonopt, last_nonopt, bottom, middle, top, gpc,
            optarg, args>>
        /\ argc' = argc /\ gpc = "done" /\ optind' = optind + 1 /\ optind < argc
    BY <1>4, Zenon DEF Others, segments, returned, argc
  <2>2. optind' \in 1 .. argc
    BY <1>0, <2>1, Numbers
  <2>3. nextchar = <<>>
    BY <1>0, <2>1 DEF Control
  <2>4. Elements' /\ Control' /\ Letters' /\ Counted'
    BY <1>0, <2>1, <2>3, Zenon DEF Elements, Letters, Control, Counted
  <2>5. Indices'
    BY <1>0, <2>1, <2>2 DEF Indices
  <2>6. Order' /\ Bounds' /\ Modes'
    BY <1>0, <2>1 DEF Order, Bounds, Modes, Exchanging
  <2> QED
    BY <2>4, <2>5, <2>6 DEF GInv, Typed
<1> QED
  BY <1>1, <1>2, <1>3, <1>4, Steps, Zenon DEF vars

\* It always holds.
LEMMA GInvAlways == Spec => []GInv
BY GInvInit, GInvStep, PTL DEF Spec

-----------------------------------------------------------------------------
(* The types of the whole program.  *)

\* What the options have set, apart from the strings.
Set ==
  /\ flags \subseteq {FlagOf[o] : o \in DOMAIN FlagOf} \cup {"OPT_BACKUP"}
  /\ backup_method \in {"", "none", "simple", "existing", "numbered"}
  /\ failure_flag \in BOOLEAN /\ exit_flag \in BOOLEAN
  /\ outcome \in {"", "failure", "no_memory", "information", "filter", "files"}

\* The strings that may be missing.
Strings ==
  /\ Len(pattern_string) <= 1 /\ Len(replacement_string) <= 1
  /\ Len(suffix_string) <= 1 /\ Len(version_control) <= 1

\* The types of backups that a word may stand for are types of backups.
LEMMA VersionType ==
  ASSUME NEW w
  PROVE  XgetVersion(w) \subseteq {"none", "simple", "existing", "numbered"}
<1>1. \A word : BackupTypesFor(word) \subseteq {"none", "simple", "existing", "numbered"}
  <2> TAKE word
  <2>1. PICK S : S = (IF {b \in BackupTypes : b.name = word} # {} THEN {b \in BackupTypes : b.name = word}
                      ELSE {b \in BackupTypes : IsPrefix(word, b.name)})
    OBVIOUS
  <2>2. S \subseteq BackupTypes
    BY <2>1
  <2>3. BackupTypesFor(word) = {b.type : b \in S}
    BY <2>1, Zenon DEF BackupTypesFor
  <2> QED
    BY <2>2, <2>3, TypesAssumption
<1>2. \A v : GetVersion(v) \subseteq {"none", "simple", "existing", "numbered"}
  BY <1>1 DEF GetVersion
<1> QED
  BY <1>2 DEF XgetVersion

\* What a step does to them.
LEMMA SetStep ==
  ASSUME Set, Next
  PROVE  Set'
<1> USE DEF Set
<1>1. CASE GetOptNext /\ UNCHANGED <<env, flags, strings, backups, filters, verdicts, outcome>>
  BY <1>1, Zenon DEF backups, verdicts
<1>2. CASE Switch
  <2>1. backup_method' = backup_method /\ outcome' = outcome
    BY <1>2, Zenon DEF Switch, SetFlag, BackupOption, StringOption, FilterOption, OtherOption, backups
  <2>2. flags' = flags \/ flags' = flags \cup {"OPT_BACKUP"}
          \/ (opt \in DOMAIN FlagOf /\ flags' = flags \cup {FlagOf[opt]})
    BY <1>2, Zenon DEF Switch, SetFlag, BackupOption, StringOption, FilterOption, OtherOption
  <2>3. failure_flag' \in {failure_flag, TRUE} /\ exit_flag' \in {exit_flag, TRUE}
    BY <1>2, Zenon DEF Switch, SetFlag, BackupOption, StringOption, FilterOption, OtherOption, verdicts
  <2>4. flags' \subseteq {FlagOf[o] : o \in DOMAIN FlagOf} \cup {"OPT_BACKUP"}
    BY <2>2, Zenon
  <2> QED
    BY <2>1, <2>3, <2>4, Zenon
<1>3. CASE Usage \/ Information \/ Dispatch \/ MallocFails
  <2>1. flags' = flags /\ backup_method' = backup_method /\ UNCHANGED verdicts
    BY <1>3, Zenon DEF Usage, Information, Dispatch, MallocFails, EndsWith, backups
  <2>2. outcome' \in {"failure", "no_memory", "information", "filter", "files"}
    BY <1>3, Zenon DEF Usage, Information, Dispatch, MallocFails, EndsWith
  <2> QED
    BY <2>1, <2>2, Zenon DEF verdicts
<1>4. CASE ChooseBackups
  <2>1. PICK types : types = IF "OPT_BACKUP" \in flags THEN XgetVersion(version_control) ELSE {"none"}
    OBVIOUS
  <2>2. types \subseteq {"none", "simple", "existing", "numbered"}
    BY <2>1, VersionType
  <2>3. (backup_method' = backup_method \/ backup_method' \in types) /\ outcome' \in {"", "failure"}
        /\ flags' = flags /\ UNCHANGED verdicts
    BY <1>4, <2>1, Zenon DEF ChooseBackups, EndsWith
  <2> QED
    BY <2>2, <2>3, Zenon DEF verdicts
<1>5. CASE TakeOperand
  BY <1>5, Zenon DEF TakeOperand, backups, verdicts
<1> QED
  BY <1>1, <1>2, <1>3, <1>4, <1>5, Zenon DEF Next, Works

\* And what it has at most one of.
LEMMA StringsStep ==
  ASSUME Strings, GInv, Next
  PROVE  Strings'
<1>1. /\ pattern_string' \in {pattern_string, optarg, <<argv[optind]>>}
      /\ replacement_string' \in {replacement_string, optarg, <<argv[optind]>>}
      /\ suffix_string' \in {suffix_string, optarg}
      /\ version_control' \in {version_control, optarg}
  <2>1. CASE UNCHANGED <<strings, backups>>
    BY <2>1, Zenon DEF strings, backups
  <2>2. CASE Switch
    BY <2>2, Zenon DEF Switch, SetFlag, BackupOption, StringOption, FilterOption, OtherOption,
         strings, backups
  <2>3. CASE Usage \/ Information \/ Dispatch \/ MallocFails
    BY <2>3, Zenon DEF Usage, Information, Dispatch, MallocFails, EndsWith, strings, backups
  <2>4. CASE ChooseBackups
    BY <2>4, Zenon DEF ChooseBackups, EndsWith, strings
  <2>5. CASE TakeOperand
    BY <2>5, Zenon DEF TakeOperand, backups
  <2> QED
    BY <2>1, <2>2, <2>3, <2>4, <2>5, Zenon DEF Next, Works
<1>2. Len(optarg) <= 1
  BY OptionalLength DEF GInv, Typed, Elements
<1>3. \A s : Len(<<s>>) <= 1
  OBVIOUS
<1>4. Len(<<argv[optind]>>) <= 1
  BY <1>3, Zenon
<1> QED
  BY <1>1, <1>2, <1>4, Zenon DEF Strings

\* The types always hold, however many options and operands there are.
\* TypeOK (rrep.c:751-981, lib/getopt.c:131-563).
THEOREM CommandLineTypeCorrect == Spec => []TypeOK
<1>1. Init => Set /\ Strings
  <2> SUFFICES ASSUME Init PROVE Set /\ Strings
    OBVIOUS
  <2>1. flags = {} /\ backup_method = "" /\ failure_flag = FALSE /\ exit_flag = FALSE /\ outcome = ""
    BY Zenon DEF Init
  <2>2. env \in Environments /\ pattern_string = <<>> /\ replacement_string = <<>>
        /\ version_control = <<>> /\ suffix_string = env.SIMPLE_BACKUP_SUFFIX
    BY Zenon DEF Init
  <2>3. Len(<<>>) <= 1
    OBVIOUS
  <2>4. Set
    BY <2>1 DEF Set
  <2>5. Len(suffix_string) <= 1
    BY <2>2, EnvironmentAssumption, Zenon
  <2> QED
    BY <2>2, <2>3, <2>4, <2>5, Zenon DEF Strings
<1>2. Set /\ Strings /\ GInv /\ [Next]_vars => (Set /\ Strings)'
  <2> SUFFICES ASSUME Set, Strings, GInv, [Next]_vars PROVE (Set /\ Strings)'
    OBVIOUS
  <2>1. CASE Next
    BY <2>1, SetStep, StringsStep
  <2>2. CASE UNCHANGED vars
    BY <2>2, Zenon DEF vars, Set, Strings, strings, backups, verdicts
  <2> QED
    BY <2>1, <2>2
<1>3. Set /\ Strings /\ GInv => TypeOK
  BY TypedMeans, Zenon DEF TypeOK, Set, Strings, GInv
<1> QED
  BY <1>1, <1>2, <1>3, GInvAlways, PTL DEF Spec

-----------------------------------------------------------------------------
(* What a cluster of short options means, letter by letter.  *)

\* What getopt_long may return for an option.
Answers ==
  ({"?"} \cup DOMAIN ShortOptions \cup {LongOptions[k].val : k \in DOMAIN LongOptions})
    \X Optional(Seq(Pieces))

\* A letter that takes no argument.
Flag(c) == <<IF c \in DOMAIN ShortOptions THEN c ELSE "?", <<>> >>

\* The first k letters take none.
Flags(s, k) == [j \in 1 .. k |-> Flag(s[j])]

\* The places of letters that take an argument.
Taking(s) == {i \in 1 .. Len(s) : TakesArgument(s[i])}

\* The letter at k needs the next element.
Ends(s, k) == k = Len(s) /\ ShortOptions[s[k]] = "required_argument"

\* Its argument.
Arg(s, k, next) ==
  IF k < Len(s) THEN <<SubSeq(s, k + 1, Len(s))>> ELSE IF Ends(s, k) THEN next ELSE <<>>

\* What the letter at k means.
Taken(s, k, next) ==
  <<IF Ends(s, k) /\ Arg(s, k, next) = <<>> THEN "?" ELSE s[k], Arg(s, k, next)>>

\* A cluster without arguments.
LEMMA ClusterOfFlags ==
  ASSUME NEW s \in Seq(Pieces), NEW next, Taking(s) = {}
  PROVE  /\ ShortMeaning(s, next).options = Flags(s, Len(s))
         /\ ShortMeaning(s, next).takes = FALSE
<1>1. SelectInSeq(s, TakesArgument) = 0
  BY DEF SelectInSeq, Taking
<1> QED
  BY <1>1 DEF ShortMeaning, Flags, Flag

\* A cluster in which the letter at k takes an argument.
LEMMA ClusterWithArgument ==
  ASSUME NEW s \in Seq(Pieces), NEW next, NEW k \in Taking(s), \A i \in Taking(s) : k <= i
  PROVE  /\ ShortMeaning(s, next).options = Flags(s, k - 1) \o <<Taken(s, k, next)>>
         /\ ShortMeaning(s, next).takes = (Ends(s, k) /\ next # <<>>)
<1>1. k \in 1 .. Len(s) /\ Taking(s) \in SUBSET Nat
  BY DEF Taking
<1>2. Min(Taking(s)) = k
  <2>1. Min(Taking(s)) \in Taking(s) /\ \A j \in Taking(s) : Min(Taking(s)) <= j
    BY <1>1, MinIs, Zenon
  <2> QED
    BY <1>1, <2>1
<1>3. SelectInSeq(s, TakesArgument) = k
  <2>1. SelectInSeq(s, TakesArgument) = IF Taking(s) # {} THEN Min(Taking(s)) ELSE 0
    BY Zenon DEF SelectInSeq, Taking
  <2> QED
    BY <1>2, <2>1, Zenon
<1>4. k # 0
  BY <1>1
<1>5. ShortMeaning(s, next) =
        [options |-> Flags(s, k - 1) \o <<Taken(s, k, next)>>, takes |-> Ends(s, k) /\ next # <<>>]
  BY <1>3, <1>4, Zenon DEF ShortMeaning, Flags, Flag, Taken, Ends, Arg
<1> QED
  BY <1>5

\* What letters without an argument are answered with.
LEMMA FlagsType ==
  ASSUME NEW s \in Seq(Pieces), NEW k \in Nat
  PROVE  /\ Flags(s, k) \in Seq(Answers) /\ Len(Flags(s, k)) = k
         /\ \A j \in 1 .. k : Flags(s, k)[j] = Flag(s[j])
<1>1. \A c : Flag(c) \in Answers
  BY DEF Flag, Answers, Optional
<1>2. PICK f : f = Flags(s, k)
  OBVIOUS
<1>3. f \in [1 .. k -> Answers] /\ \A j \in 1 .. k : f[j] = Flag(s[j])
  BY <1>1, <1>2 DEF Flags
<1>4. f \in Seq(Answers) /\ Len(f) = k
  BY <1>3, IsASeq
<1> QED
  BY <1>2, <1>3, <1>4, Zenon

\* A cluster of letters has a first that takes an argument, or none.
LEMMA FirstTaking ==
  ASSUME NEW s \in Seq(Pieces), Taking(s) # {}
  PROVE  \E k \in Taking(s) : \A i \in Taking(s) : k <= i
<1>1. Taking(s) \in SUBSET Nat
  BY DEF Taking
<1> QED
  BY <1>1, Least, Zenon

\* The letter with an argument is answered with what it takes.
LEMMA TakenType ==
  ASSUME NEW s \in Seq(Pieces), NEW k \in Taking(s), NEW next \in Optional(Seq(Pieces))
  PROVE  Taken(s, k, next) \in Answers
<1>1. k \in 1 .. Len(s) /\ s[k] \in DOMAIN ShortOptions
  BY DEF Taking, TakesArgument
<1>2. SubSeq(s, k + 1, Len(s)) \in Seq(Pieces)
  BY <1>1
<1>3. Arg(s, k, next) \in Optional(Seq(Pieces))
  BY <1>2 DEF Arg, Optional
<1> QED
  BY <1>1, <1>3 DEF Taken, Answers

\* What a cluster means is typed.
LEMMA ClusterType ==
  ASSUME NEW s \in Seq(Pieces), NEW next \in Optional(Seq(Pieces))
  PROVE  /\ ShortMeaning(s, next).options \in Seq(Answers)
         /\ ShortMeaning(s, next).takes \in BOOLEAN
         /\ ShortMeaning(s, next).takes => next # <<>>
<1>0. Len(s) \in Nat
  OBVIOUS
<1>1. CASE Taking(s) = {}
  <2>1. ShortMeaning(s, next).options = Flags(s, Len(s)) /\ ShortMeaning(s, next).takes = FALSE
    BY <1>1, ClusterOfFlags, Zenon
  <2>2. Flags(s, Len(s)) \in Seq(Answers)
    BY <1>0, FlagsType, Zenon
  <2> QED
    BY <2>1, <2>2, Zenon
<1>2. CASE Taking(s) # {}
  <2>1. PICK k \in Taking(s) : \A i \in Taking(s) : k <= i
    BY <1>2, FirstTaking, Zenon
  <2>2. k - 1 \in Nat
    BY DEF Taking
  <2>3. Flags(s, k - 1) \in Seq(Answers) /\ <<Taken(s, k, next)>> \in Seq(Answers)
    BY <2>2, FlagsType, TakenType
  <2>4. Flags(s, k - 1) \o <<Taken(s, k, next)>> \in Seq(Answers)
    BY <2>3, ConcatProperties
  <2>5. ShortMeaning(s, next).takes \in BOOLEAN /\ (ShortMeaning(s, next).takes => next # <<>>)
    BY <2>1, ClusterWithArgument, Zenon DEF Ends
  <2> QED
    BY <2>1, <2>4, <2>5, ClusterWithArgument, Zenon
<1> QED
  BY <1>1, <1>2

\* A cluster that begins with a letter without an argument.
LEMMA ClusterOfFlagAnd ==
  ASSUME NEW s \in Seq(Pieces), NEW next \in Optional(Seq(Pieces)), s # <<>>,
         ~ TakesArgument(Head(s))
  PROVE  /\ ShortMeaning(s, next).options = <<Flag(Head(s))>> \o ShortMeaning(Tail(s), next).options
         /\ ShortMeaning(s, next).takes = ShortMeaning(Tail(s), next).takes
<1>1. PICK r \in Seq(Pieces) : r = Tail(s)
  BY HeadTailProperties
<1>2. /\ Len(s) \in Nat /\ Len(r) \in Nat /\ Len(s) = Len(r) + 1 /\ Head(s) = s[1]
      /\ \A j \in 1 .. Len(r) : s[j + 1] = r[j]
  BY <1>1
<1>3. \A j \in Nat : j + 1 \in Taking(s) <=> j \in Taking(r)
  <2> TAKE j \in Nat
  <2>1. CASE j = 0
    BY <1>2, <2>1 DEF Taking
  <2>2. CASE j # 0
    <3>1. j + 1 \in 1 .. Len(s) <=> j \in 1 .. Len(r)
      BY <1>2, <2>2
    <3> QED
      BY <1>2, <3>1, Zenon DEF Taking
  <2> QED
    BY <2>1, <2>2
<1>4. ASSUME NEW k \in Nat, k <= Len(r)
      PROVE  Flags(s, k + 1) = <<Flag(Head(s))>> \o Flags(r, k)
  <2>1. PICK f \in Seq(Answers) : f = Flags(s, k + 1) /\ Len(f) = k + 1
               /\ \A j \in 1 .. k + 1 : f[j] = Flag(s[j])
    BY <1>4, FlagsType
  <2>2. PICK h \in Seq(Answers) : h = Flags(r, k) /\ Len(h) = k /\ \A j \in 1 .. k : h[j] = Flag(r[j])
    BY <1>4, FlagsType
  <2>3. Flag(s[1]) \in Answers
    <3>1. 1 \in 1 .. k + 1 /\ f[1] \in Answers
      BY <1>4, <2>1
    <3> QED
      BY <2>1, <3>1, Zenon
  <2>4. PICK a : a = Flag(s[1])
    OBVIOUS
  <2>5. \A j \in 1 .. k + 1 : f[j] = IF j = 1 THEN a ELSE h[j - 1]
    <3> TAKE j \in 1 .. k + 1
    <3>1. CASE j = 1
      BY <2>1, <2>4, <3>1
    <3>2. CASE j # 1
      <4>1. j - 1 \in 1 .. k /\ (j - 1) + 1 = j /\ j - 1 \in 1 .. Len(r)
        BY <1>4, <3>2
      <4>2. s[(j - 1) + 1] = r[j - 1]
        BY <1>2, <4>1, Zenon
      <4> QED
        BY <2>1, <2>2, <3>2, <4>1, <4>2
    <3> QED
      BY <3>1, <3>2
  <2>6. f = <<a>> \o h
    <3>1. a \in Answers /\ <<a>> \in Seq(Answers) /\ Len(<<a>>) = 1 /\ <<a>>[1] = a
      BY <2>3, <2>4
    <3>2. PICK b \in Seq(Answers) : b = <<a>> /\ Len(b) = 1 /\ b[1] = a
      BY <3>1
    <3>3. PICK c \in Seq(Answers) : c = b \o h /\ Len(c) = k + 1
                                    /\ \A j \in 1 .. k + 1 : c[j] = IF j <= 1 THEN b[j] ELSE h[j - 1]
      <4>1. b \o h \in Seq(Answers) /\ Len(b \o h) = 1 + k
            /\ \A j \in 1 .. 1 + k : (b \o h)[j] = IF j <= 1 THEN b[j] ELSE h[j - 1]
        BY <2>2, <3>2, ConcatProperties
      <4>2. 1 + k = k + 1
        BY <1>4
      <4> QED
        BY <4>1, <4>2
    <3>4. \A j \in 1 .. k + 1 : f[j] = c[j]
      <4> TAKE j \in 1 .. k + 1
      <4>1. CASE j = 1
        BY <2>5, <3>2, <3>3, <4>1
      <4>2. CASE j # 1
        BY <2>5, <3>3, <4>2
      <4> QED
        BY <4>1, <4>2
    <3>5. f = c
      BY <2>1, <3>3, <3>4, SeqEqual
    <3> QED
      BY <3>2, <3>3, <3>5, Zenon
  <2> QED
    BY <1>2, <2>1, <2>2, <2>4, <2>6, Zenon
<1>5. CASE Taking(r) = {}
  <2>1. Taking(s) = {}
    <3>1. 1 \notin Taking(s)
      BY <1>2 DEF Taking
    <3>2. ASSUME NEW i \in Taking(s) PROVE FALSE
      <4>1. i \in 1 .. Len(s)
        BY DEF Taking
      <4>2. i # 1
        BY <3>1
      <4>3. i - 1 \in Nat /\ (i - 1) + 1 = i
        BY <4>1, <4>2
      <4> QED
        BY <1>3, <1>5, <4>3, Zenon
    <3> QED
      BY <3>2
  <2>2. Flags(s, Len(s)) = <<Flag(Head(s))>> \o Flags(r, Len(r))
    <3>1. Len(r) <= Len(r)
      BY <1>2
    <3> QED
      BY <1>2, <1>4, <3>1, Zenon
  <2> QED
    BY <1>1, <1>5, <2>1, <2>2, ClusterOfFlags, Zenon
<1>6. CASE Taking(r) # {}
  <2>1. PICK k \in Taking(r) : \A i \in Taking(r) : k <= i
    BY <1>6, FirstTaking, Zenon
  <2>2. k \in 1 .. Len(r) /\ k \in Nat
    BY DEF Taking
  <2>3. k + 1 \in Taking(s)
    BY <1>3, <2>2, Zenon
  <2>4. ASSUME NEW i \in Taking(s) PROVE k + 1 <= i
    <3>1. i \in 1 .. Len(s)
      BY DEF Taking
    <3>2. 1 \notin Taking(s)
      BY <1>2 DEF Taking
    <3>3. i - 1 \in Nat /\ (i - 1) + 1 = i
      BY <3>1
    <3>4. i - 1 \in Taking(r)
      BY <1>3, <3>3, Zenon
    <3>5. k <= i - 1
      BY <2>1, <3>4
    <3> QED
      BY <2>2, <3>1, <3>5
  <2>5. Taken(s, k + 1, next) = Taken(r, k, next) /\ (Ends(s, k + 1) <=> Ends(r, k))
    <3>1. s[k + 1] = r[k] /\ (k + 1 = Len(s) <=> k = Len(r)) /\ (k + 1 < Len(s) <=> k < Len(r))
      BY <1>2, <2>2
    <3>2. Ends(s, k + 1) <=> Ends(r, k)
      BY <3>1, Zenon DEF Ends
    <3>3. k < Len(r) => SubSeq(s, (k + 1) + 1, Len(s)) = SubSeq(r, k + 1, Len(r))
      <4> SUFFICES ASSUME k < Len(r) PROVE SubSeq(s, (k + 1) + 1, Len(s)) = SubSeq(r, k + 1, Len(r))
        OBVIOUS
      <4>1. PICK x : x = SubSeq(s, (k + 1) + 1, Len(s))
        OBVIOUS
      <4>2. PICK y : y = SubSeq(r, k + 1, Len(r))
        OBVIOUS
      <4>3. x \in Seq(Pieces) /\ Len(x) = Len(s) - (k + 1)
              /\ \A i \in 1 .. Len(x) : x[i] = s[(k + 1) + i]
        BY <1>2, <2>2, <4>1
      <4>4. y \in Seq(Pieces) /\ Len(y) = Len(r) - k /\ \A i \in 1 .. Len(y) : y[i] = r[k + i]
        BY <1>2, <2>2, <4>2
      <4>5. Len(x) = Len(y)
        BY <1>2, <2>2, <4>3, <4>4
      <4>6. \A i \in 1 .. Len(x) : x[i] = y[i]
        <5> TAKE i \in 1 .. Len(x)
        <5>1. k + i \in 1 .. Len(r) /\ (k + 1) + i = (k + i) + 1
          BY <1>2, <2>2, <4>3, <4>4, <4>5
        <5>2. s[(k + i) + 1] = r[k + i]
          BY <1>2, <5>1, Zenon
        <5> QED
          BY <4>3, <4>4, <4>5, <5>1, <5>2
      <4>7. x = y
        BY <4>3, <4>4, <4>5, <4>6, SeqEqual
      <4> QED
        BY <4>1, <4>2, <4>7, Zenon
    <3>4. Arg(s, k + 1, next) = Arg(r, k, next)
      BY <3>1, <3>2, <3>3, Zenon DEF Arg
    <3> QED
      BY <3>1, <3>2, <3>4, Zenon DEF Taken
  <2>6. ShortMeaning(s, next).options = Flags(s, (k + 1) - 1) \o <<Taken(s, k + 1, next)>>
        /\ ShortMeaning(s, next).takes = (Ends(s, k + 1) /\ next # <<>>)
    BY <2>3, <2>4, ClusterWithArgument, Zenon
  <2>7. ShortMeaning(r, next).options = Flags(r, k - 1) \o <<Taken(r, k, next)>>
        /\ ShortMeaning(r, next).takes = (Ends(r, k) /\ next # <<>>)
    BY <2>1, ClusterWithArgument, Zenon
  <2>8. k - 1 \in Nat /\ (k - 1) + 1 = (k + 1) - 1 /\ k - 1 <= Len(r)
    BY <1>2, <2>2
  <2>9. Flags(s, (k + 1) - 1) = <<Flag(Head(s))>> \o Flags(r, k - 1)
    BY <1>4, <2>8
  <2>10. Flag(Head(s)) \in Answers
    BY DEF Flag, Answers, Optional
  <2>11. <<Flag(Head(s))>> \in Seq(Answers) /\ Flags(r, k - 1) \in Seq(Answers)
           /\ <<Taken(r, k, next)>> \in Seq(Answers)
    <3>1. Flags(r, k - 1) \in Seq(Answers)
      BY <2>8, FlagsType, Zenon
    <3>2. Taken(r, k, next) \in Answers
      BY TakenType, Zenon
    <3>3. \A x \in Answers : <<x>> \in Seq(Answers)
      OBVIOUS
    <3>4. <<Flag(Head(s))>> \in Seq(Answers)
      BY ONLY <2>10, <3>3
    <3>5. <<Taken(r, k, next)>> \in Seq(Answers)
      BY ONLY <3>2, <3>3
    <3> QED
      BY ONLY <3>1, <3>4, <3>5
  <2>12. (<<Flag(Head(s))>> \o Flags(r, k - 1)) \o <<Taken(r, k, next)>>
           = <<Flag(Head(s))>> \o (Flags(r, k - 1) \o <<Taken(r, k, next)>>)
    <3>1. \A a, b, c \in Seq(Answers) : (a \o b) \o c = a \o (b \o c)
      <4>1. Regroups(Answers)
        BY Reassociate, Zenon
      <4> QED
        BY ONLY <4>1, Zenon DEF Regroups
    <3> QED
      BY <2>11, <3>1, Zenon
  <2>13. ShortMeaning(s, next).options = <<Flag(Head(s))>> \o ShortMeaning(r, next).options
    BY ONLY <2>5, <2>6, <2>7, <2>9, <2>12, Zenon
  <2>14. ShortMeaning(s, next).takes = ShortMeaning(r, next).takes
    <3>1. (Ends(s, k + 1) /\ next # <<>>) = (Ends(r, k) /\ next # <<>>)
      BY ONLY <2>5, Zenon
    <3> QED
      BY ONLY <2>6, <2>7, <3>1, Zenon
  <2> QED
    BY <1>1, <2>13, <2>14, Zenon
<1> QED
  BY <1>5, <1>6

\* A single letter without an argument.
LEMMA ClusterOfFlag ==
  ASSUME NEW s \in Seq(Pieces), NEW next, s # <<>>, Tail(s) = <<>>, ~ TakesArgument(Head(s))
  PROVE  ShortMeaning(s, next).options = <<Flag(Head(s))>> /\ ShortMeaning(s, next).takes = FALSE
<1>1. Len(s) = 1 /\ Head(s) = s[1]
  <2>1. Len(Tail(s)) = Len(s) - 1 /\ Len(s) \in Nat /\ Head(s) = s[1]
    BY HeadTailProperties
  <2>2. Len(Tail(s)) = 0
    <3>1. Len(<<>>) = 0
      OBVIOUS
    <3> QED
      BY <3>1, Zenon
  <2> QED
    BY ONLY <2>1, <2>2
<1>2. Taking(s) = {}
  BY <1>1 DEF Taking
<1>3. Flags(s, 1) = <<Flag(Head(s))>>
  <2>1. PICK a : a = Flag(s[1])
    OBVIOUS
  <2>2. PICK f : f = Flags(s, 1)
    OBVIOUS
  <2>3. f = [j \in 1 .. 1 |-> a]
    <3>1. \A j \in 1 .. 1 : Flag(s[j]) = a
      <4> TAKE j \in 1 .. 1
      <4>1. j = 1
        OBVIOUS
      <4> QED
        BY <2>1, <4>1
    <3> QED
      BY <2>2, <3>1 DEF Flags
  <2>4. [j \in 1 .. 1 |-> a] = <<a>>
    OBVIOUS
  <2> QED
    BY <1>1, <2>1, <2>2, <2>3, <2>4, Zenon
<1> QED
  BY <1>1, <1>2, <1>3, ClusterOfFlags, Zenon

\* A cluster that begins with a letter that takes an argument.
LEMMA ClusterOfArgument ==
  ASSUME NEW s \in Seq(Pieces), NEW next \in Optional(Seq(Pieces)), s # <<>>, TakesArgument(Head(s))
  PROVE  LET c == Head(s)
             needs == Tail(s) = <<>> /\ ShortOptions[c] = "required_argument"
         IN /\ ShortMeaning(s, next).options =
                 IF needs THEN IF next = <<>> THEN << <<"?", <<>> >> >> ELSE << <<c, next>> >>
                 ELSE << <<c, IF Tail(s) = <<>> THEN <<>> ELSE <<Tail(s)>> >> >>
            /\ ShortMeaning(s, next).takes = (needs /\ next # <<>>)
<1>1. Head(s) = s[1] /\ Len(s) \in Nat /\ Len(s) >= 1 /\ Tail(s) \in Seq(Pieces)
      /\ Len(Tail(s)) = Len(s) - 1 /\ Tail(s) = SubSeq(s, 2, Len(s))
  BY HeadTailProperties, TailIsSubSeq
<1>2. 1 \in Taking(s) /\ \A i \in Taking(s) : 1 <= i
  BY <1>1 DEF Taking
<1>3. /\ ShortMeaning(s, next).options = Flags(s, 1 - 1) \o <<Taken(s, 1, next)>>
      /\ ShortMeaning(s, next).takes = (Ends(s, 1) /\ next # <<>>)
  BY <1>2, ClusterWithArgument, Zenon
<1>4. Flags(s, 1 - 1) \o <<Taken(s, 1, next)>> = <<Taken(s, 1, next)>>
  <2>1. Flags(s, 1 - 1) = <<>>
    BY DEF Flags
  <2>2. <<Taken(s, 1, next)>> \in Seq(Answers)
    BY <1>2, TakenType
  <2> QED
    BY <2>1, <2>2, ConcatEmptySeq, Zenon
<1>5. (1 = Len(s) <=> Tail(s) = <<>>) /\ (1 < Len(s) <=> Tail(s) # <<>>)
  <2>1. Tail(s) = <<>> <=> Len(Tail(s)) = 0
    BY <1>1
  <2> QED
    BY ONLY <1>1, <2>1
<1>6. Ends(s, 1) <=> Tail(s) = <<>> /\ ShortOptions[Head(s)] = "required_argument"
  BY <1>1, <1>5, Zenon DEF Ends
<1>7. Arg(s, 1, next) = IF Tail(s) # <<>> THEN <<Tail(s)>> ELSE IF Ends(s, 1) THEN next ELSE <<>>
  <2>1. 1 + 1 = 2
    OBVIOUS
  <2> QED
    BY <1>1, <1>5, <2>1, Zenon DEF Arg
<1>8. Taken(s, 1, next) = IF Ends(s, 1) THEN IF next = <<>> THEN <<"?", <<>> >> ELSE <<Head(s), next>>
                          ELSE <<Head(s), IF Tail(s) = <<>> THEN <<>> ELSE <<Tail(s)>> >>
  <2>1. CASE Ends(s, 1)
    <3>1. Arg(s, 1, next) = next
      BY <1>6, <1>7, <2>1, Zenon
    <3>2. CASE next = <<>>
      BY <2>1, <3>1, <3>2, Zenon DEF Taken
    <3>3. CASE next # <<>>
      BY <1>1, <2>1, <3>1, <3>3, Zenon DEF Taken
    <3> QED
      BY <3>2, <3>3
  <2>2. CASE ~ Ends(s, 1)
    <3>1. Arg(s, 1, next) = IF Tail(s) = <<>> THEN <<>> ELSE <<Tail(s)>>
      BY <1>7, <2>2, Zenon
    <3> QED
      BY <1>1, <2>2, <3>1, Zenon DEF Taken
  <2> QED
    BY <2>1, <2>2
<1>9. ShortMeaning(s, next).options = <<Taken(s, 1, next)>>
  BY <1>3, <1>4, Zenon
<1>10. CASE Ends(s, 1)
  BY <1>3, <1>6, <1>8, <1>9, <1>10, Zenon
<1>11. CASE ~ Ends(s, 1)
  BY <1>3, <1>6, <1>8, <1>9, <1>11, Zenon
<1> QED
  BY <1>10, <1>11

-----------------------------------------------------------------------------
(* What a long option means.  *)

\* The meanings of a name are those of some of the long options.
LEMMA MeaningsType ==
  ASSUME NEW name
  PROVE  LET found == Meanings(Candidates(name)) IN
         /\ IsFiniteSet(found)
         /\ \A f \in found : f[1] \in HasArg /\ <<f[2], <<>> >> \in Answers
         /\ \A f \in found : f[2] \in WithArgument => f[1] = "required_argument"
<1>1. PICK n \in Nat : DOMAIN LongOptions = 1 .. n
  <2>1. LongOptions \in Seq(ToSet(LongOptions))
    BY LongAssumption
  <2>2. \A S : \A t \in Seq(S) : Len(t) \in Nat /\ DOMAIN t = 1 .. Len(t)
    OBVIOUS
  <2> QED
    BY <2>1, <2>2, Zenon
<1>2. Candidates(name) \subseteq DOMAIN LongOptions
  <2>1. PICK exact : exact = {k \in DOMAIN LongOptions : LongOptions[k].name = name}
    OBVIOUS
  <2>2. exact # {} => (CHOOSE k \in exact : \A m \in exact : k <= m) \in exact
    <3>1. exact \in SUBSET Nat
      BY <1>1, <2>1
    <3>2. exact # {} => \E k \in exact : \A m \in exact : k <= m
      BY <3>1, Least, Zenon
    <3> QED
      BY <3>2
  <2>3. Candidates(name) = IF exact # {} THEN {CHOOSE k \in exact : \A m \in exact : k <= m}
                           ELSE {k \in DOMAIN LongOptions : IsPrefix(name, LongOptions[k].name)}
    BY <2>1, Zenon DEF Candidates
  <2>4. CASE exact # {}
    <3>1. exact \subseteq DOMAIN LongOptions
      BY <2>1
    <3>2. Candidates(name) = {CHOOSE k \in exact : \A m \in exact : k <= m}
      BY <2>3, <2>4, Zenon
    <3> QED
      BY <2>2, <2>4, <3>1, <3>2, Zenon
  <2>5. CASE exact = {}
    <3>1. Candidates(name) = {k \in DOMAIN LongOptions : IsPrefix(name, LongOptions[k].name)}
      BY <2>3, <2>5, Zenon
    <3> QED
      BY <3>1, Zenon
  <2> QED
    BY <2>4, <2>5
<1>3. PICK C : C = Candidates(name)
  OBVIOUS
<1>4. IsFiniteSet(C) /\ C \subseteq DOMAIN LongOptions
  <2>1. IsFiniteSet(1 .. n)
    BY FS_Interval
  <2> QED
    BY <1>1, <1>2, <1>3, <2>1, FS_Subset
<1>5. IsFiniteSet(Meanings(C))
  <2>1. PICK m : m = [k \in C |-> <<LongOptions[k].has_arg, LongOptions[k].val>>]
    OBVIOUS
  <2>2. m \in Surjection(C, Meanings(C))
    BY <2>1 DEF Surjection, Meanings
  <2> QED
    BY <1>4, <2>2, FS_Surjection
<1>6. ASSUME NEW f \in Meanings(C) PROVE f[1] \in HasArg /\ <<f[2], <<>> >> \in Answers
      /\ (f[2] \in WithArgument => f[1] = "required_argument")
  <2>1. PICK k \in C : f = <<LongOptions[k].has_arg, LongOptions[k].val>>
    BY DEF Meanings
  <2>2. f[1] = LongOptions[k].has_arg /\ f[2] = LongOptions[k].val /\ k \in DOMAIN LongOptions
    BY <1>4, <2>1
  <2>3. LongOptions[k].has_arg \in HasArg
    BY <2>2, LongAssumption
  <2>4. LongOptions[k].val \in {LongOptions[j].val : j \in DOMAIN LongOptions}
    BY <2>2
  <2>5. f[2] \in WithArgument => f[1] = "required_argument"
    BY <2>2, TablesAssumption, Zenon
  <2> QED
    BY <2>2, <2>3, <2>4, <2>5 DEF Answers, Optional
<1> QED
  BY <1>3, <1>5, <1>6, Zenon

\* A set of one meaning.
LEMMA OneMeaning ==
  ASSUME NEW found, IsFiniteSet(found), Cardinality(found) = 1
  PROVE  \E h : found = {h} /\ (CHOOSE f \in found : TRUE) = h
           /\ \A x : (\E f \in found : f[1] = x) <=> h[1] = x
<1>1. PICK h : found = {h}
  BY FS_Singleton
<1>2. (CHOOSE f \in found : TRUE) = h
  BY <1>1
<1> QED
  BY <1>1, <1>2

\* A long option that is unknown or ambiguous.
LEMMA LongUnknown ==
  ASSUME NEW found, NEW arg, NEW next, Cardinality(found) # 1
  PROVE  /\ LongMeaning(found, arg, next).options = << <<"?", <<>> >> >>
         /\ LongMeaning(found, arg, next).takes = FALSE
BY DEF LongMeaning

\* A long option that is known.
LEMMA LongKnown ==
  ASSUME NEW found, IsFiniteSet(found), Cardinality(found) = 1, NEW arg, NEW next, NEW h, found = {h},
         NEW takes \in BOOLEAN, takes <=> (arg = <<>> /\ h[1] = "required_argument"),
         NEW good \in BOOLEAN, good <=> ((arg # <<>> => h[1] # "no_argument") /\ (takes => next # <<>>))
  PROVE  /\ LongMeaning(found, arg, next).options =
              IF good THEN << <<h[2], IF takes THEN next ELSE arg>> >> ELSE << <<"?", <<>> >> >>
         /\ LongMeaning(found, arg, next).takes = (good /\ takes)
<1>1. (CHOOSE f \in found : TRUE) = h
  OBVIOUS
<1>2. \A x : (\E f \in found : f[1] = x) <=> h[1] = x
  OBVIOUS
<1>3. takes <=> arg = <<>> /\ (\E f \in found : f[1] = "required_argument")
  BY <1>2
<1>4. good <=> /\ Cardinality(found) = 1
               /\ arg # <<>> => ~ (\E f \in found : f[1] = "no_argument")
               /\ takes => next # <<>>
  BY <1>2
<1>5. PICK m : m = LongMeaning(found, arg, next)
  OBVIOUS
<1>6. m = [options |-> IF good THEN << <<h[2], IF takes THEN next ELSE arg>> >> ELSE << <<"?", <<>> >> >>,
           takes |-> good /\ takes]
  BY <1>1, <1>3, <1>4, <1>5 DEF LongMeaning
<1>7. m.options = (IF good THEN << <<h[2], IF takes THEN next ELSE arg>> >> ELSE << <<"?", <<>> >> >>)
      /\ m.takes = (good /\ takes)
  BY ONLY <1>6
<1> QED
  BY <1>5, <1>7, Zenon

\* What a long option means is typed.
LEMMA LongType ==
  ASSUME NEW name, NEW arg \in Optional(Seq(Pieces)), NEW next \in Optional(Seq(Pieces))
  PROVE  LET m == LongMeaning(Meanings(Candidates(name)), arg, next) IN
         m.options \in Seq(Answers) /\ m.takes \in BOOLEAN /\ (m.takes => next # <<>>)
<1>1. PICK found : found = Meanings(Candidates(name))
  OBVIOUS
<1>2. IsFiniteSet(found) /\ \A f \in found : f[1] \in HasArg /\ <<f[2], <<>> >> \in Answers
  BY <1>1, MeaningsType, Zenon
<1>3. << <<"?", <<>> >> >> \in Seq(Answers)
  BY DEF Answers, Optional
<1>4. CASE Cardinality(found) # 1
  BY <1>1, <1>3, <1>4, LongUnknown, Zenon
<1>5. CASE Cardinality(found) = 1
  <2>1. PICK h : found = {h}
    BY <1>2, <1>5, OneMeaning, Zenon
  <2>2. <<h[2], <<>> >> \in Answers
    BY <1>2, <2>1
  <2>3. \A a \in Optional(Seq(Pieces)) : << <<h[2], a>> >> \in Seq(Answers)
    BY <2>2 DEF Answers
  <2>4. PICK takes \in BOOLEAN : takes <=> (arg = <<>> /\ h[1] = "required_argument")
    BY Zenon
  <2>5. PICK good \in BOOLEAN : good <=> ((arg # <<>> => h[1] # "no_argument")
                 /\ (takes => next # <<>>))
    BY Zenon
  <2>6. /\ LongMeaning(found, arg, next).options =
             IF good THEN << <<h[2], IF takes THEN next ELSE arg>> >> ELSE << <<"?", <<>> >> >>
        /\ LongMeaning(found, arg, next).takes = (good /\ takes)
    BY <1>2, <1>5, <2>1, <2>4, <2>5, LongKnown
  <2>7. LongMeaning(found, arg, next).options \in Seq(Answers)
    BY <1>3, <2>3, <2>6
  <2>8. LongMeaning(found, arg, next).takes \in BOOLEAN
    BY <2>6
  <2>9. LongMeaning(found, arg, next).takes => next # <<>>
    BY <2>5, <2>6, Zenon
  <2> QED
    BY <1>1, <2>7, <2>8, <2>9, Zenon
<1> QED
  BY <1>4, <1>5

-----------------------------------------------------------------------------
(* What an element means, and a whole command line.  *)

\* What an element means is typed.
LEMMA MeaningType ==
  ASSUME NEW e \in Seq(Pieces), ~ NonOption(e), NEW next \in Optional(Seq(Pieces))
  PROVE  /\ ElementMeaning(e, next).options \in Seq(Answers)
         /\ ElementMeaning(e, next).takes \in BOOLEAN
         /\ ElementMeaning(e, next).takes => next # <<>>
<1>1. Tail(e) \in Seq(Pieces)
  <2>1. Len(e) > 1
    BY DEF NonOption
  <2>2. e # <<>>
    <3>1. Len(<<>>) = 0
      OBVIOUS
    <3> QED
      BY <2>1, <3>1
  <2> QED
    BY <2>2, HeadTailProperties
<1>2. CASE IsLong(e)
  BY <1>2, ArgumentType, LongType, Zenon DEF ElementMeaning
<1>3. CASE ~ IsLong(e)
  BY <1>1, <1>3, ClusterType, Zenon DEF ElementMeaning
<1> QED
  BY <1>2, <1>3

\* The element that follows the one at i.
After(a, i) == IF i < Len(a) THEN <<a[i + 1]>> ELSE <<>>

\* What is in a command line from an element on.
Contents == [options : Seq(Answers), operands : Seq(Seq(Pieces))]

\* What is in it from i on, when it holds x from i + 1 on and y from i + 2 on.
ValueAt(a, i, x, y) ==
  IF i > Len(a) THEN [options |-> <<>>, operands |-> <<>>]
  ELSE IF IsEnd(a[i])
  THEN [options |-> <<>>, operands |-> SubSeq(a, i + 1, Len(a))]
  ELSE IF NonOption(a[i])
  THEN IF ordering = "REQUIRE_ORDER"
       THEN [options |-> <<>>, operands |-> SubSeq(a, i, Len(a))]
       ELSE [x EXCEPT !.operands = <<a[i]>> \o @]
  ELSE [(IF ElementMeaning(a[i], After(a, i)).takes THEN y ELSE x)
          EXCEPT !.options = ElementMeaning(a[i], After(a, i)).options \o @]

\* g is the function that Scan is defined with.
ScanFrom(g, a) ==
  g = [i \in 1 .. Len(a) + 2 |->
        IF i > Len(a) THEN [options |-> <<>>, operands |-> <<>>]
        ELSE IF IsEnd(a[i])
        THEN [options |-> <<>>, operands |-> SubSeq(a, i + 1, Len(a))]
        ELSE IF NonOption(a[i])
        THEN IF ordering = "REQUIRE_ORDER"
             THEN [options |-> <<>>, operands |-> SubSeq(a, i, Len(a))]
             ELSE [g[i + 1] EXCEPT !.operands = <<a[i]>> \o @]
        ELSE LET m == ElementMeaning(a[i], IF i < Len(a) THEN <<a[i + 1]>> ELSE <<>>)
             IN [g[IF m.takes THEN i + 2 ELSE i + 1]
                   EXCEPT !.options = m.options \o @]]

\* It goes from element to element.
LEMMA ScanFromIs ==
  ASSUME NEW a \in Seq(Seq(Pieces)), NEW g
  PROVE  ScanFrom(g, a) <=> g = [i \in 1 .. Len(a) + 2 |-> ValueAt(a, i, g[i + 1], g[i + 2])]
<1>1. \A i \in 1 .. Len(a) + 2 :
        ValueAt(a, i, g[i + 1], g[i + 2]) =
        IF i > Len(a) THEN [options |-> <<>>, operands |-> <<>>]
        ELSE IF IsEnd(a[i])
        THEN [options |-> <<>>, operands |-> SubSeq(a, i + 1, Len(a))]
        ELSE IF NonOption(a[i])
        THEN IF ordering = "REQUIRE_ORDER"
             THEN [options |-> <<>>, operands |-> SubSeq(a, i, Len(a))]
             ELSE [g[i + 1] EXCEPT !.operands = <<a[i]>> \o @]
        ELSE LET m == ElementMeaning(a[i], IF i < Len(a) THEN <<a[i + 1]>> ELSE <<>>)
             IN [g[IF m.takes THEN i + 2 ELSE i + 1]
                   EXCEPT !.options = m.options \o @]
  <2> TAKE i \in 1 .. Len(a) + 2
  <2>1. PICK m : m = ElementMeaning(a[i], IF i < Len(a) THEN <<a[i + 1]>> ELSE <<>>)
    OBVIOUS
  <2>2. (IF m.takes THEN g[i + 2] ELSE g[i + 1]) = g[IF m.takes THEN i + 2 ELSE i + 1]
    BY Zenon
  <2>3. ElementMeaning(a[i], After(a, i)) = m
    BY <2>1, Zenon DEF After
  <2> QED
    BY <2>1, <2>2, <2>3, Zenon DEF ValueAt
<1> QED
  BY <1>1, Zenon DEF ScanFrom

\* What follows an element may be missing.
LEMMA AfterType ==
  ASSUME NEW a \in Seq(Seq(Pieces)), NEW i \in 1 .. Len(a)
  PROVE  a[i] \in Seq(Pieces) /\ After(a, i) \in Optional(Seq(Pieces))
           /\ (After(a, i) # <<>> => i < Len(a))
<1>1. a[i] \in Seq(Pieces) /\ (i < Len(a) => a[i + 1] \in Seq(Pieces))
  OBVIOUS
<1> QED
  BY <1>1 DEF After, Optional

\* The parts of a value.
LEMMA ValueIs ==
  ASSUME NEW a \in Seq(Seq(Pieces)), NEW i \in 1 .. Len(a) + 2, NEW x \in Contents, NEW y \in Contents
  PROVE  LET v == ValueAt(a, i, x, y)
             m == ElementMeaning(a[i], After(a, i))
         IN /\ v \in Contents
            /\ i > Len(a) => v.options = <<>> /\ v.operands = <<>>
            /\ i <= Len(a) /\ IsEnd(a[i]) => v.options = <<>> /\ v.operands = SubSeq(a, i + 1, Len(a))
            /\ i <= Len(a) /\ NonOption(a[i]) /\ ordering = "REQUIRE_ORDER" =>
                 v.options = <<>> /\ v.operands = SubSeq(a, i, Len(a))
            /\ i <= Len(a) /\ NonOption(a[i]) /\ ordering # "REQUIRE_ORDER" =>
                 v.options = x.options /\ v.operands = <<a[i]>> \o x.operands
            /\ i <= Len(a) /\ ~ IsEnd(a[i]) /\ ~ NonOption(a[i]) =>
                 /\ v.options = m.options \o (IF m.takes THEN y.options ELSE x.options)
                 /\ v.operands = IF m.takes THEN y.operands ELSE x.operands
<1>0. PICK v : v = ValueAt(a, i, x, y)
  OBVIOUS
<1>m. PICK m : m = ElementMeaning(a[i], After(a, i))
  OBVIOUS
<1>e. <<>> \in Seq(Answers) /\ <<>> \in Seq(Seq(Pieces))
  OBVIOUS
<1>a. x.options \in Seq(Answers) /\ x.operands \in Seq(Seq(Pieces))
      /\ y.options \in Seq(Answers) /\ y.operands \in Seq(Seq(Pieces))
  BY DEF Contents
<1>b. i <= Len(a) => a[i] \in Seq(Pieces)
  OBVIOUS
<1>1. CASE i > Len(a)
  <2>1. v = [options |-> <<>>, operands |-> <<>>]
    BY <1>0, <1>1, Zenon DEF ValueAt
  <2>2. ~ (i <= Len(a))
    BY <1>1
  <2>3. v \in Contents /\ v.options = <<>> /\ v.operands = <<>>
    BY <1>e, <2>1 DEF Contents
  <2> QED
    BY <1>0, <2>2, <2>3, Zenon
<1>2. CASE i <= Len(a) /\ IsEnd(a[i])
  <2>0. ~ (i > Len(a)) /\ i \in 1 .. Len(a)
    BY <1>2
  <2>1. v = [options |-> <<>>, operands |-> SubSeq(a, i + 1, Len(a))]
    BY <1>0, <1>2, <2>0, Zenon DEF ValueAt
  <2>2. SubSeq(a, i + 1, Len(a)) \in Seq(Seq(Pieces))
    BY <2>0
  <2>3. v \in Contents /\ v.options = <<>> /\ v.operands = SubSeq(a, i + 1, Len(a))
    BY <1>e, <2>1, <2>2 DEF Contents
  <2>4. ~ NonOption(a[i])
    <3>1. a[i] = <<"-", "-">>
      BY <1>2 DEF IsEnd
    <3> QED
      BY <3>1 DEF NonOption
  <2> QED
    BY <1>0, <1>2, <2>0, <2>3, <2>4, Zenon
<1>3. CASE i <= Len(a) /\ ~ IsEnd(a[i]) /\ NonOption(a[i]) /\ ordering = "REQUIRE_ORDER"
  <2>0. ~ (i > Len(a)) /\ i \in 1 .. Len(a)
    BY <1>3
  <2>1. v = [options |-> <<>>, operands |-> SubSeq(a, i, Len(a))]
    BY <1>0, <1>3, <2>0, Zenon DEF ValueAt
  <2>2. SubSeq(a, i, Len(a)) \in Seq(Seq(Pieces))
    BY <2>0
  <2>3. v \in Contents /\ v.options = <<>> /\ v.operands = SubSeq(a, i, Len(a))
    BY <1>e, <2>1, <2>2 DEF Contents
  <2> QED
    BY <1>0, <1>3, <2>0, <2>3, Zenon
<1>4. CASE i <= Len(a) /\ ~ IsEnd(a[i]) /\ NonOption(a[i]) /\ ordering # "REQUIRE_ORDER"
  <2>0. ~ (i > Len(a)) /\ a[i] \in Seq(Pieces)
    BY <1>4, <1>b
  <2>1. v = [x EXCEPT !.operands = <<a[i]>> \o @]
    BY <1>0, <1>4, <2>0, Zenon DEF ValueAt
  <2>2. <<a[i]>> \o x.operands \in Seq(Seq(Pieces))
    <3>1. <<a[i]>> \in Seq(Seq(Pieces))
      BY <2>0
    <3> QED
      BY <1>a, <3>1, ConcatProperties
  <2>3. v \in Contents /\ v.options = x.options /\ v.operands = <<a[i]>> \o x.operands
    BY <2>1, <2>2 DEF Contents
  <2> QED
    BY <1>0, <1>4, <2>0, <2>3, Zenon
<1>5. CASE i <= Len(a) /\ ~ IsEnd(a[i]) /\ ~ NonOption(a[i])
  <2>0. ~ (i > Len(a)) /\ i \in 1 .. Len(a)
    BY <1>5
  <2>1. PICK w \in Contents : w = IF m.takes THEN y ELSE x
    BY Zenon
  <2>2. v = [w EXCEPT !.options = m.options \o @]
    BY <1>0, <1>m, <1>5, <2>0, <2>1, Zenon DEF ValueAt
  <2>3. m.options \in Seq(Answers)
    BY <1>m, <1>5, <2>0, AfterType, MeaningType
  <2>4. m.options \o w.options \in Seq(Answers)
    <3>1. w.options \in Seq(Answers)
      BY <2>1 DEF Contents
    <3> QED
      BY <2>3, <3>1, ConcatProperties
  <2>5. v \in Contents /\ v.options = m.options \o w.options /\ v.operands = w.operands
    BY <2>2, <2>4 DEF Contents
  <2>6. w.options = (IF m.takes THEN y.options ELSE x.options)
          /\ w.operands = (IF m.takes THEN y.operands ELSE x.operands)
    BY <2>1, Zenon
  <2> QED
    BY <1>0, <1>m, <1>5, <2>0, <2>5, <2>6, Zenon
<1>6. i > Len(a) \/ i <= Len(a)
  OBVIOUS
<1> QED
  BY <1>1, <1>2, <1>3, <1>4, <1>5, <1>6, Zenon

\* There is such a function, built from the end of the command line.
LEMMA ScanExists ==
  ASSUME NEW a \in Seq(Seq(Pieces))
  PROVE  \E g : ScanFrom(g, a)
<1>n. PICK N \in Nat : N = Len(a) + 2
  OBVIOUS
<1>e. PICK E \in Contents : E = [options |-> <<>>, operands |-> <<>>]
  <2>1. <<>> \in Seq(Answers) /\ <<>> \in Seq(Seq(Pieces))
    OBVIOUS
  <2> QED
    BY <2>1 DEF Contents
<1>0. Len(a) \in Nat /\ N - 1 \in Nat /\ <<E, E>> \in Contents \X Contents
  BY <1>n
<1>h. PICK h : h = [k \in 1 .. N - 1 |-> [x \in Contents \X Contents |-> <<ValueAt(a, N - k, x[1], x[2]), x[1]>>]]
  OBVIOUS
<1>1. h \in [1 .. N - 1 -> [Contents \X Contents -> Contents \X Contents]]
  <2>1. ASSUME NEW k \in 1 .. N - 1, NEW x \in Contents \X Contents
        PROVE  <<ValueAt(a, N - k, x[1], x[2]), x[1]>> \in Contents \X Contents
    <3>1. x[1] \in Contents /\ x[2] \in Contents /\ N - k \in 1 .. Len(a) + 2
      BY <1>n, <1>0
    <3>2. ValueAt(a, N - k, x[1], x[2]) \in Contents
      BY <3>1, ValueIs, Zenon
    <3> QED
      BY <3>1, <3>2
  <2> QED
    BY <1>h, <2>1
<1>2a. PICK f : Stepwise(f, Contents \X Contents, <<E, E>>, N - 1, h)
  BY <1>0, <1>1, RecursionExists, Zenon
<1>2. f \in [0 .. N - 1 -> Contents \X Contents] /\ f[0] = <<E, E>>
      /\ \A k \in 1 .. N - 1 : f[k] = h[k][f[k - 1]]
  BY <1>2a, Zenon DEF Stepwise
<1>3. \A k \in 1 .. N - 1 : f[k][1] = ValueAt(a, N - k, f[k - 1][1], f[k - 1][2])
        /\ f[k][2] = f[k - 1][1]
  <2> TAKE k \in 1 .. N - 1
  <2>1. k - 1 \in 0 .. N - 1
    BY <1>n, <1>0
  <2>2. f[k - 1] \in Contents \X Contents
    BY <1>2, <2>1
  <2>3. f[k] = h[k][f[k - 1]]
    BY <1>2
  <2>4. h[k] = [x \in Contents \X Contents |-> <<ValueAt(a, N - k, x[1], x[2]), x[1]>>]
    BY <1>h
  <2>5. f[k] = <<ValueAt(a, N - k, f[k - 1][1], f[k - 1][2]), f[k - 1][1]>>
    BY ONLY <2>2, <2>3, <2>4
  <2> QED
    BY ONLY <2>5
<1>g. PICK g : g = [i \in 1 .. N |-> f[N - i][1]]
  OBVIOUS
<1>4. \A i \in 1 .. N : g[i] = f[N - i][1]
  BY ONLY <1>g
<1>5. ASSUME NEW i \in 1 .. N PROVE g[i] = ValueAt(a, i, g[i + 1], g[i + 2])
  <2>1. CASE i > Len(a)
    <3>1. \A x, y : ValueAt(a, i, x, y) = E
      BY <1>e, <2>1, Zenon DEF ValueAt
    <3>2. CASE i = N
      <4>1. N - i = 0
        BY <1>n, <3>2
      <4>2. g[i] = f[0][1]
        BY <1>4, <4>1
      <4>3. f[0][1] = E
        BY <1>2
      <4> QED
        BY <3>1, <4>2, <4>3
    <3>3. CASE i # N
      <4>1. N - i \in 1 .. N - 1 /\ N - (N - i) = i
        BY <1>n, <1>0, <3>3
      <4>2. f[N - i][1] = ValueAt(a, i, f[(N - i) - 1][1], f[(N - i) - 1][2])
        BY <1>3, <4>1
      <4> QED
        BY <1>4, <3>1, <4>2, Zenon
    <3> QED
      BY <3>2, <3>3
  <2>2. CASE i <= Len(a)
    <3>1. N - i \in 1 .. N - 1 /\ N - (N - i) = i /\ (N - i) - 1 \in 1 .. N - 1
            /\ (N - i) - 1 = N - (i + 1)
          /\ ((N - i) - 1) - 1 = N - (i + 2) /\ i + 1 \in 1 .. N /\ i + 2 \in 1 .. N
      BY <1>n, <1>0, <2>2
    <3>2. f[N - i][1] = ValueAt(a, i, f[(N - i) - 1][1], f[(N - i) - 1][2])
      BY <1>3, <3>1
    <3>3. f[(N - i) - 1][2] = f[((N - i) - 1) - 1][1]
      BY <1>3, <3>1
    <3>4. g[i + 1] = f[(N - i) - 1][1]
      BY <1>4, <3>1
    <3>5. g[i + 2] = f[((N - i) - 1) - 1][1]
      BY <1>4, <3>1
    <3> QED
      BY <1>4, <3>2, <3>3, <3>4, <3>5, Zenon
  <2>3. i > Len(a) \/ i <= Len(a)
    BY <1>0
  <2> QED
    BY <2>1, <2>2, <2>3
<1>6. g = [i \in 1 .. N |-> g[i]]
  BY ONLY <1>g, <1>4
<1>7. g = [i \in 1 .. N |-> ValueAt(a, i, g[i + 1], g[i + 2])]
  BY <1>5, <1>6, Zenon
<1> QED
  BY <1>n, <1>7, ScanFromIs, Zenon

\* Its values are typed.
LEMMA ScanType ==
  ASSUME NEW a \in Seq(Seq(Pieces)), NEW g, ScanFrom(g, a)
  PROVE  \A i \in 1 .. Len(a) + 2 : g[i] \in Contents
<1>n. PICK N \in Nat : N = Len(a) + 2
  OBVIOUS
<1>e. [options |-> <<>>, operands |-> <<>>] \in Contents
  <2>1. <<>> \in Seq(Answers) /\ <<>> \in Seq(Seq(Pieces))
    OBVIOUS
  <2> QED
    BY <2>1 DEF Contents
<1>0. Len(a) \in Nat /\ N - 1 \in Nat
  BY <1>n
<1>1. \A i \in 1 .. N : g[i] = ValueAt(a, i, g[i + 1], g[i + 2])
  <2>1. g = [i \in 1 .. N |-> ValueAt(a, i, g[i + 1], g[i + 2])]
    BY <1>n, ScanFromIs, Zenon
  <2> QED
    BY ONLY <2>1
<1>2. \A i \in 1 .. N : i > Len(a) => g[i] \in Contents
  <2>1. \A i \in 1 .. N : i > Len(a) => g[i] = [options |-> <<>>, operands |-> <<>>]
    BY <1>1, Zenon DEF ValueAt
  <2> QED
    BY <1>e, <2>1, Zenon
<1>a. \A k \in 1 .. N - 1 : N - k \in 1 .. N
  BY <1>0
<1> DEFINE P == {k \in 0 .. N - 1 : g[N - k] \in Contents /\ (k > 0 => g[N - k + 1] \in Contents)}
<1>3. 0 \in P
  <2>1. N - 0 = N /\ N \in 1 .. N /\ N > Len(a) /\ ~ (0 > 0) /\ 0 \in 0 .. N - 1
    BY <1>n, <1>0
  <2> QED
    BY <1>2, <2>1, Zenon
<1>4. ASSUME NEW k \in 1 .. N - 1, k - 1 \in P PROVE k \in P
  <2>1. PICK i \in 1 .. N : i = N - k
    BY <1>a, Zenon
  <2>2. i + 1 = N - (k - 1) /\ i + 1 = N - k + 1 /\ i + 2 = N - (k - 1) + 1 /\ k \in 0 .. N - 1
    BY <1>n, <1>0, <2>1
  <2>3. g[i + 1] \in Contents
    BY <1>4, <2>2
  <2>4. g[i] \in Contents
    <3>1. CASE i > Len(a)
      BY <1>2, <3>1
    <3>2. CASE i <= Len(a)
      <4>1. k - 1 > 0
        BY <1>n, <1>0, <2>1, <3>2
      <4>2. g[i + 2] \in Contents
        BY <1>4, <2>2, <4>1
      <4>3. ValueAt(a, i, g[i + 1], g[i + 2]) \in Contents
        BY <1>n, <2>3, <4>2, ValueIs, Zenon
      <4> QED
        BY <1>1, <4>3, Zenon
    <3>3. i > Len(a) \/ i <= Len(a)
      BY <1>0
    <3> QED
      BY <3>1, <3>2, <3>3
  <2>5. g[N - k] \in Contents /\ g[N - k + 1] \in Contents
    BY <2>1, <2>2, <2>3, <2>4, Zenon
  <2> QED
    BY <2>2, <2>5
<1>5. P \in SUBSET (0 .. N - 1)
  OBVIOUS
<1> HIDE DEF P
<1>6. P = 0 .. N - 1
  BY <1>0, <1>3, <1>4, <1>5, UpwardInd, Zenon
<1>7. ASSUME NEW i \in 1 .. N PROVE g[i] \in Contents
  <2>1. N - i \in 0 .. N - 1 /\ N - (N - i) = i
    BY <1>n
  <2>2. N - i \in P
    BY <1>6, <2>1, Zenon
  <2>3. g[N - (N - i)] \in Contents
    BY <2>2 DEF P
  <2> QED
    BY <2>1, <2>3, Zenon
<1> QED
  BY <1>n, <1>7, Zenon

\* What it says from i on.
LEMMA ScanValue ==
  ASSUME NEW a \in Seq(Seq(Pieces)), NEW g, ScanFrom(g, a), NEW i \in 1 .. Len(a)
  PROVE  LET m == ElementMeaning(a[i], After(a, i))
             j == IF m.takes THEN i + 2 ELSE i + 1
         IN /\ IsEnd(a[i]) => g[i].options = <<>> /\ g[i].operands = SubSeq(a, i + 1, Len(a))
            /\ NonOption(a[i]) /\ ordering = "REQUIRE_ORDER" =>
                 g[i].options = <<>> /\ g[i].operands = SubSeq(a, i, Len(a))
            /\ NonOption(a[i]) /\ ordering # "REQUIRE_ORDER" =>
                 g[i].options = g[i + 1].options /\ g[i].operands = <<a[i]>> \o g[i + 1].operands
            /\ ~ IsEnd(a[i]) /\ ~ NonOption(a[i]) =>
                 g[i].options = m.options \o g[j].options /\ g[i].operands = g[j].operands
<1>0. i \in 1 .. Len(a) + 2 /\ i + 1 \in 1 .. Len(a) + 2 /\ i + 2 \in 1 .. Len(a) + 2 /\ i <= Len(a)
  OBVIOUS
<1>1. g[i] = ValueAt(a, i, g[i + 1], g[i + 2])
  <2>1. g = [k \in 1 .. Len(a) + 2 |-> ValueAt(a, k, g[k + 1], g[k + 2])]
    BY ScanFromIs, Zenon
  <2>2. \A k \in 1 .. Len(a) + 2 : g[k] = ValueAt(a, k, g[k + 1], g[k + 2])
    BY ONLY <2>1
  <2> QED
    BY <1>0, <2>2, Zenon
<1>2. g[i + 1] \in Contents /\ g[i + 2] \in Contents
  BY <1>0, ScanType, Zenon
<1>m. PICK m : m = ElementMeaning(a[i], After(a, i))
  OBVIOUS
<1>3. /\ IsEnd(a[i]) => g[i].options = <<>> /\ g[i].operands = SubSeq(a, i + 1, Len(a))
      /\ NonOption(a[i]) /\ ordering = "REQUIRE_ORDER" =>
           g[i].options = <<>> /\ g[i].operands = SubSeq(a, i, Len(a))
      /\ NonOption(a[i]) /\ ordering # "REQUIRE_ORDER" =>
           g[i].options = g[i + 1].options /\ g[i].operands = <<a[i]>> \o g[i + 1].operands
      /\ ~ IsEnd(a[i]) /\ ~ NonOption(a[i]) =>
           /\ g[i].options = m.options \o (IF m.takes THEN g[i + 2].options ELSE g[i + 1].options)
           /\ g[i].operands = IF m.takes THEN g[i + 2].operands ELSE g[i + 1].operands
  <2>1. PICK x \in Contents, y \in Contents : x = g[i + 1] /\ y = g[i + 2]
    BY <1>2
  <2>2. PICK v : v = ValueAt(a, i, x, y)
    OBVIOUS
  <2>3. /\ IsEnd(a[i]) => v.options = <<>> /\ v.operands = SubSeq(a, i + 1, Len(a))
        /\ NonOption(a[i]) /\ ordering = "REQUIRE_ORDER" =>
             v.options = <<>> /\ v.operands = SubSeq(a, i, Len(a))
        /\ NonOption(a[i]) /\ ordering # "REQUIRE_ORDER" =>
             v.options = x.options /\ v.operands = <<a[i]>> \o x.operands
        /\ ~ IsEnd(a[i]) /\ ~ NonOption(a[i]) =>
             /\ v.options = m.options \o (IF m.takes THEN y.options ELSE x.options)
             /\ v.operands = IF m.takes THEN y.operands ELSE x.operands
    <3>1. LET w == ValueAt(a, i, x, y)
              n == ElementMeaning(a[i], After(a, i))
          IN /\ IsEnd(a[i]) => w.options = <<>> /\ w.operands = SubSeq(a, i + 1, Len(a))
             /\ NonOption(a[i]) /\ ordering = "REQUIRE_ORDER" =>
                  w.options = <<>> /\ w.operands = SubSeq(a, i, Len(a))
             /\ NonOption(a[i]) /\ ordering # "REQUIRE_ORDER" =>
                  w.options = x.options /\ w.operands = <<a[i]>> \o x.operands
             /\ ~ IsEnd(a[i]) /\ ~ NonOption(a[i]) =>
                  /\ w.options = n.options \o (IF n.takes THEN y.options ELSE x.options)
                  /\ w.operands = IF n.takes THEN y.operands ELSE x.operands
      BY <1>0, ValueIs, Zenon
    <3> QED
      BY <1>m, <2>2, <3>1, Zenon
  <2>4. g[i] = v
    BY <1>1, <2>1, <2>2, Zenon
  <2> QED
    BY ONLY <2>1, <2>3, <2>4, Zenon
<1>4. CASE m.takes
  BY <1>m, <1>3, <1>4, Zenon
<1>5. CASE ~ m.takes
  BY <1>m, <1>3, <1>5, Zenon
<1> QED
  BY <1>4, <1>5

\* At the end nothing is left.
LEMMA ScanEnd ==
  ASSUME NEW a \in Seq(Seq(Pieces)), NEW g, ScanFrom(g, a)
  PROVE  g[Len(a) + 1].options = <<>> /\ g[Len(a) + 1].operands = <<>>
<1>1. Len(a) + 1 \in 1 .. Len(a) + 2 /\ Len(a) + 1 > Len(a)
  OBVIOUS
<1>2. g[Len(a) + 1] = ValueAt(a, Len(a) + 1, g[Len(a) + 1 + 1], g[Len(a) + 1 + 2])
  <2>1. g = [k \in 1 .. Len(a) + 2 |-> ValueAt(a, k, g[k + 1], g[k + 2])]
    BY ScanFromIs, Zenon
  <2>2. \A k \in 1 .. Len(a) + 2 : g[k] = ValueAt(a, k, g[k + 1], g[k + 2])
    BY ONLY <2>1
  <2> QED
    BY <1>1, <2>2, Zenon
<1>3. g[Len(a) + 1] = [options |-> <<>>, operands |-> <<>>]
  BY <1>1, <1>2, Zenon DEF ValueAt
<1> QED
  BY ONLY <1>3

\* Scan is defined with it.
LEMMA ScanIs ==
  ASSUME NEW a \in Seq(Seq(Pieces))
  PROVE  \E g : ScanFrom(g, a) /\ Scan(a) = g[1]
<1> DEFINE g == CHOOSE g : ScanFrom(g, a)
<1>1. ScanFrom(g, a)
  BY ScanExists
<1>2. Scan(a) = g[1]
  BY DEF Scan, ScanFrom
<1> HIDE DEF g
<1> QED
  BY <1>1, <1>2

-----------------------------------------------------------------------------
(* exchange: the segments from b on and from m on change places.  *)

\* Where the element comes from that is at k when the segments b .. m - 1 and
\* m .. t - 1 have changed places.
Origin(b, m, t, k) ==
  IF k \in b .. b + (t - m) - 1 THEN k + (m - b)
  ELSE IF k \in b + (t - m) .. t - 1 THEN k - (t - m)
  ELSE k

\* One turn swaps the elements that swapped exchanges, and leaves a shorter
\* exchange that has the same result.
Changed(i, j, len, k) ==
  IF k \in i .. i + len - 1 THEN j + (k - i)
  ELSE IF k \in j .. j + len - 1 THEN i + (k - j)
  ELSE k

\* One turn puts them there.
LEMMA SwappedIs ==
  ASSUME NEW i \in Nat, NEW j \in Nat, NEW len \in Nat, argv \in Seq(Seq(Pieces))
  PROVE  \A k \in 1 .. Len(argv) : Swapped(i, j, len)[k] = argv[Changed(i, j, len, k)]
<1>1. PICK s : s = Swapped(i, j, len)
  OBVIOUS
<1>2. DOMAIN argv = 1 .. Len(argv)
  OBVIOUS
<1>3. s = [k \in 1 .. Len(argv) |-> argv[Changed(i, j, len, k)]]
  <2>1. \A k \in 1 .. Len(argv) :
          argv[Changed(i, j, len, k)] = IF k \in i .. i + len - 1 THEN argv[j + (k - i)]
                                        ELSE IF k \in j .. j + len - 1 THEN argv[i + (k - j)]
                                        ELSE argv[k]
    BY DEF Changed
  <2>2. s = [k \in 1 .. Len(argv) |-> IF k \in i .. i + len - 1 THEN argv[j + (k - i)]
                                      ELSE IF k \in j .. j + len - 1 THEN argv[i + (k - j)]
                                      ELSE argv[k]]
    BY <1>1, <1>2 DEF Swapped
  <2> QED
    BY <2>1, <2>2, Zenon
<1>4. \A k \in 1 .. Len(argv) : s[k] = argv[Changed(i, j, len, k)]
  BY ONLY <1>3, Zenon
<1> QED
  BY <1>1, <1>4, Zenon

\* The upper segment is the longer one: its end takes the place of the lower one.
LEMMA UpperTurn ==
  ASSUME NEW b \in Nat, NEW m \in Nat, NEW t \in Nat, b < m, m < t, t - m > m - b, NEW k \in Nat
  PROVE  Changed(b, t - (m - b), m - b, Origin(b, m, t - (m - b), k)) = Origin(b, m, t, k)
<1>1. CASE k < b \/ k >= t
  BY <1>1 DEF Changed, Origin
<1>2. CASE b <= k /\ k < b + (t - m) - (m - b)
  <2>1. Origin(b, m, t - (m - b), k) = k + (m - b) /\ Origin(b, m, t, k) = k + (m - b)
    BY <1>2 DEF Origin
  <2> QED
    BY <1>2, <2>1 DEF Changed
<1>3. CASE b + (t - m) - (m - b) <= k /\ k < b + (t - m)
  <2>1. Origin(b, m, t - (m - b), k) = k - ((t - (m - b)) - m) /\ Origin(b, m, t, k) = k + (m - b)
    BY <1>3 DEF Origin
  <2> QED
    BY <1>3, <2>1 DEF Changed
<1>4. CASE b + (t - m) <= k /\ k < t
  <2>1. Origin(b, m, t - (m - b), k) = k /\ Origin(b, m, t, k) = k - (t - m)
    BY <1>4 DEF Origin
  <2> QED
    BY <1>4, <2>1 DEF Changed
<1> QED
  BY <1>1, <1>2, <1>3, <1>4

\* The lower one is: the upper one takes the place of its beginning.
LEMMA LowerTurn ==
  ASSUME NEW b \in Nat, NEW m \in Nat, NEW t \in Nat, b < m, m < t, t - m <= m - b, NEW k \in Nat
  PROVE  Changed(b, m, t - m, Origin(b + (t - m), m, t, k)) = Origin(b, m, t, k)
<1>1. CASE k < b \/ k >= t
  BY <1>1 DEF Changed, Origin
<1>2. CASE b <= k /\ k < b + (t - m)
  <2>1. Origin(b + (t - m), m, t, k) = k /\ Origin(b, m, t, k) = k + (m - b)
    BY <1>2 DEF Origin
  <2> QED
    BY <1>2, <2>1 DEF Changed
<1>3. CASE b + (t - m) <= k /\ k < b + (t - m) + (t - m)
  <2>1. Origin(b + (t - m), m, t, k) = k + (m - (b + (t - m))) /\ Origin(b, m, t, k) = k - (t - m)
    BY <1>3 DEF Origin
  <2> QED
    BY <1>3, <2>1 DEF Changed
<1>4. CASE b + (t - m) + (t - m) <= k /\ k < t
  <2>1. Origin(b + (t - m), m, t, k) = k - (t - m) /\ Origin(b, m, t, k) = k - (t - m)
    BY <1>4 DEF Origin
  <2> QED
    BY <1>4, <2>1 DEF Changed
<1> QED
  BY <1>1, <1>2, <1>3, <1>4

\* Elements come from where the segments are.
LEMMA OriginType ==
  ASSUME NEW b \in Nat, NEW m \in Nat, NEW t \in Nat, b <= m, m <= t, NEW k \in Nat
  PROVE  /\ Origin(b, m, t, k) \in Nat
         /\ \A lo, hi \in Nat : lo <= b /\ t <= hi /\ lo <= k /\ k < hi =>
              lo <= Origin(b, m, t, k) /\ Origin(b, m, t, k) < hi
         /\ (m = b \/ t = m) => Origin(b, m, t, k) = k
<1>1. PICK o : o = Origin(b, m, t, k)
  OBVIOUS
<1>2. (b <= k /\ k < b + (t - m) /\ o = k + (m - b)) \/ (b + (t - m) <= k /\ k < t /\ o = k - (t - m))
      \/ ((k < b \/ t <= k) /\ o = k)
  BY <1>1 DEF Origin
<1>3. o \in Nat /\ \A lo, hi \in Nat : lo <= b /\ t <= hi /\ lo <= k /\ k < hi => lo <= o /\ o < hi
  BY <1>2
<1>4. (m = b \/ t = m) => o = k
  BY <1>2
<1> QED
  BY <1>1, <1>3, <1>4, Zenon

-----------------------------------------------------------------------------
(* The operands that were skipped.  *)

\* They are in argv, where exchange will have put them.
Skipped ==
  IF Exchanging
  THEN [h \in 1 .. last_nonopt - first_nonopt |->
          argv[Origin(bottom, middle, top, first_nonopt + (optind - last_nonopt) + h - 1)]]
  ELSE SubSeq(argv, first_nonopt, (IF gpc = "skip" THEN optind ELSE last_nonopt) - 1)

\* A part of the command line.
LEMMA Part ==
  ASSUME NEW s \in Seq(Seq(Pieces)), NEW m \in Nat, NEW n \in Nat, 1 <= m, m <= n, n <= Len(s) + 1
  PROVE  /\ SubSeq(s, m, n - 1) \in Seq(Seq(Pieces)) /\ Len(SubSeq(s, m, n - 1)) = n - m
         /\ \A i \in 1 .. n - m : SubSeq(s, m, n - 1)[i] = s[m + i - 1]
<1>1. PICK q \in Nat : q = n - 1
  OBVIOUS
<1>2. \A i \in m .. q : s[i] \in Seq(Pieces)
  BY <1>1
<1>3. SubSeq(s, m, q) \in Seq(Seq(Pieces)) /\ Len(SubSeq(s, m, q)) = (IF m <= q THEN q - m + 1 ELSE 0)
      /\ \A i \in 1 .. q - m + 1 : SubSeq(s, m, q)[i] = s[m + i - 1]
  BY <1>2, SubSeqProperties
<1>4. (IF m <= q THEN q - m + 1 ELSE 0) = n - m /\ q - m + 1 = n - m
  BY <1>1
<1> QED
  BY <1>1, <1>3, <1>4, Zenon

\* What the skipped operands are during an exchange.
LEMMA DuringExchange ==
  ASSUME GInv, Exchanging
  PROVE  /\ Skipped \in Seq(Seq(Pieces)) /\ Len(Skipped) = last_nonopt - first_nonopt
         /\ \A h \in 1 .. last_nonopt - first_nonopt :
              Skipped[h] = argv[Origin(bottom, middle, top, first_nonopt + (optind - last_nonopt) + h - 1)]
<1>1. Typed /\ first_nonopt < last_nonopt /\ last_nonopt < optind
      /\ first_nonopt <= bottom /\ bottom <= middle /\ middle <= top /\ top <= optind
  BY DEF GInv, Bounds
<1>2. PICK n \in Nat : n = last_nonopt - first_nonopt
  BY <1>1, Numbers
<1>3. PICK s : s = Skipped
  OBVIOUS
<1>4. s = [h \in 1 .. n |-> argv[Origin(bottom, middle, top, first_nonopt + (optind - last_nonopt) + h - 1)]]
  BY <1>2, <1>3, Zenon DEF Skipped
<1>5. \A h \in 1 .. n : s[h] = argv[Origin(bottom, middle, top, first_nonopt + (optind - last_nonopt) + h - 1)]
  BY ONLY <1>4
<1>6. ASSUME NEW h \in 1 .. n PROVE s[h] \in Seq(Pieces)
  <2>1. PICK k \in Nat : k = first_nonopt + (optind - last_nonopt) + h - 1
    BY <1>1, <1>2, Numbers
  <2>2. first_nonopt <= k /\ k < optind
    BY <1>1, <1>2, <2>1, Numbers
  <2>3. PICK o \in Nat : o = Origin(bottom, middle, top, k) /\ first_nonopt <= o /\ o < optind
    BY <1>1, <2>2, Numbers, OriginType
  <2>4. 1 <= o /\ o < argc
    BY <1>1, <2>3, Numbers
  <2>5. argv[o] \in Seq(Pieces)
    BY <1>1, <2>4, ElementType
  <2> QED
    BY <1>5, <2>1, <2>3, <2>5, Zenon
<1>7. s \in Seq(Seq(Pieces)) /\ Len(s) = n
  <2>1. s \in [1 .. n -> Seq(Pieces)]
    BY ONLY <1>4, <1>6
  <2> QED
    BY ONLY <2>1, <1>2
<1> QED
  BY <1>2, <1>3, <1>5, <1>7, Zenon

\* One turn of the exchange does not change them, nor what comes after.
LEMMA TurnKeeps ==
  ASSUME GInv, GInv', Exchange
  PROVE  Skipped' = Skipped /\ \A k \in optind .. Len(args) : argv'[k] = argv[k]
<1>0. Typed /\ Bounds
  BY DEF GInv
<1>1. UNCHANGED <<ordering, optind, first_nonopt, last_nonopt, gpc, middle, args>>
      /\ Exchanging /\ Exchanging' /\ top > middle /\ middle > bottom
  BY Zenon DEF Exchange, Exchanging, scan, returned
<1>2. first_nonopt < last_nonopt /\ last_nonopt < optind
      /\ first_nonopt <= bottom /\ bottom <= middle /\ middle <= top /\ top <= optind
  BY <1>0, <1>1, Zenon DEF Bounds
<1>n. /\ bottom \in Nat /\ middle \in Nat /\ top \in Nat /\ first_nonopt \in Nat /\ last_nonopt \in Nat
      /\ optind \in Nat /\ Len(argv) \in Nat /\ 1 <= first_nonopt /\ optind <= Len(argv) + 1
      /\ bottom < middle /\ middle < top
  BY ONLY <1>0, <1>1, Numbers, Lengths
<1>3. \E j \in Nat, len \in Nat :
        /\ \A k \in Nat : Changed(bottom, j, len, Origin(bottom', middle', top', k)) = Origin(bottom, middle, top, k)
        /\ bottom + len <= j /\ j + len <= top /\ argv' = Swapped(bottom, j, len)
        /\ bottom <= bottom' /\ bottom' <= middle /\ middle <= top' /\ top' <= top
             /\ bottom' \in Nat /\ top' \in Nat
  <2>1. CASE top - middle > middle - bottom
    <3>1. PICK j \in Nat, len \in Nat : j = top - (middle - bottom) /\ len = middle - bottom
      BY <1>n
    <3>2. argv' = Swapped(bottom, j, len) /\ bottom' = bottom /\ middle' = middle /\ top' = j
      BY <1>1, <1>n, <2>1, <3>1 DEF Exchange
    <3>3. \A k \in Nat : Changed(bottom, j, len, Origin(bottom', middle', top', k)) = Origin(bottom, middle, top, k)
      <4>1. ASSUME NEW k \in Nat
            PROVE  Changed(bottom, top - (middle - bottom), middle - bottom,
                       Origin(bottom, middle, top - (middle - bottom), k)) = Origin(bottom, middle, top, k)
        <5>1. k \in Nat
          OBVIOUS
        <5> QED
          BY ONLY <1>n, <2>1, <5>1, UpperTurn
      <4> QED
        BY <3>1, <3>2, <4>1, Zenon
    <3>4. bottom + len <= j /\ j + len <= top
          /\ bottom <= bottom' /\ bottom' <= middle /\ middle <= top' /\ top' <= top
      BY <1>n, <2>1, <3>1, <3>2
    <3> QED
      BY <1>n, <3>2, <3>3, <3>4
  <2>2. CASE top - middle <= middle - bottom
    <3>1. PICK len \in Nat : len = top - middle
      BY <1>n
    <3>2. argv' = Swapped(bottom, middle, len) /\ bottom' = bottom + len /\ middle' = middle
            /\ top' = top
      BY <1>1, <1>n, <2>2, <3>1 DEF Exchange
    <3>3. \A k \in Nat : Changed(bottom, middle, len, Origin(bottom', middle', top', k)) = Origin(bottom, middle, top, k)
      <4>1. ASSUME NEW k \in Nat
            PROVE  Changed(bottom, middle, top - middle,
                       Origin(bottom + (top - middle), middle, top, k)) = Origin(bottom, middle, top, k)
        <5>1. k \in Nat
          OBVIOUS
        <5> QED
          BY ONLY <1>n, <2>2, <5>1, LowerTurn
      <4> QED
        BY <3>1, <3>2, <4>1, Zenon
    <3>4. bottom + len <= middle /\ middle + len <= top /\ bottom + len \in Nat
          /\ bottom <= bottom' /\ bottom' <= middle /\ middle <= top' /\ top' <= top
      BY <1>n, <2>2, <3>1, <3>2
    <3> QED
      BY <1>n, <3>2, <3>3, <3>4
  <2> QED
    BY <1>n, <2>1, <2>2
<1>4. PICK j \in Nat, len \in Nat :
        /\ \A k \in Nat : Changed(bottom, j, len, Origin(bottom', middle', top', k)) = Origin(bottom, middle, top, k)
        /\ bottom + len <= j /\ j + len <= top /\ argv' = Swapped(bottom, j, len)
        /\ bottom <= bottom' /\ bottom' <= middle /\ middle <= top' /\ top' <= top
             /\ bottom' \in Nat /\ top' \in Nat
  BY <1>3
<1>5. \A k \in 1 .. Len(argv) : argv'[k] = argv[Changed(bottom, j, len, k)]
  <2>1. bottom \in Nat /\ j \in Nat /\ len \in Nat /\ argv' = Swapped(bottom, j, len)
    BY <1>4, <1>n
  <2>2. argv \in Seq(Seq(Pieces))
    BY <1>0, Lengths
  <2> QED
    BY ONLY <2>1, <2>2, SwappedIs
<1>6. ASSUME NEW k \in optind .. Len(args) PROVE argv'[k] = argv[k]
  <2>1. Len(args) = Len(argv)
    BY <1>0, Lengths
  <2>2. k \in 1 .. Len(argv) /\ Changed(bottom, j, len, k) = k
    BY <1>2, <1>4, <1>n, <2>1 DEF Changed
  <2> QED
    BY <1>5, <2>2, Zenon
<1>7. PICK n \in Nat : n = last_nonopt - first_nonopt
  BY <1>2, <1>n
<1>8. PICK s \in Seq(Seq(Pieces)) :
        /\ s = Skipped /\ Len(s) = n
        /\ \A h \in 1 .. n : s[h] = argv[Origin(bottom, middle, top, first_nonopt + (optind - last_nonopt) + h - 1)]
  BY <1>1, <1>7, DuringExchange, Zenon
<1>9. PICK r : r = Skipped'
  OBVIOUS
<1>10. r = [h \in 1 .. n |-> argv'[Origin(bottom', middle', top', first_nonopt + (optind - last_nonopt) + h - 1)]]
  BY <1>1, <1>7, <1>9, Zenon DEF Skipped
<1>11. ASSUME NEW h \in 1 .. n
       PROVE  argv'[Origin(bottom', middle', top', first_nonopt + (optind - last_nonopt) + h - 1)] = s[h]
  <2>1. PICK k \in Nat : k = first_nonopt + (optind - last_nonopt) + h - 1
    BY <1>2, <1>7, <1>n
  <2>2. first_nonopt <= k /\ k < optind
    BY <1>2, <1>7, <1>n, <2>1
  <2>3. PICK o \in Nat : o = Origin(bottom', middle', top', k) /\ first_nonopt <= o /\ o < optind
    <3>1. /\ bottom' \in Nat /\ middle' \in Nat /\ top' \in Nat /\ bottom' <= middle' /\ middle' <= top'
          /\ first_nonopt \in Nat /\ optind \in Nat /\ first_nonopt <= bottom' /\ top' <= optind /\ k \in Nat
      BY <1>1, <1>2, <1>4, <1>n
    <3>2. PICK b \in Nat, m \in Nat, t \in Nat : b = bottom' /\ m = middle' /\ t = top'
      BY <3>1
    <3>3. /\ b \in Nat /\ m \in Nat /\ t \in Nat /\ b <= m /\ m <= t
          /\ first_nonopt <= b /\ t <= optind
      BY ONLY <3>1, <3>2
    <3>4. /\ Origin(b, m, t, k) \in Nat
          /\ first_nonopt <= Origin(b, m, t, k) /\ Origin(b, m, t, k) < optind
      BY <1>n, <2>2, <3>3, OriginType, Zenon
    <3> QED
      BY <3>2, <3>4, Zenon
  <2>4. o \in 1 .. Len(argv)
    BY <1>n, <2>3
  <2>5. argv'[o] = argv[Origin(bottom, middle, top, k)]
    BY <1>4, <1>5, <2>3, <2>4, Zenon
  <2> QED
    BY <1>8, <2>1, <2>3, <2>5, Zenon
<1>12. r = [h \in 1 .. n |-> s[h]]
  BY <1>10, <1>11, Zenon
<1>13. s = [h \in 1 .. n |-> s[h]]
  BY ONLY <1>8, <1>7
<1> QED
  BY <1>6, <1>8, <1>9, <1>12, <1>13, Zenon

\* When exchange is through, they end before the next element.
LEMMA EndKeeps ==
  ASSUME GInv, Exchanging, ~ (top > middle /\ middle > bottom)
  PROVE  SubSeq(argv, first_nonopt + (optind - last_nonopt), optind - 1) = Skipped
<1>0. Typed
  BY DEF GInv
<1>1. first_nonopt < last_nonopt /\ last_nonopt < optind
      /\ first_nonopt <= bottom /\ bottom <= middle /\ middle <= top /\ top <= optind
  BY Zenon DEF GInv, Bounds
<1>n. /\ bottom \in Nat /\ middle \in Nat /\ top \in Nat /\ first_nonopt \in Nat /\ last_nonopt \in Nat
      /\ optind \in Nat /\ Len(argv) \in Nat /\ 1 <= first_nonopt /\ optind <= Len(argv) + 1
      /\ argv \in Seq(Seq(Pieces))
  BY ONLY <1>0, Numbers, Lengths
<1>2. \A k \in Nat : Origin(bottom, middle, top, k) = k
  <2>1. middle = bottom \/ top = middle
    BY <1>1, <1>n
  <2>2. ASSUME NEW k \in Nat PROVE Origin(bottom, middle, top, k) = k
    <3>1. k \in Nat
      OBVIOUS
    <3> QED
      BY ONLY <1>1, <1>n, <2>1, <3>1, OriginType
  <2> QED
    BY <2>2
<1>3. PICK n \in Nat, m \in Nat : n = last_nonopt - first_nonopt
             /\ m = first_nonopt + (optind - last_nonopt)
                                  /\ 1 <= m /\ m <= optind /\ optind - m = n
  BY <1>1, <1>n
<1>4. PICK s \in Seq(Seq(Pieces)) :
        /\ s = Skipped /\ Len(s) = n
        /\ \A h \in 1 .. n : s[h] = argv[Origin(bottom, middle, top, first_nonopt + (optind - last_nonopt) + h - 1)]
  BY <1>3, DuringExchange, Zenon
<1>5. PICK r \in Seq(Seq(Pieces)) :
        /\ r = SubSeq(argv, m, optind - 1) /\ Len(r) = n
        /\ \A i \in 1 .. n : r[i] = argv[m + i - 1]
  <2>1. SubSeq(argv, m, optind - 1) \in Seq(Seq(Pieces))
          /\ Len(SubSeq(argv, m, optind - 1)) = optind - m
        /\ \A i \in 1 .. optind - m : SubSeq(argv, m, optind - 1)[i] = argv[m + i - 1]
    <3>1. m \in Nat /\ 1 <= m /\ m <= optind
      BY <1>3
    <3>2. argv \in Seq(Seq(Pieces)) /\ optind \in Nat /\ optind <= Len(argv) + 1
      BY ONLY <1>n, <1>0, Numbers, Lengths
    <3> QED
      BY ONLY <3>1, <3>2, Part, Zenon
  <2> QED
    BY <1>3, <2>1, Zenon
<1>6. ASSUME NEW h \in 1 .. n PROVE s[h] = r[h]
  <2>1. m + h - 1 \in Nat
    BY <1>3
  <2> QED
    BY <1>2, <1>3, <1>4, <1>5, <2>1, Zenon
<1>7. s = r
  BY <1>4, <1>5, <1>6, SeqEqual
<1> QED
  BY <1>3, <1>4, <1>5, <1>7, Zenon

\* The indices and the length of the command line.
LEMMA NumbersOf ==
  Typed => /\ first_nonopt \in Nat /\ last_nonopt \in Nat /\ optind \in Nat /\ Len(argv) \in Nat
           /\ 1 <= first_nonopt /\ optind <= Len(argv) + 1 /\ argv \in Seq(Seq(Pieces))
<1> SUFFICES ASSUME Typed
             PROVE  /\ first_nonopt \in Nat /\ last_nonopt \in Nat /\ optind \in Nat
                      /\ Len(argv) \in Nat
                    /\ 1 <= first_nonopt /\ optind <= Len(argv) + 1 /\ argv \in Seq(Seq(Pieces))
  OBVIOUS
<1>1. argc = Len(argv) + 1 /\ Len(argv) \in Nat /\ argv \in Seq(Seq(Pieces))
  BY Lengths
<1>2. /\ first_nonopt \in Nat /\ last_nonopt \in Nat /\ optind \in Nat /\ 1 <= first_nonopt
           /\ optind <= argc
  BY Numbers
<1> QED
  BY <1>1, <1>2, Zenon

\* In the next state.
LEMMA NumbersNext ==
  Typed' => /\ first_nonopt' \in Nat /\ last_nonopt' \in Nat /\ optind' \in Nat /\ Len(argv') \in Nat
            /\ 1 <= first_nonopt' /\ optind' <= Len(argv') + 1 /\ argv' \in Seq(Seq(Pieces))
<1>1. (Typed => /\ first_nonopt \in Nat /\ last_nonopt \in Nat /\ optind \in Nat /\ Len(argv) \in Nat
                /\ 1 <= first_nonopt /\ optind <= Len(argv) + 1 /\ argv \in Seq(Seq(Pieces)))'
  BY NumbersOf, PTL
<1> QED
  BY <1>1

\* When it begins, they are where they were.
LEMMA StartKeeps ==
  ASSUME GInv', Exchanging', UNCHANGED <<argv, first_nonopt, last_nonopt>>,
         bottom' = first_nonopt, middle' = last_nonopt, top' = optind'
  PROVE  Skipped' = SubSeq(argv, first_nonopt, last_nonopt - 1)
<1>0. Typed' /\ Bounds'
  BY DEF GInv
<1>1. first_nonopt < last_nonopt /\ last_nonopt < optind'
  BY <1>0, Zenon DEF Bounds
<1>n. /\ first_nonopt \in Nat /\ last_nonopt \in Nat /\ optind' \in Nat /\ Len(argv) \in Nat
      /\ 1 <= first_nonopt /\ optind' <= Len(argv) + 1 /\ argv \in Seq(Seq(Pieces))
  <2>1. /\ first_nonopt' \in Nat /\ last_nonopt' \in Nat /\ optind' \in Nat /\ Len(argv') \in Nat
        /\ 1 <= first_nonopt' /\ optind' <= Len(argv') + 1 /\ argv' \in Seq(Seq(Pieces))
    BY <1>0, NumbersNext
  <2> QED
    BY <2>1
<1>2. PICK n \in Nat : n = last_nonopt - first_nonopt
  BY <1>1, <1>n
<1>3. PICK r : r = Skipped'
  OBVIOUS
<1>4. r = [h \in 1 .. n |-> argv[Origin(first_nonopt, last_nonopt, optind', first_nonopt + (optind' - last_nonopt) + h - 1)]]
  BY <1>2, <1>3, Zenon DEF Skipped
<1>5. PICK s \in Seq(Seq(Pieces)) :
        /\ s = SubSeq(argv, first_nonopt, last_nonopt - 1) /\ Len(s) = n
        /\ \A i \in 1 .. n : s[i] = argv[first_nonopt + i - 1]
  <2>1. last_nonopt <= Len(argv) + 1
    BY <1>1, <1>n
  <2>2. SubSeq(argv, first_nonopt, last_nonopt - 1) \in Seq(Seq(Pieces))
        /\ Len(SubSeq(argv, first_nonopt, last_nonopt - 1)) = last_nonopt - first_nonopt
        /\ \A i \in 1 .. last_nonopt - first_nonopt :
             SubSeq(argv, first_nonopt, last_nonopt - 1)[i] = argv[first_nonopt + i - 1]
    BY <1>1, <1>n, <2>1, Part
  <2> QED
    BY <1>2, <2>2, Zenon
<1>6. ASSUME NEW h \in 1 .. n
      PROVE  argv[Origin(first_nonopt, last_nonopt, optind', first_nonopt + (optind' - last_nonopt) + h - 1)] = s[h]
  <2>1. Origin(first_nonopt, last_nonopt, optind',
            first_nonopt + (optind' - last_nonopt) + h - 1) = first_nonopt + h - 1
    <3>0. h \in Nat /\ 1 <= h /\ h <= n /\ n \in Nat
      OBVIOUS
    <3>1. PICK o \in Nat : o = optind'
      BY <1>n
    <3>2. /\ first_nonopt \in Nat /\ last_nonopt \in Nat /\ o \in Nat
          /\ first_nonopt < last_nonopt /\ last_nonopt < o /\ n = last_nonopt - first_nonopt
      BY <1>1, <1>2, <1>n, <3>1
    <3>3. Origin(first_nonopt, last_nonopt, o,
              first_nonopt + (o - last_nonopt) + h - 1) = first_nonopt + h - 1
      BY ONLY <3>0, <3>2 DEF Origin
    <3> QED
      BY <3>1, <3>3, Zenon
  <2> QED
    BY <1>5, <2>1, Zenon
<1>7. r = [h \in 1 .. n |-> s[h]]
  BY <1>4, <1>6, Zenon
<1>8. s = [h \in 1 .. n |-> s[h]]
  BY ONLY <1>5, <1>2
<1> QED
  BY <1>3, <1>5, <1>7, <1>8, Zenon

-----------------------------------------------------------------------------
(* What was delivered and skipped, and what is to come, is the command line. *)

\* What is to come, when g is what there is from every element on: the rest after
\* a "--", what is left of a cluster and what follows it, or the next element.
ToCome(g) ==
  IF gpc = "exchange_rest" THEN [options |-> <<>>, operands |-> SubSeq(args, optind, Len(args))]
  ELSE IF nextchar # <<>>
  THEN LET m == ShortMeaning(nextchar, After(args, optind))
           r == g[IF m.takes THEN optind + 2 ELSE optind + 1]
       IN [options |-> m.options \o r.options, operands |-> r.operands]
  ELSE g[optind]

\* The elements from the next one on are where they were.
Ahead == \A k \in optind .. Len(args) : argv[k] = args[k]

\* The scan is not through.
During(g) ==
  /\ delivered \in Seq(Answers)
  /\ Ahead
  /\ g[1].options = delivered \o ToCome(g).options
  /\ g[1].operands = Skipped \o ToCome(g).operands

\* It is.
Through(g) ==
  /\ delivered \in Seq(Answers)
  /\ backup_method = "" =>
       g[1].options = delivered /\ g[1].operands = SubSeq(argv, optind, Len(argv))

\* The invariant.
SInv == \A g : ScanFrom(g, args) => IF gpc = "done" THEN Through(g) ELSE During(g)

\* Between elements it is what follows from the next one on.
LEMMA ToComeElement ==
  ASSUME gpc # "exchange_rest", nextchar = <<>>, NEW g
  PROVE  ToCome(g) = g[optind]
BY DEF ToCome

\* Within a cluster it begins with what is left of that.
LEMMA ToComeCluster ==
  ASSUME gpc # "exchange_rest", nextchar # <<>>, NEW g
  PROVE  LET m == ShortMeaning(nextchar, After(args, optind))
             r == g[IF m.takes THEN optind + 2 ELSE optind + 1]
         IN ToCome(g).options = m.options \o r.options /\ ToCome(g).operands = r.operands
<1>1. PICK m : m = ShortMeaning(nextchar, After(args, optind))
  OBVIOUS
<1>2. PICK r : r = g[IF m.takes THEN optind + 2 ELSE optind + 1]
  OBVIOUS
<1>3. PICK os, ws : os = m.options \o r.options /\ ws = r.operands
  OBVIOUS
<1>4. PICK v : v = ToCome(g)
  OBVIOUS
<1>5. v = [options |-> os, operands |-> ws]
  BY <1>1, <1>2, <1>3, <1>4, Zenon DEF ToCome
<1>6. v.options = os /\ v.operands = ws
  BY ONLY <1>5
<1> QED
  BY <1>1, <1>2, <1>3, <1>4, <1>6, Zenon

\* It is typed.
LEMMA ToComeType ==
  ASSUME Typed, NEW g, ScanFrom(g, args)
  PROVE  /\ ToCome(g) \in Contents
         /\ ToCome(g).options \in Seq(Answers) /\ ToCome(g).operands \in Seq(Seq(Pieces))
<1>1. args \in Seq(Seq(Pieces)) /\ nextchar \in Seq(Pieces)
  BY ArgAssumption DEF Typed, Elements
<1>2. optind \in Nat /\ 1 <= optind /\ optind <= Len(args) + 1 /\ Len(args) \in Nat
  <2>1. Len(args) = Len(argv) /\ argc = Len(argv) + 1 /\ Len(argv) \in Nat
    BY Lengths
  <2>2. optind \in Nat /\ 1 <= optind /\ optind <= argc
    BY Numbers
  <2> QED
    BY <2>1, <2>2, Zenon
<1>3. g[optind] \in Contents
  <2>1. optind \in 1 .. Len(args) + 2
    BY ONLY <1>2
  <2> QED
    BY <1>1, <2>1, ScanType, Zenon
<1>4. CASE gpc = "exchange_rest"
  <2>1. \A k \in optind .. Len(args) : args[k] \in Seq(Pieces)
    BY <1>1, <1>2
  <2>2. SubSeq(args, optind, Len(args)) \in Seq(Seq(Pieces))
    BY <1>2, <2>1, SubSeqProperties
  <2>3. ToCome(g) = [options |-> <<>>, operands |-> SubSeq(args, optind, Len(args))]
    BY <1>4, Zenon DEF ToCome
  <2>4. <<>> \in Seq(Answers)
    OBVIOUS
  <2> QED
    BY <2>2, <2>3, <2>4 DEF Contents
<1>5. CASE gpc # "exchange_rest" /\ nextchar # <<>>
  <2>1. After(args, optind) \in Optional(Seq(Pieces))
    <3>1. optind < Len(args) => optind + 1 \in 1 .. Len(args)
      BY <1>2
    <3>2. optind < Len(args) => args[optind + 1] \in Seq(Pieces)
      BY <1>1, <3>1
    <3> QED
      BY <3>2, Zenon DEF After, Optional
  <2>2. PICK m : m = ShortMeaning(nextchar, After(args, optind)) /\ m.options \in Seq(Answers)
    BY <1>1, <2>1, ClusterType
  <2>3. PICK r : r = g[IF m.takes THEN optind + 2 ELSE optind + 1]
    OBVIOUS
  <2>4. r \in Contents
    <3>1. optind + 1 \in 1 .. Len(args) + 2 /\ (m.takes => optind + 2 \in 1 .. Len(args) + 2)
      <4>1. Letters
        BY DEF Typed
      <4>2. optind < argc /\ argc = Len(args) + 1
        BY <1>5, <4>1, Lengths, Zenon DEF Letters
      <4> QED
        BY <1>2, <4>2
    <3>2. g[optind + 1] \in Contents /\ (m.takes => g[optind + 2] \in Contents)
      BY <1>1, <3>1, ScanType, Zenon
    <3> QED
      BY <2>3, <3>2, Zenon
  <2>5. r.options \in Seq(Answers) /\ r.operands \in Seq(Seq(Pieces))
    BY <2>4 DEF Contents
  <2>6. ToCome(g) = [options |-> m.options \o r.options, operands |-> r.operands]
    BY <1>5, <2>2, <2>3, Zenon DEF ToCome
  <2>7. m.options \o r.options \in Seq(Answers)
    BY <2>2, <2>5, ConcatProperties, Zenon
  <2> QED
    BY <2>5, <2>6, <2>7 DEF Contents
<1>6. CASE gpc # "exchange_rest" /\ nextchar = <<>>
  BY <1>3, <1>6, ToComeElement DEF Contents
<1> QED
  BY <1>4, <1>5, <1>6

\* Nothing is skipped, or it is the same, between the exchanges.
LEMMA SkippedSame ==
  ASSUME UNCHANGED <<argv, first_nonopt, last_nonopt>>, ~ Exchanging, ~ Exchanging',
         gpc # "skip", gpc' # "skip"
  PROVE  Skipped' = Skipped
BY Zenon DEF Skipped

\* An empty part.
LEMMA EmptyPart ==
  ASSUME NEW s \in Seq(Seq(Pieces)), NEW n \in Nat, 1 <= n, n <= Len(s) + 1
  PROVE  SubSeq(s, n, n - 1) = <<>>
<1>1. SubSeq(s, n, n - 1) \in Seq(Seq(Pieces)) /\ Len(SubSeq(s, n, n - 1)) = n - n
  BY Part
<1>2. Len(SubSeq(s, n, n - 1)) = 0
  BY <1>1
<1> QED
  BY <1>1, <1>2

\* Two command lines that end alike.
LEMMA SameEnd ==
  ASSUME NEW s \in Seq(Seq(Pieces)), NEW t \in Seq(Seq(Pieces)), Len(s) = Len(t),
           NEW n \in Nat, 1 <= n, n <= Len(s) + 1,
         \A k \in n .. Len(s) : s[k] = t[k]
  PROVE  SubSeq(s, n, Len(s)) = SubSeq(t, n, Len(t))
<1>n. PICK L \in Nat : L = Len(s) + 1 /\ L = Len(t) + 1 /\ L - 1 = Len(s) /\ L - 1 = Len(t)
             /\ 1 <= n /\ n <= L
  OBVIOUS
<1>1. PICK u \in Seq(Seq(Pieces)) : u = SubSeq(s, n, L - 1) /\ Len(u) = L - n
             /\ \A i \in 1 .. L - n : u[i] = s[n + i - 1]
  <2>1. s \in Seq(Seq(Pieces)) /\ n \in Nat /\ L \in Nat /\ 1 <= n /\ n <= L /\ L <= Len(s) + 1
    BY <1>n
  <2>2. /\ SubSeq(s, n, L - 1) \in Seq(Seq(Pieces)) /\ Len(SubSeq(s, n, L - 1)) = L - n
        /\ \A i \in 1 .. L - n : SubSeq(s, n, L - 1)[i] = s[n + i - 1]
    BY ONLY <2>1, Part
  <2> QED
    BY <2>2, Zenon
<1>2. PICK v \in Seq(Seq(Pieces)) : v = SubSeq(t, n, L - 1) /\ Len(v) = L - n
             /\ \A i \in 1 .. L - n : v[i] = t[n + i - 1]
  <2>1. t \in Seq(Seq(Pieces)) /\ n \in Nat /\ L \in Nat /\ 1 <= n /\ n <= L /\ L <= Len(t) + 1
    BY <1>n
  <2>2. /\ SubSeq(t, n, L - 1) \in Seq(Seq(Pieces)) /\ Len(SubSeq(t, n, L - 1)) = L - n
        /\ \A i \in 1 .. L - n : SubSeq(t, n, L - 1)[i] = t[n + i - 1]
    BY ONLY <2>1, Part
  <2> QED
    BY <2>2, Zenon
<1>3. ASSUME NEW i \in 1 .. L - n PROVE u[i] = v[i]
  <2>1. n + i - 1 \in n .. Len(s)
    BY <1>n
  <2> QED
    BY <1>1, <1>2, <2>1, Zenon
<1>4. u = v
  BY <1>1, <1>2, <1>3, SeqEqual
<1> QED
  BY <1>n, <1>1, <1>2, <1>4, Zenon

\* The next elements, as they are given and as they are found.
LEMMA NextElements ==
  ASSUME Typed, Ahead, optind < argc
  PROVE  /\ optind \in 1 .. Len(args) /\ args \in Seq(Seq(Pieces))
         /\ args[optind] = argv[optind] /\ argv[optind] \in Seq(Pieces)
         /\ After(args, optind) = (IF optind + 1 < argc THEN <<argv[optind + 1]>> ELSE <<>>)
         /\ After(args, optind) \in Optional(Seq(Pieces))
<1>1. Len(args) = Len(argv) /\ argc = Len(argv) + 1 /\ Len(argv) \in Nat /\ args \in Seq(Seq(Pieces))
  BY Lengths, ArgAssumption DEF Typed, Elements
<1>2. optind \in Nat /\ 1 <= optind
  BY Numbers
<1>3. optind \in 1 .. Len(args) /\ optind \in optind .. Len(args)
        /\ (optind < Len(args) => optind + 1 \in optind .. Len(args))
      /\ (optind < Len(args) <=> optind + 1 < argc)
  <2>1. optind < argc
    OBVIOUS
  <2>2. optind \in Nat /\ Len(args) \in Nat /\ 1 <= optind /\ argc = Len(args) + 1 /\ optind < argc
    BY <1>1, <1>2, <2>1, Zenon
  <2> QED
    BY ONLY <2>2
<1>4. args[optind] = argv[optind] /\ (optind < Len(args) => args[optind + 1] = argv[optind + 1])
  BY <1>3, Zenon DEF Ahead
<1>5. args[optind] \in Seq(Pieces) /\ After(args, optind) \in Optional(Seq(Pieces))
  BY <1>1, <1>3, AfterType, Zenon
<1>6. After(args, optind) = (IF optind + 1 < argc THEN <<argv[optind + 1]>> ELSE <<>>)
  BY <1>3, <1>4, Zenon DEF After
<1> QED
  BY <1>1, <1>3, <1>4, <1>5, <1>6, Zenon

-----------------------------------------------------------------------------
(* What the steps of getopt_long keep.  *)

\* Adjacent parts.
LEMMA JoinParts ==
  ASSUME NEW s \in Seq(Seq(Pieces)), NEW m \in Nat, NEW n \in Nat, NEW k \in Nat,
         1 <= m, m <= n, n <= k + 1, k <= Len(s)
  PROVE  SubSeq(s, m, n - 1) \o SubSeq(s, n, k) = SubSeq(s, m, k)
<1>1. PICK q : q = n - 1
  OBVIOUS
<1>2. m \in 1 .. Len(s) + 1 /\ q \in m - 1 .. Len(s) /\ k \in q .. Len(s) /\ q + 1 = n
  BY <1>1
<1>3. SubSeq(s, m, q) \o SubSeq(s, q + 1, k) = SubSeq(s, m, k)
  BY <1>2, ConcatAdjacentSubSeq, Zenon
<1> QED
  BY <1>1, <1>2, <1>3, Zenon

\* A part of one element.
LEMMA OnePart ==
  ASSUME NEW s \in Seq(Seq(Pieces)), NEW n \in Nat, 1 <= n, n <= Len(s)
  PROVE  SubSeq(s, n, n) = <<s[n]>> /\ s[n] \in Seq(Pieces)
<1>1. s[n] \in Seq(Pieces)
  OBVIOUS
<1>2. PICK u \in Seq(Seq(Pieces)) : u = SubSeq(s, n, n) /\ Len(u) = 1 /\ u[1] = s[n]
  <2>1. PICK m \in Nat : m = n + 1 /\ m - 1 = n /\ m - n = 1
    OBVIOUS
  <2>2. SubSeq(s, n, m - 1) \in Seq(Seq(Pieces)) /\ Len(SubSeq(s, n, m - 1)) = m - n
        /\ \A i \in 1 .. m - n : SubSeq(s, n, m - 1)[i] = s[n + i - 1]
    <3>1. n <= m /\ m <= Len(s) + 1
      BY <2>1
    <3> QED
      BY <3>1, Part
  <2>3. 1 \in 1 .. m - n /\ n + 1 - 1 = n
    BY <2>1
  <2> QED
    BY <2>1, <2>2, <2>3, Zenon
<1>3. PICK x \in Seq(Pieces) : x = s[n]
  BY <1>1
<1>4. u = <<x>>
  <2>1. u \in Seq(Seq(Pieces)) /\ Len(u) = 1 /\ u[1] = x
    BY <1>2, <1>3
  <2> QED
    BY ONLY <2>1
<1> QED
  BY <1>1, <1>2, <1>3, <1>4, Zenon

\* A new element begins.
LEMMA NextElementKeeps ==
  ASSUME GInv, GInv', NextElement, NEW g, During(g)
  PROVE  During(g)'
<1>0. Typed /\ Order /\ Typed'
  BY DEF GInv
<1>1. UNCHANGED <<argv, ordering, optind, nextchar, last_nonopt, args, delivered>>
      /\ gpc = "call" /\ nextchar = <<>> /\ gpc' \in {"exchange", "skip", "element"}
  BY Zenon DEF NextElement, StartExchange, returned
<1>2. ToCome(g) = g[optind]
  BY <1>1, ToComeElement
<1>3. ToCome(g)' = g[optind]
  BY <1>1 DEF ToCome
<1>4. Ahead'
  BY <1>1, Zenon DEF Ahead, During
<1>5. Skipped = SubSeq(argv, first_nonopt, last_nonopt - 1)
  BY <1>1, Zenon DEF Skipped, Exchanging
<1>n. /\ first_nonopt \in Nat /\ last_nonopt \in Nat /\ optind \in Nat /\ Len(argv) \in Nat
      /\ 1 <= first_nonopt /\ optind <= Len(argv) + 1 /\ argv \in Seq(Seq(Pieces))
      /\ first_nonopt <= last_nonopt /\ last_nonopt <= optind
  BY <1>0, <1>1, NumbersOf DEF Order
<1>6. Skipped' = Skipped
  <2>1. CASE ordering = "PERMUTE" /\ Interleaved(optind)
    <3>1. bottom' = first_nonopt /\ middle' = last_nonopt /\ top' = optind' /\ gpc' = "exchange"
          /\ first_nonopt' = first_nonopt
      BY <2>1, Zenon DEF NextElement, StartExchange
    <3>2. Skipped' = SubSeq(argv, first_nonopt, last_nonopt - 1)
      BY <1>1, <3>1, StartKeeps DEF Exchanging
    <3> QED
      BY <1>5, <3>2
  <2>2. CASE ordering = "PERMUTE" /\ ~ Interleaved(optind) /\ last_nonopt # optind
    <3>1. first_nonopt' = optind /\ gpc' = "skip" /\ first_nonopt = last_nonopt
      BY <2>2, Zenon DEF NextElement, Interleaved
    <3>2. Skipped' = SubSeq(argv, optind, optind - 1)
      BY <1>1, <3>1, Zenon DEF Skipped, Exchanging
    <3>3. SubSeq(argv, optind, optind - 1) = <<>>
      BY <1>n, EmptyPart
    <3>4. SubSeq(argv, first_nonopt, first_nonopt - 1) = <<>>
      BY <1>n, EmptyPart
    <3> QED
      BY <1>5, <3>1, <3>2, <3>3, <3>4, Zenon
  <2>3. CASE ordering = "PERMUTE" /\ last_nonopt = optind
    <3>1. first_nonopt' = first_nonopt /\ gpc' = "skip"
      BY <2>3, Zenon DEF NextElement, Interleaved
    <3> QED
      BY <1>1, <1>5, <2>3, <3>1, Zenon DEF Skipped, Exchanging
  <2>4. CASE ordering # "PERMUTE"
    <3>1. first_nonopt' = first_nonopt /\ gpc' = "element"
      BY <2>4, Zenon DEF NextElement
    <3> QED
      BY <1>1, <1>5, <3>1, Zenon DEF Skipped, Exchanging
  <2> QED
    BY <2>1, <2>2, <2>3, <2>4, Zenon
<1> QED
  BY <1>1, <1>2, <1>3, <1>4, <1>6, Zenon DEF During

\* A turn of an exchange.
LEMMA ExchangeKeeps ==
  ASSUME GInv, GInv', Exchange, NEW g, During(g)
  PROVE  During(g)'
<1>0. Typed
  BY DEF GInv
<1>1. UNCHANGED <<gpc, optind, nextchar, args, delivered>>
  BY Zenon DEF Exchange, scan, returned
<1>2. ToCome(g)' = ToCome(g)
  BY <1>1, Zenon DEF ToCome, After
<1>3. Skipped' = Skipped /\ \A k \in optind .. Len(args) : argv'[k] = argv[k]
  BY TurnKeeps
<1>4. Ahead'
  BY <1>1, <1>3, Zenon DEF Ahead, During
<1> QED
  BY <1>1, <1>2, <1>3, <1>4, Zenon DEF During

\* The end of an exchange; after a "--" it is the end of the command line.
LEMMA ExchangeEndsKeeps ==
  ASSUME GInv, GInv', ExchangeEnds, NEW g, ScanFrom(g, args), During(g)
  PROVE  During(g)'
<1>0. Typed /\ Bounds
  BY DEF GInv
<1>1. UNCHANGED <<argv, nextchar, args, delivered>> /\ Exchanging /\ ~ (top > middle /\ middle > bottom)
      /\ first_nonopt' = first_nonopt + (optind - last_nonopt)
  BY Zenon DEF ExchangeEnds, returned, Exchanging
<1>2. nextchar = <<>>
  BY <1>0, <1>1 DEF Typed, Control, Exchanging
<1>3. Skipped = SubSeq(argv, first_nonopt', optind - 1)
  BY <1>1, EndKeeps, Zenon
<1>n. /\ first_nonopt' \in Nat /\ optind \in Nat /\ Len(argv) \in Nat /\ Len(args) = Len(argv)
      /\ 1 <= first_nonopt' /\ first_nonopt' <= optind /\ optind <= Len(argv) + 1
           /\ argv \in Seq(Seq(Pieces))
      /\ argc = Len(argv) + 1
  <2>1. /\ first_nonopt \in Nat /\ last_nonopt \in Nat /\ optind \in Nat /\ Len(argv) \in Nat
        /\ 1 <= first_nonopt /\ optind <= Len(argv) + 1 /\ argv \in Seq(Seq(Pieces))
    BY <1>0, NumbersOf
  <2>2. first_nonopt < last_nonopt /\ last_nonopt < optind
    BY <1>0, <1>1 DEF Bounds
  <2>3. Len(args) = Len(argv) /\ argc = Len(argv) + 1
    BY <1>0, Lengths
  <2>4. first_nonopt' \in Nat /\ 1 <= first_nonopt' /\ first_nonopt' <= optind
    BY ONLY <1>1, <2>1, <2>2
  <2> QED
    BY <2>1, <2>3, <2>4, Zenon
<1>4. CASE gpc = "exchange"
  <2>1. last_nonopt' = optind /\ optind' = optind /\ gpc' = "skip"
    BY <1>4, Zenon DEF ExchangeEnds
  <2>2. Skipped' = SubSeq(argv, first_nonopt', optind - 1)
    BY <1>1, <2>1, Zenon DEF Skipped, Exchanging
  <2>3. ToCome(g)' = ToCome(g)
    BY <1>1, <1>2, <1>4, <2>1 DEF ToCome
  <2>4. Ahead'
    BY <1>1, <2>1, Zenon DEF Ahead, During
  <2> QED
    BY <1>1, <1>3, <2>2, <2>3, <2>4, Zenon DEF During
<1>5. CASE gpc = "exchange_rest"
  <2>1. last_nonopt' = argc /\ optind' = argc /\ gpc' = "element"
    BY <1>5, Zenon DEF ExchangeEnds
  <2>2. Skipped' = SubSeq(argv, first_nonopt', Len(argv))
    <3>1. Skipped' = SubSeq(argv, first_nonopt', argc - 1)
      BY <1>1, <2>1, Zenon DEF Skipped, Exchanging
    <3>2. argc - 1 = Len(argv)
      BY <1>n
    <3> QED
      BY <3>1, <3>2, Zenon
  <2>3. SubSeq(args, optind, Len(args)) = SubSeq(argv, optind, Len(argv))
    <3>1. \A k \in optind .. Len(argv) : argv[k] = args[k]
      BY <1>n DEF Ahead, During
    <3>2. args \in Seq(Seq(Pieces)) /\ 1 <= optind
      BY <1>0, <1>n, ArgAssumption DEF Typed, Elements
    <3> QED
      BY <1>n, <3>1, <3>2, SameEnd
  <2>4. SubSeq(argv, first_nonopt', optind - 1) \o SubSeq(argv, optind, Len(argv))
          = SubSeq(argv, first_nonopt', Len(argv))
    <3>1. optind <= Len(argv) + 1 /\ Len(argv) <= Len(argv)
      BY <1>n
    <3> QED
      BY <1>n, <3>1, JoinParts
  <2>5. ToCome(g) = [options |-> <<>>, operands |-> SubSeq(args, optind, Len(args))]
    BY <1>5, Zenon DEF ToCome
  <2>6. ToCome(g)' = g[Len(args) + 1]
    BY <1>1, <1>2, <1>n, <2>1 DEF ToCome
  <2>7. ToCome(g).options = <<>> /\ ToCome(g).operands = SubSeq(args, optind, Len(args))
    <3>1. PICK v : v = ToCome(g)
      OBVIOUS
    <3>2. PICK ws : ws = SubSeq(args, optind, Len(args))
      OBVIOUS
    <3>3. v = [options |-> <<>>, operands |-> ws]
      BY <2>5, <3>1, <3>2, Zenon
    <3>4. v.options = <<>> /\ v.operands = ws
      BY ONLY <3>3
    <3> QED
      BY <3>1, <3>2, <3>4, Zenon
  <2>8. ToCome(g)'.options = <<>> /\ ToCome(g)'.operands = <<>>
    BY <1>0, <2>6, ScanEnd, ArgAssumption, Zenon DEF Typed, Elements
  <2>9. Skipped' = Skipped \o ToCome(g).operands /\ Skipped' \o <<>> = Skipped'
    <3>1. Skipped' = Skipped \o ToCome(g).operands
      BY <1>3, <2>2, <2>3, <2>4, <2>7, Zenon
    <3>2. Skipped' \in Seq(Seq(Pieces))
      <4>1. SubSeq(argv, first_nonopt', Len(argv)) \in Seq(Seq(Pieces))
        BY ONLY <1>n
      <4> QED
        BY <2>2, <4>1
    <3> QED
      BY <3>1, <3>2, ConcatEmptySeq, Zenon
  <2>10. Ahead'
    <3>1. \A k \in Len(args) + 1 .. Len(args) : FALSE
      BY <1>n
    <3> QED
      BY <1>1, <1>n, <2>1, <3>1, Zenon DEF Ahead
  <2> QED
    BY <1>1, <2>7, <2>8, <2>9, <2>10, Zenon DEF During
<1> QED
  BY <1>1, <1>4, <1>5 DEF Exchanging

\* The element at i is an operand that is skipped.
LEMMA OperandValue ==
  ASSUME NEW a \in Seq(Seq(Pieces)), NEW g, ScanFrom(g, a), NEW i \in 1 .. Len(a),
         NonOption(a[i]), ordering # "REQUIRE_ORDER"
  PROVE  g[i].options = g[i + 1].options /\ g[i].operands = <<a[i]>> \o g[i + 1].operands
BY ScanValue

\* An operand is skipped.
LEMMA SkipKeeps ==
  ASSUME GInv, GInv', SkipNonOption, NEW g, ScanFrom(g, args), During(g)
  PROVE  During(g)'
<1>0. Typed /\ Order /\ Modes
  BY DEF GInv
<1>1. UNCHANGED <<argv, nextchar, first_nonopt, gpc, args, delivered>>
      /\ gpc = "skip" /\ optind < argc /\ NonOption(argv[optind]) /\ optind' = optind + 1
  BY Zenon DEF SkipNonOption, returned
<1>2. nextchar = <<>> /\ ordering # "REQUIRE_ORDER" /\ first_nonopt <= optind
  BY <1>0, <1>1 DEF Typed, Control, Modes, Order
<1>3. optind \in 1 .. Len(args) /\ args \in Seq(Seq(Pieces)) /\ args[optind] = argv[optind]
        /\ argv[optind] \in Seq(Pieces)
  BY <1>0, <1>1, NextElements DEF During
<1>4. ToCome(g) = g[optind] /\ ToCome(g)' = g[optind + 1]
  BY <1>1, <1>2 DEF ToCome
<1>5. g[optind].options = g[optind + 1].options
        /\ g[optind].operands = <<argv[optind]>> \o g[optind + 1].operands
  <2>1. /\ g[optind].options = g[optind + 1].options
        /\ g[optind].operands = <<args[optind]>> \o g[optind + 1].operands
    <3>1. NonOption(args[optind])
      BY <1>1, <1>3, Zenon
    <3> QED
      BY <1>2, <1>3, <3>1, OperandValue, Zenon
  <2> QED
    BY <1>3, <2>1, Zenon
<1>n. /\ first_nonopt \in Nat /\ optind \in Nat /\ Len(argv) \in Nat /\ argv \in Seq(Seq(Pieces))
      /\ 1 <= first_nonopt /\ first_nonopt <= optind /\ optind <= Len(argv)
  <2>1. first_nonopt \in Nat /\ optind \in Nat /\ Len(argv) \in Nat /\ argv \in Seq(Seq(Pieces))
          /\ 1 <= first_nonopt
    BY <1>0, NumbersOf
  <2>2. Len(args) = Len(argv)
    BY <1>0, Lengths
  <2> QED
    BY <1>2, <1>3, <2>1, <2>2
<1>6. Skipped' = Skipped \o <<argv[optind]>> /\ Skipped \in Seq(Seq(Pieces))
  <2>1. Skipped = SubSeq(argv, first_nonopt, optind - 1)
          /\ Skipped' = SubSeq(argv, first_nonopt, optind' - 1)
    BY <1>1, Zenon DEF Skipped, Exchanging
  <2>2. optind' - 1 = optind
    BY <1>1, <1>n
  <2>3. SubSeq(argv, first_nonopt, optind - 1) \o SubSeq(argv, optind, optind)
          = SubSeq(argv, first_nonopt, optind)
    <3>1. optind <= optind + 1
      BY <1>n
    <3> QED
      BY <1>n, <3>1, JoinParts
  <2>4. SubSeq(argv, optind, optind) = <<argv[optind]>>
    <3>1. 1 <= optind
      BY <1>n
    <3> QED
      BY <1>n, <3>1, OnePart
  <2>5. SubSeq(argv, first_nonopt, optind - 1) \in Seq(Seq(Pieces))
    <3>1. optind <= Len(argv) + 1
      BY <1>n
    <3> QED
      BY <1>n, <3>1, Part
  <2> QED
    BY <2>1, <2>2, <2>3, <2>4, <2>5, Zenon
<1>7. (Skipped \o <<argv[optind]>>) \o g[optind + 1].operands = Skipped \o (<<argv[optind]>> \o g[optind + 1].operands)
  <2>1. optind + 1 \in 1 .. Len(args) + 2
    BY <1>3
  <2>2. g[optind + 1].operands \in Seq(Seq(Pieces))
    BY <1>3, <2>1, ScanType DEF Contents
  <2>3. <<argv[optind]>> \in Seq(Seq(Pieces))
    BY <1>3
  <2> QED
    <3>1. \A a, b, c \in Seq(Seq(Pieces)) : (a \o b) \o c = a \o (b \o c)
      <4>1. Regroups(Seq(Pieces))
        BY Reassociate, Zenon
      <4> QED
        BY ONLY <4>1, Zenon DEF Regroups
    <3> QED
      BY <1>6, <2>2, <2>3, <3>1, Zenon
<1>8. Ahead'
  <2>1. \A k \in optind + 1 .. Len(args) : k \in optind .. Len(args)
    BY <1>3
  <2> QED
    BY <1>1, <2>1, Zenon DEF Ahead, During
<1> QED
  BY <1>1, <1>4, <1>5, <1>6, <1>7, <1>8, Zenon DEF During

\* No more of them.
LEMMA SkipEndsKeeps ==
  ASSUME GInv, GInv', SkipEnds, NEW g, During(g)
  PROVE  During(g)'
<1>0. Typed
  BY DEF GInv
<1>1. UNCHANGED <<argv, optind, nextchar, first_nonopt, args, delivered>>
      /\ gpc = "skip" /\ last_nonopt' = optind /\ gpc' = "element"
  BY Zenon DEF SkipEnds, returned
<1>2. nextchar = <<>>
  BY <1>0, <1>1 DEF Typed, Control
<1>3. ToCome(g)' = ToCome(g)
  BY <1>1, <1>2 DEF ToCome
<1>4. Skipped' = Skipped
  BY <1>1, Zenon DEF Skipped, Exchanging
<1>5. Ahead'
  BY <1>1, Zenon DEF Ahead, During
<1> QED
  BY <1>1, <1>3, <1>4, <1>5, Zenon DEF During

\* A "--".
LEMMA DashDashKeeps ==
  ASSUME GInv, GInv', DashDash, NEW g, ScanFrom(g, args), During(g)
  PROVE  During(g)'
<1>0. Typed /\ Order
  BY DEF GInv
<1>1. UNCHANGED <<argv, nextchar, args, delivered>> /\ gpc = "element" /\ optind # argc
        /\ IsEnd(argv[optind])
  BY Zenon DEF DashDash, returned
<1>2. nextchar = <<>> /\ first_nonopt <= last_nonopt /\ last_nonopt <= optind
  BY <1>0, <1>1 DEF Typed, Control, Order
<1>n. /\ first_nonopt \in Nat /\ last_nonopt \in Nat /\ optind \in Nat /\ Len(argv) \in Nat
           /\ argv \in Seq(Seq(Pieces))
      /\ 1 <= first_nonopt /\ optind <= Len(argv) /\ argc = Len(argv) + 1 /\ Len(args) = Len(argv)
  <2>1. /\ first_nonopt \in Nat /\ last_nonopt \in Nat /\ optind \in Nat /\ Len(argv) \in Nat
        /\ 1 <= first_nonopt /\ optind <= Len(argv) + 1 /\ argv \in Seq(Seq(Pieces))
    BY <1>0, NumbersOf
  <2>2. argc = Len(argv) + 1 /\ Len(args) = Len(argv)
    BY <1>0, Lengths
  <2> QED
    BY <1>1, <2>1, <2>2
<1>3. optind \in 1 .. Len(args) /\ args \in Seq(Seq(Pieces)) /\ args[optind] = argv[optind]
  <2>1. optind < argc
    BY <1>n
  <2> QED
    BY <1>0, <2>1, NextElements DEF During
<1>4. ToCome(g) = g[optind]
  BY <1>1, <1>2, ToComeElement
<1>5. g[optind].options = <<>> /\ g[optind].operands = SubSeq(args, optind + 1, Len(args))
  BY <1>1, <1>3, ScanValue
<1>6. Skipped = SubSeq(argv, first_nonopt, last_nonopt - 1)
  BY <1>1, Zenon DEF Skipped, Exchanging
<1>7. CASE Interleaved(optind + 1)
  <2>1. optind' = optind + 1 /\ gpc' = "exchange_rest" /\ bottom' = first_nonopt
          /\ middle' = last_nonopt /\ top' = optind'
        /\ UNCHANGED <<first_nonopt, last_nonopt>>
    BY <1>7, Zenon DEF DashDash, StartExchange
  <2>2. Skipped' = Skipped
    BY <1>1, <1>6, <2>1, StartKeeps DEF Exchanging
  <2>3. ToCome(g)' = [options |-> <<>>, operands |-> SubSeq(args, optind + 1, Len(args))]
    BY <1>1, <2>1, Zenon DEF ToCome
  <2>4. ToCome(g)'.options = <<>> /\ ToCome(g)'.operands = SubSeq(args, optind + 1, Len(args))
    <3>1. PICK v : v = ToCome(g)'
      OBVIOUS
    <3>2. PICK ws : ws = SubSeq(args, optind + 1, Len(args))
      OBVIOUS
    <3>3. v = [options |-> <<>>, operands |-> ws]
      BY <2>3, <3>1, <3>2, Zenon
    <3>4. v.options = <<>> /\ v.operands = ws
      BY ONLY <3>3
    <3> QED
      BY <3>1, <3>2, <3>4, Zenon
  <2>5. Ahead'
    <3>1. \A k \in optind + 1 .. Len(args) : k \in optind .. Len(args)
      BY <1>3
    <3> QED
      BY <1>1, <2>1, <3>1, Zenon DEF Ahead, During
  <2> QED
    BY <1>1, <1>4, <1>5, <2>2, <2>4, <2>5, Zenon DEF During
<1>8. CASE ~ Interleaved(optind + 1)
  <2>1. first_nonopt = last_nonopt
    <3>1. last_nonopt # optind + 1
      BY <1>2, <1>n
    <3> QED
      BY <1>8, <3>1, Zenon DEF Interleaved
  <2>2. first_nonopt' = optind + 1 /\ last_nonopt' = argc /\ optind' = argc /\ gpc' = "element"
    BY <1>1, <1>8, <2>1, Zenon DEF DashDash
  <2>3. Skipped = <<>>
    <3>1. first_nonopt <= Len(argv) + 1
      BY <1>2, <1>n
    <3> QED
      BY <1>6, <1>n, <2>1, <3>1, EmptyPart
  <2>4. Skipped' = SubSeq(argv, optind + 1, Len(argv))
    <3>1. Skipped' = SubSeq(argv, optind + 1, argc - 1)
      BY <1>1, <2>2, Zenon DEF Skipped, Exchanging
    <3>2. argc - 1 = Len(argv)
      BY <1>n
    <3> QED
      BY <3>1, <3>2, Zenon
  <2>5. SubSeq(args, optind + 1, Len(args)) = SubSeq(argv, optind + 1, Len(argv))
    <3>1. \A k \in optind + 1 .. Len(argv) : argv[k] = args[k]
      <4>1. \A k \in optind .. Len(argv) : argv[k] = args[k]
        BY <1>n, Zenon DEF Ahead, During
      <4> QED
        BY <1>n, <4>1
    <3>2. optind + 1 \in Nat /\ 1 <= optind + 1 /\ optind + 1 <= Len(argv) + 1
      BY <1>n
    <3> QED
      BY <1>n, <1>3, <3>1, <3>2, SameEnd
  <2>6. ToCome(g)' = g[Len(args) + 1]
    BY <1>1, <1>2, <1>n, <2>2 DEF ToCome
  <2>7. ToCome(g)'.options = <<>> /\ ToCome(g)'.operands = <<>>
    BY <1>3, <2>6, ScanEnd, Zenon
  <2>8. Skipped' = Skipped \o ToCome(g).operands /\ Skipped' \o <<>> = Skipped'
    <3>1. PICK w : w = SubSeq(argv, optind + 1, Len(argv))
      OBVIOUS
    <3>2. w \in Seq(Seq(Pieces))
      <4>1. optind + 1 \in Nat /\ 1 <= optind + 1
        BY <1>n
      <4>2. SubSeq(argv, optind + 1, Len(argv)) \in Seq(Seq(Pieces))
        BY ONLY <1>n, <4>1
      <4> QED
        BY <3>1, <4>2
    <3>3. <<>> \o w = w /\ w \o <<>> = w
      BY <3>2, ConcatEmptySeq, Zenon
    <3> QED
      BY <1>4, <1>5, <2>3, <2>4, <2>5, <3>1, <3>3, Zenon
  <2>9. Ahead'
    <3>1. \A k \in Len(args) + 1 .. Len(args) : FALSE
      BY <1>n
    <3> QED
      BY <1>1, <1>n, <2>2, <3>1, Zenon DEF Ahead
  <2> QED
    BY <1>1, <1>4, <1>5, <2>7, <2>8, <2>9, Zenon DEF During
<1> QED
  BY <1>7, <1>8

\* There are no more options.
LEMMA NoMoreEnds ==
  ASSUME GInv, GInv', NoMore, NEW g, ScanFrom(g, args), During(g)
  PROVE  Through(g)'
<1>0. Typed /\ Order /\ Modes /\ ordering \in {"PERMUTE", "REQUIRE_ORDER"}
  BY DEF GInv, Typed, Control
<1>1. UNCHANGED <<argv, nextchar, args, delivered>> /\ gpc = "element"
      /\ (optind < argc => ordering = "REQUIRE_ORDER" /\ NonOption(argv[optind]))
      /\ optind' = (IF optind = argc /\ first_nonopt # last_nonopt THEN first_nonopt ELSE optind)
  BY Zenon DEF NoMore, returned
<1>2. nextchar = <<>> /\ first_nonopt <= last_nonopt /\ last_nonopt <= optind
  BY <1>0, <1>1 DEF Typed, Control, Order
<1>n. /\ first_nonopt \in Nat /\ last_nonopt \in Nat /\ optind \in Nat /\ Len(argv) \in Nat
           /\ argv \in Seq(Seq(Pieces))
      /\ 1 <= first_nonopt /\ optind <= Len(argv) + 1 /\ argc = Len(argv) + 1 /\ Len(args) = Len(argv)
      /\ args \in Seq(Seq(Pieces))
  <2>1. /\ first_nonopt \in Nat /\ last_nonopt \in Nat /\ optind \in Nat /\ Len(argv) \in Nat
        /\ 1 <= first_nonopt /\ optind <= Len(argv) + 1 /\ argv \in Seq(Seq(Pieces))
    BY <1>0, NumbersOf
  <2>2. argc = Len(argv) + 1 /\ Len(args) = Len(argv)
    BY <1>0, Lengths
  <2>3. args \in Seq(Seq(Pieces))
    BY <1>0, ArgAssumption DEF Typed, Elements
  <2> QED
    BY <2>1, <2>2, <2>3, Zenon
<1>3. ToCome(g) = g[optind] /\ Skipped = SubSeq(argv, first_nonopt, last_nonopt - 1)
  BY <1>1, <1>2, ToComeElement, Zenon DEF Skipped, Exchanging
<1>4. first_nonopt = last_nonopt => Skipped = <<>>
  <2>1. first_nonopt <= Len(argv) + 1
    BY <1>2, <1>n
  <2> QED
    BY <1>3, <1>n, <2>1, EmptyPart
<1>e. /\ delivered \in Seq(Answers) /\ delivered \o <<>> = delivered
      /\ \A w \in Seq(Seq(Pieces)) : <<>> \o w = w /\ w \o <<>> = w
  BY ConcatEmptySeq DEF During
<1>5. CASE optind = argc
  <2>1. g[optind].options = <<>> /\ g[optind].operands = <<>>
    BY <1>n, <1>5, ScanEnd
  <2>2. Skipped \in Seq(Seq(Pieces))
    <3>1. last_nonopt <= Len(argv) + 1
      BY <1>2, <1>n
    <3> QED
      BY <1>2, <1>3, <1>n, <3>1, Part
  <2>3. g[1].options = delivered /\ g[1].operands = Skipped
    BY <1>3, <1>e, <2>1, <2>2, Zenon DEF During
  <2>4. Skipped = SubSeq(argv, optind', Len(argv))
    <3>1. argc - 1 = Len(argv) /\ Len(argv) + 1 - 1 = Len(argv)
      BY <1>n
    <3>2. CASE first_nonopt = last_nonopt
      <4>1. SubSeq(argv, Len(argv) + 1, Len(argv) + 1 - 1) = <<>>
        <5>1. Len(argv) + 1 \in Nat /\ 1 <= Len(argv) + 1 /\ Len(argv) + 1 <= Len(argv) + 1
          BY <1>n
        <5> QED
          BY <1>n, <5>1, EmptyPart
      <4>2. optind' = Len(argv) + 1
        BY <1>1, <1>n, <1>5, <3>2, Zenon
      <4> QED
        BY <1>4, <3>1, <3>2, <4>1, <4>2, Zenon
    <3>3. CASE first_nonopt # last_nonopt
      <4>1. last_nonopt = argc
        BY <1>0, <1>1, <1>5, <3>3 DEF Modes
      <4>2. optind' = first_nonopt
        BY <1>1, <1>5, <3>3, Zenon
      <4> QED
        BY <1>3, <3>1, <4>1, <4>2, Zenon
    <3> QED
      BY <3>2, <3>3
  <2> QED
    BY <1>1, <1>e, <2>3, <2>4, Zenon DEF Through
<1>6. CASE optind # argc
  <2>1. optind < argc /\ optind' = optind
    BY <1>1, <1>n, <1>6
  <2>2. ordering = "REQUIRE_ORDER" /\ NonOption(argv[optind])
    BY <1>1, <2>1
  <2>3. optind \in 1 .. Len(args) /\ args[optind] = argv[optind]
    BY <1>0, <2>1, NextElements DEF During
  <2>4. g[optind].options = <<>> /\ g[optind].operands = SubSeq(args, optind, Len(args))
    BY <1>n, <2>2, <2>3, ScanValue
  <2>5. first_nonopt = last_nonopt
    BY <1>0, <1>1, <1>6, <2>2 DEF Modes
  <2>6. SubSeq(args, optind, Len(args)) = SubSeq(argv, optind, Len(argv))
    <3>1. \A k \in optind .. Len(argv) : argv[k] = args[k]
      BY <1>n, Zenon DEF Ahead, During
    <3>2. 1 <= optind
      BY <2>3
    <3> QED
      BY <1>n, <3>1, <3>2, SameEnd
  <2>7. SubSeq(argv, optind, Len(argv)) \in Seq(Seq(Pieces))
    BY <1>n, <2>3
  <2>8. g[1].options = delivered /\ g[1].operands = SubSeq(argv, optind, Len(argv))
    BY <1>3, <1>4, <1>e, <2>4, <2>5, <2>6, <2>7, Zenon DEF During
  <2> QED
    BY <1>1, <1>e, <2>1, <2>8, Zenon DEF Through
<1> QED
  BY <1>5, <1>6

\* The element at i is of options: they come first.
LEMMA OptionValue ==
  ASSUME NEW a \in Seq(Seq(Pieces)), NEW g, ScanFrom(g, a), NEW i \in 1 .. Len(a),
         ~ IsEnd(a[i]), ~ NonOption(a[i])
  PROVE  LET m == ElementMeaning(a[i], After(a, i))
             j == IF m.takes THEN i + 2 ELSE i + 1
         IN g[i].options = m.options \o g[j].options /\ g[i].operands = g[j].operands
BY ScanValue

\* A cluster begins: its letters mean what the element does.
LEMMA ShortElementKeeps ==
  ASSUME GInv, GInv', ShortElement, NEW g, ScanFrom(g, args), During(g)
  PROVE  During(g)'
<1>0. Typed /\ Typed'
  BY DEF GInv
<1>1. UNCHANGED <<argv, optind, first_nonopt, last_nonopt, args, delivered>>
      /\ gpc = "element" /\ gpc' = "letter" /\ nextchar' = Tail(argv[optind]) /\ optind # argc
      /\ ~ NonOption(argv[optind]) /\ argv[optind][2] # "-"
  BY Zenon DEF ShortElement, returned
<1>2. nextchar = <<>> /\ nextchar' # <<>>
  BY <1>0, <1>1 DEF Typed, Control
<1>3. optind < argc
  BY <1>0, <1>1, Numbers
<1>4. optind \in 1 .. Len(args) /\ args \in Seq(Seq(Pieces)) /\ args[optind] = argv[optind]
        /\ argv[optind] \in Seq(Pieces)
  BY <1>0, <1>3, NextElements DEF During
<1>5. ~ IsLong(argv[optind]) /\ ~ IsEnd(argv[optind])
  <2>1. PICK e : e = argv[optind]
    OBVIOUS
  <2>2. e # <<"-", "-">>
    <3>1. e[2] # "-" /\ <<"-", "-">>[2] = "-"
      BY <1>1, <2>1
    <3> QED
      BY <3>1, Zenon
  <2> QED
    BY <1>1, <2>1, <2>2, Zenon DEF IsLong, IsEnd
<1>6. PICK m : m = ShortMeaning(Tail(argv[optind]), After(args, optind))
  OBVIOUS
<1>7. ElementMeaning(args[optind], After(args, optind)) = m
  BY <1>4, <1>5, <1>6, Zenon DEF ElementMeaning
<1>8. PICK r : r = g[IF m.takes THEN optind + 2 ELSE optind + 1]
  OBVIOUS
<1>9. g[optind].options = m.options \o r.options /\ g[optind].operands = r.operands
  <2>1. ~ IsEnd(args[optind]) /\ ~ NonOption(args[optind])
    BY <1>1, <1>4, <1>5, Zenon
  <2>2. LET n == ElementMeaning(args[optind], After(args, optind))
            j == IF n.takes THEN optind + 2 ELSE optind + 1
        IN g[optind].options = n.options \o g[j].options /\ g[optind].operands = g[j].operands
    BY <1>4, <2>1, OptionValue
  <2> QED
    BY <1>7, <1>8, <2>2, Zenon
<1>10. ToCome(g) = g[optind]
  BY <1>1, <1>2, ToComeElement
<1>11. ToCome(g)'.options = m.options \o r.options /\ ToCome(g)'.operands = r.operands
  <2>1. PICK v : v = ToCome(g)'
    OBVIOUS
  <2>2. PICK os, ws : os = m.options \o r.options /\ ws = r.operands
    OBVIOUS
  <2>3. After(args, optind)' = After(args, optind)
    BY <1>1, Zenon DEF After
  <2>4. v = [options |-> os, operands |-> ws]
    <3>1. gpc' # "exchange_rest"
      BY <1>1
    <3>2. m = ShortMeaning(nextchar', After(args, optind)')
      BY <1>1, <1>6, <2>3, Zenon
    <3>3. r = g[IF m.takes THEN optind' + 2 ELSE optind' + 1]
      BY <1>1, <1>8, Zenon
    <3> QED
      BY <1>2, <2>1, <2>2, <3>1, <3>2, <3>3, Zenon DEF ToCome
  <2>5. v.options = os /\ v.operands = ws
    BY ONLY <2>4
  <2> QED
    BY <2>1, <2>2, <2>5, Zenon
<1>12. Skipped' = Skipped
  BY <1>1, SkippedSame DEF Exchanging
<1>13. Ahead'
  BY <1>1, Zenon DEF Ahead, During
<1> QED
  BY <1>1, <1>9, <1>10, <1>11, <1>12, <1>13, Zenon DEF During

\* The next letter, or the next call, of the same.
LEMMA SameKeeps ==
  ASSUME UNCHANGED <<argv, optind, nextchar, first_nonopt, last_nonopt, args, delivered>>,
         gpc \in {"call", "return"}, gpc' \in {"call", "letter"}, NEW g, During(g)
  PROVE  During(g)'
<1>1. ToCome(g)' = ToCome(g)
  BY DEF ToCome, After
<1>2. Skipped' = Skipped
  BY SkippedSame DEF Exchanging
<1>3. Ahead'
  BY Zenon DEF Ahead, During
<1> QED
  BY <1>1, <1>2, <1>3, Zenon DEF During

\* The function is the same in the next state.
LEMMA ScanFromSame ==
  ASSUME UNCHANGED <<args, ordering>>, NEW g
  PROVE  ScanFrom(g, args)' = ScanFrom(g, args)
BY Zenon DEF ScanFrom

\* What is to come is typed, whatever the function.
LEMMA ToComeTyped == \A f : Typed /\ ScanFrom(f, args) => ToCome(f).options \in Seq(Answers)
BY ToComeType, Zenon

\* And so it is in the next state.
LEMMA ToComeTypedNext == \A f : (Typed /\ ScanFrom(f, args))' => ToCome(f)'.options \in Seq(Answers)
<1>1. (\A f : Typed /\ ScanFrom(f, args) => ToCome(f).options \in Seq(Answers))'
  BY ToComeTyped, PTL
<1> QED
  BY <1>1

\* What is to come after a step is typed.
LEMMA ToComeNext ==
  ASSUME Typed', NEW g, ScanFrom(g, args), UNCHANGED <<args, ordering>>
  PROVE  ToCome(g)'.options \in Seq(Answers)
<1>1. ScanFrom(g, args)'
  BY ScanFromSame, Zenon
<1> QED
  BY <1>1, ToComeTypedNext, Zenon

\* Options are delivered: they are no longer to come.
LEMMA AnsweredKeeps ==
  ASSUME GInv, GInv', NEW g, ScanFrom(g, args), During(g), NEW ms \in Seq(Answers),
         delivered' = delivered \o ms,
         UNCHANGED <<argv, ordering, first_nonopt, last_nonopt, args>>,
         gpc \in {"element", "letter"}, gpc' = "return", optind <= optind',
         ToCome(g).options = ms \o ToCome(g)'.options, ToCome(g).operands = ToCome(g)'.operands
  PROVE  During(g)'
<1>0. Typed /\ Typed'
  BY DEF GInv
<1>1. Skipped' = Skipped
  BY SkippedSame DEF Exchanging
<1>2. ToCome(g)'.options \in Seq(Answers)
  BY <1>0, ToComeNext
<1>3. delivered \in Seq(Answers) /\ delivered' \in Seq(Answers)
  <2>1. delivered \in Seq(Answers)
    BY DEF During
  <2>2. delivered \o ms \in Seq(Answers)
    BY <2>1, ConcatProperties, Zenon
  <2> QED
    BY <2>1, <2>2, Zenon
<1>4. delivered \o (ms \o ToCome(g)'.options) = (delivered \o ms) \o ToCome(g)'.options
  <2>1. \A a, b, c \in Seq(Answers) : (a \o b) \o c = a \o (b \o c)
    <3>1. Regroups(Answers)
      BY Reassociate, Zenon
    <3> QED
      BY ONLY <3>1, Zenon DEF Regroups
  <2>2. ms \in Seq(Answers)
    OBVIOUS
  <2>3. delivered \in Seq(Answers)
    BY <1>3
  <2> QED
    BY ONLY <1>2, <2>1, <2>2, <2>3, Zenon
<1>5. Ahead'
  <2>1. optind \in Nat /\ optind' \in Nat /\ Len(args) \in Nat
    <3>1. optind \in Nat /\ optind' \in Nat
      BY <1>0, NumbersOf, NumbersNext
    <3>2. Len(args) \in Nat
      BY <1>0, Lengths, Zenon
    <3> QED
      BY <3>1, <3>2
  <2>2. \A k \in optind' .. Len(args) : k \in optind .. Len(args)
    BY <2>1
  <2> QED
    BY <2>2, Zenon DEF Ahead, During
<1> QED
  BY <1>1, <1>3, <1>4, <1>5, Zenon DEF During

\* One answer more.
LEMMA Appended ==
  ASSUME delivered \in Seq(Answers), NEW x, x \in Answers
  PROVE  Append(delivered, x) = delivered \o <<x>> /\ <<x>> \in Seq(Answers)
<1>1. PICK d \in Seq(Answers) : d = delivered
  OBVIOUS
<1>2. Append(d, x) = d \o <<x>> /\ <<x>> \in Seq(Answers)
  OBVIOUS
<1> QED
  BY <1>1, <1>2, Zenon

\* The argument of a letter or of a long option is what it means.
LEMMA AppendIs ==
  ASSUME delivered \in Seq(Answers), NEW v, NEW a, Deliver(v, a), NEW ms \in Seq(Answers),
           ms = << <<v, a>> >>
  PROVE  delivered' = delivered \o ms
<1>1. PICK x : x = <<v, a>>
  OBVIOUS
<1>2. x \in Answers
  <2>1. Len(ms) = 1 /\ ms[1] = x
    BY <1>1
  <2> QED
    BY <2>1
<1>3. delivered' = Append(delivered, x)
  BY <1>1, Zenon DEF Deliver
<1> QED
  BY <1>1, <1>2, <1>3, Appended, Zenon

\* A long option is answered with what it means.
LEMMA LongAnswer ==
  ASSUME Typed, Ahead, delivered \in Seq(Answers), LongOption
  PROVE  LET m == ElementMeaning(args[optind], After(args, optind)) IN
         delivered' = delivered \o m.options /\ optind' = IF m.takes THEN optind + 2 ELSE optind + 1
<1>1. gpc = "element" /\ optind # argc /\ IsLong(argv[optind])
  BY Zenon DEF LongOption
<1>2. optind < argc
  BY <1>1, Numbers
<1>3. /\ args[optind] = argv[optind] /\ argv[optind] \in Seq(Pieces)
      /\ After(args, optind) = (IF optind + 1 < argc THEN <<argv[optind + 1]>> ELSE <<>>)
      /\ After(args, optind) \in Optional(Seq(Pieces))
  BY <1>2, NextElements
<1>4. PICK name, arg, next, found :
        /\ name = NameOf(argv[optind]) /\ arg = ArgumentOf(argv[optind]) /\ next = After(args, optind)
        /\ found = Meanings(Candidates(name))
  OBVIOUS
<1>5. arg \in Optional(Seq(Pieces)) /\ next \in Optional(Seq(Pieces)) /\ IsFiniteSet(found)
  BY <1>3, <1>4, ArgumentType, MeaningsType
<1>6. PICK m : m = LongMeaning(found, arg, next)
  OBVIOUS
<1>7. m.options \in Seq(Answers)
  BY <1>4, <1>5, <1>6, LongType
<1>8. ElementMeaning(args[optind], After(args, optind)) = m
  BY <1>1, <1>3, <1>4, <1>6, Zenon DEF ElementMeaning
<1>9. delivered' = delivered \o m.options /\ optind' = IF m.takes THEN optind + 2 ELSE optind + 1
  <2>1. CASE Cardinality(found) # 1
    <3>1. Deliver("?", <<>>) /\ optind' = optind + 1
      BY <1>4, <2>1, Zenon DEF LongOption
    <3>2. m.options = << <<"?", <<>> >> >> /\ m.takes = FALSE
      BY <1>6, <2>1, LongUnknown, Zenon
    <3> QED
      BY <1>7, <3>1, <3>2, AppendIs, Zenon
  <2>2. CASE Cardinality(found) = 1
    <3>1. PICK h : found = {h} /\ (CHOOSE f \in found : TRUE) = h
      BY <1>5, <2>2, OneMeaning, Zenon
    <3>2. ASSUME NEW takes \in BOOLEAN, takes <=> (arg = <<>> /\ h[1] = "required_argument"),
                 NEW good \in BOOLEAN,
                   good <=> ((arg # <<>> => h[1] # "no_argument") /\ (takes => next # <<>>))
          PROVE  /\ m.options = IF good THEN << <<h[2], IF takes THEN next ELSE arg>> >> ELSE << <<"?", <<>> >> >>
                 /\ m.takes = (good /\ takes)
      BY <1>5, <1>6, <2>2, <3>1, <3>2, LongKnown
    <3>3. CASE arg # <<>> /\ h[1] = "no_argument"
      <4>1. Deliver("?", <<>>) /\ optind' = optind + 1
        BY <1>4, <3>1, <3>3, Zenon DEF LongOption
      <4>2. m.options = << <<"?", <<>> >> >> /\ m.takes = FALSE
        BY <3>2, <3>3
      <4> QED
        BY <1>7, <4>1, <4>2, AppendIs, Zenon
    <3>4. CASE arg = <<>> /\ h[1] = "required_argument" /\ optind + 1 < argc
      <4>1. Deliver(h[2], <<argv[optind + 1]>>) /\ optind' = optind + 2
        BY <1>4, <2>2, <3>1, <3>4, Zenon DEF LongOption
      <4>2. next = <<argv[optind + 1]>> /\ next # <<>>
        BY <1>3, <1>4, <3>4
      <4>3. m.options = << <<h[2], next>> >> /\ m.takes = TRUE
        BY <3>2, <3>4, <4>2
      <4> QED
        BY <1>7, <4>1, <4>2, <4>3, AppendIs, Zenon
    <3>5. CASE arg = <<>> /\ h[1] = "required_argument" /\ ~ (optind + 1 < argc)
      <4>1. Deliver("?", <<>>) /\ optind' = optind + 1
        BY <1>4, <2>2, <3>1, <3>5, Zenon DEF LongOption
      <4>2. next = <<>>
        BY <1>3, <1>4, <3>5, Zenon
      <4>3. m.options = << <<"?", <<>> >> >> /\ m.takes = FALSE
        BY <3>2, <3>5, <4>2
      <4> QED
        BY <1>7, <4>1, <4>3, AppendIs, Zenon
    <3>6. CASE ~ (arg # <<>> /\ h[1] = "no_argument") /\ ~ (arg = <<>> /\ h[1] = "required_argument")
      <4>1. Deliver(h[2], arg) /\ optind' = optind + 1
        BY <1>4, <2>2, <3>1, <3>6, Zenon DEF LongOption
      <4>2. m.options = << <<h[2], arg>> >> /\ m.takes = FALSE
        BY <3>2, <3>6
      <4> QED
        BY <1>7, <4>1, <4>2, AppendIs, Zenon
    <3> QED
      BY <3>3, <3>4, <3>5, <3>6, Zenon
  <2> QED
    BY <2>1, <2>2, Zenon
<1> QED
  BY <1>8, <1>9, Zenon

\* A long option.
LEMMA LongOptionKeeps ==
  ASSUME GInv, GInv', LongOption, NEW g, ScanFrom(g, args), During(g)
  PROVE  During(g)'
<1>0. Typed /\ Typed'
  BY DEF GInv
<1>1. UNCHANGED <<first_nonopt, last_nonopt>> /\ nextchar' = <<>> /\ gpc = "element"
        /\ optind # argc /\ IsLong(argv[optind])
  BY Zenon DEF LongOption
<1>2. UNCHANGED <<argv, ordering, args>> /\ gpc' = "return"
  <2>1. \E v, a : Deliver(v, a)
    BY Zenon DEF LongOption
  <2> QED
    BY <2>1, Zenon DEF Deliver
<1>3. optind < argc /\ nextchar = <<>> /\ delivered \in Seq(Answers) /\ Ahead
  <2>1. optind < argc
    BY <1>0, <1>1, Numbers
  <2> QED
    BY <1>0, <1>1, <2>1 DEF Typed, Control, During
<1>4. /\ optind \in 1 .. Len(args) /\ args \in Seq(Seq(Pieces)) /\ args[optind] = argv[optind]
      /\ argv[optind] \in Seq(Pieces) /\ After(args, optind) \in Optional(Seq(Pieces))
  BY <1>0, <1>3, NextElements
<1>5. ~ IsEnd(args[optind]) /\ ~ NonOption(args[optind])
  <2>0. \A n \in Nat : n > 2 => n # 2 /\ n > 1
    OBVIOUS
  <2>1. PICK e \in Seq(Pieces) : e = args[optind]
    BY <1>4
  <2>2. Len(e) > 2 /\ e[1] = "-"
    BY <1>1, <1>4, <2>1, Zenon DEF IsLong
  <2>3. e # <<"-", "-">>
    <3>1. Len(<<"-", "-">>) = 2
      OBVIOUS
    <3>2. Len(e) \in Nat
      BY <2>1
    <3>3. Len(e) # 2
      BY <2>0, <2>2, <3>2, Zenon
    <3> QED
      BY <3>1, <3>3, Zenon
  <2>4. Len(e) > 1
    <3>1. Len(e) \in Nat
      BY <2>1
    <3> QED
      BY <2>0, <2>2, <3>1, Zenon
  <2> QED
    BY <2>1, <2>2, <2>3, <2>4, Zenon DEF IsEnd, NonOption
<1>6. PICK m : m = ElementMeaning(args[optind], After(args, optind))
  OBVIOUS
<1>7. m.options \in Seq(Answers)
  BY <1>4, <1>5, <1>6, MeaningType
<1>8. delivered' = delivered \o m.options /\ optind' = IF m.takes THEN optind + 2 ELSE optind + 1
  BY <1>0, <1>3, <1>6, LongAnswer
<1>9. g[optind].options = m.options \o g[optind'].options /\ g[optind].operands = g[optind'].operands
  <2>1. LET n == ElementMeaning(args[optind], After(args, optind))
            j == IF n.takes THEN optind + 2 ELSE optind + 1
        IN g[optind].options = n.options \o g[j].options /\ g[optind].operands = g[j].operands
    BY <1>4, <1>5, OptionValue
  <2> QED
    BY <1>6, <1>8, <2>1, Zenon
<1>10. ToCome(g) = g[optind] /\ ToCome(g)' = g[optind']
  <2>1. gpc # "exchange_rest" /\ gpc' # "exchange_rest"
    BY <1>1, <1>2
  <2> QED
    BY <1>1, <1>3, <2>1, Zenon DEF ToCome
<1>11. optind <= optind'
  <2>1. optind \in Nat
    BY <1>4
  <2> QED
    BY <1>8, <2>1
<1>12. ToCome(g).options = m.options \o ToCome(g)'.options /\ ToCome(g).operands = ToCome(g)'.operands
  BY <1>9, <1>10, Zenon
<1>13. gpc \in {"element", "letter"}
  BY <1>1
<1> QED
  BY <1>1, <1>2, <1>7, <1>8, <1>11, <1>12, <1>13, AnsweredKeeps

\* A letter.
LEMMA ShortOptionKeeps ==
  ASSUME GInv, GInv', ShortOption, NEW g, ScanFrom(g, args), During(g)
  PROVE  During(g)'
<1>0. Typed /\ Typed'
  BY DEF GInv
<1>1. UNCHANGED <<first_nonopt, last_nonopt>> /\ gpc = "letter"
  BY Zenon DEF ShortOption
<1>2. UNCHANGED <<argv, ordering, args>> /\ gpc' = "return"
  <2>1. \E v, a : Deliver(v, a)
    BY Zenon DEF ShortOption
  <2> QED
    BY <2>1, Zenon DEF Deliver
<1>3. nextchar # <<>> /\ nextchar \in Seq(Pieces) /\ delivered \in Seq(Answers) /\ Ahead
        /\ optind < argc
  BY <1>0, <1>1, Zenon DEF Typed, Control, Elements, Letters, During
<1>4. /\ optind \in 1 .. Len(args) /\ args \in Seq(Seq(Pieces))
           /\ After(args, optind) \in Optional(Seq(Pieces))
      /\ After(args, optind) = (IF optind + 1 < argc THEN <<argv[optind + 1]>> ELSE <<>>)
  BY <1>0, <1>3, NextElements
<1>5. PICK c, rest, next : c = Head(nextchar) /\ rest = Tail(nextchar) /\ next = After(args, optind)
  OBVIOUS
<1>6. rest \in Seq(Pieces) /\ next \in Optional(Seq(Pieces))
  BY <1>3, <1>4, <1>5
<1>n. optind \in Nat /\ argc \in Nat /\ optind < argc
  BY <1>0, <1>3, Numbers
<1>7. PICK m, r : m = ShortMeaning(nextchar, next) /\ r = g[IF m.takes THEN optind + 2 ELSE optind + 1]
  OBVIOUS
<1>8. m.options \in Seq(Answers)
  BY <1>3, <1>6, <1>7, ClusterType
<1>9. gpc # "exchange_rest" /\ gpc' # "exchange_rest" /\ gpc \in {"element", "letter"}
  BY <1>1, <1>2
<1>10. ToCome(g).options = m.options \o r.options /\ ToCome(g).operands = r.operands
  BY <1>3, <1>5, <1>7, <1>9, ToComeCluster
\* The last letter of the element, or the one that takes an argument.
<1>11. ASSUME nextchar' = <<>>, delivered' = delivered \o m.options,
              optind' = IF m.takes THEN optind + 2 ELSE optind + 1
       PROVE  During(g)'
  <2>1. ToCome(g)' = r
    BY <1>7, <1>9, <1>11, Zenon DEF ToCome
  <2>2. optind <= optind'
    BY <1>n, <1>11
  <2> QED
    BY <1>1, <1>2, <1>8, <1>9, <1>10, <1>11, <2>1, <2>2, AnsweredKeeps
<1>12. CASE TakesArgument(c)
  <2>1. c \in DOMAIN ShortOptions /\ ShortOptions[c] # "no_argument"
    BY <1>12, Zenon DEF TakesArgument
  <2>2. LET needs == rest = <<>> /\ ShortOptions[c] = "required_argument"
        IN /\ m.options = IF needs THEN IF next = <<>> THEN << <<"?", <<>> >> >> ELSE << <<c, next>> >>
                          ELSE << <<c, IF rest = <<>> THEN <<>> ELSE <<rest>> >> >>
           /\ m.takes = (needs /\ next # <<>>)
    <3>1. TakesArgument(Head(nextchar))
      BY <1>5, <1>12, Zenon
    <3>2. LET needs == Tail(nextchar) = <<>> /\ ShortOptions[Head(nextchar)] = "required_argument"
          IN /\ ShortMeaning(nextchar, next).options =
                  IF needs THEN IF next = <<>> THEN << <<"?", <<>> >> >> ELSE << <<Head(nextchar), next>> >>
                  ELSE << <<Head(nextchar), IF Tail(nextchar) = <<>> THEN <<>> ELSE <<Tail(nextchar)>> >> >>
             /\ ShortMeaning(nextchar, next).takes = (needs /\ next # <<>>)
      BY <1>3, <1>6, <3>1, ClusterOfArgument
    <3> QED
      BY <1>5, <1>7, <3>2, Zenon
  <2>3. ShortOptions[c] \in {"required_argument", "optional_argument"}
    BY <2>1, ShortAssumption DEF HasArg
  <2>4. nextchar' = <<>>
    BY <1>5, <2>1, Zenon DEF ShortOption
  <2>5. CASE rest # <<>> \/ ShortOptions[c] = "optional_argument"
    <3>1. Deliver(c, IF rest = <<>> THEN <<>> ELSE <<rest>>) /\ optind' = optind + 1
      BY <1>5, <2>1, <2>5, Zenon DEF ShortOption
    <3>2. ~ (rest = <<>> /\ ShortOptions[c] = "required_argument")
      BY <2>5
    <3>3. m.options = << <<c, IF rest = <<>> THEN <<>> ELSE <<rest>> >> >> /\ ~ m.takes
      BY <2>2, <3>2, Zenon
    <3>4. delivered' = delivered \o m.options
      BY <1>3, <1>8, <3>1, <3>3, AppendIs, Zenon
    <3> QED
      BY <1>11, <2>4, <3>1, <3>3, <3>4, Zenon
  <2>6. CASE rest = <<>> /\ ShortOptions[c] = "required_argument" /\ optind + 1 = argc
    <3>1. Deliver("?", <<>>) /\ optind' = optind + 1
      <4>1. ShortOptions[c] # "optional_argument"
        BY <2>6
      <4> QED
        BY <1>5, <2>1, <2>6, <4>1, Zenon DEF ShortOption
    <3>2. next = <<>>
      BY <1>4, <1>5, <1>n, <2>6
    <3>3. m.options = << <<"?", <<>> >> >> /\ ~ m.takes
      BY <2>2, <2>6, <3>2, Zenon
    <3>4. delivered' = delivered \o m.options
      BY <1>3, <1>8, <3>1, <3>3, AppendIs, Zenon
    <3> QED
      BY <1>11, <2>4, <3>1, <3>3, <3>4, Zenon
  <2>7. CASE rest = <<>> /\ ShortOptions[c] = "required_argument" /\ optind + 1 # argc
    <3>1. Deliver(c, <<argv[optind + 1]>>) /\ optind' = optind + 2
      <4>1. ShortOptions[c] # "optional_argument"
        BY <2>7
      <4> QED
        BY <1>5, <2>1, <2>7, <4>1, Zenon DEF ShortOption
    <3>2. next = <<argv[optind + 1]>> /\ next # <<>>
      BY <1>4, <1>5, <1>n, <2>7
    <3>3. m.options = << <<c, <<argv[optind + 1]>> >> >> /\ m.takes
      BY <2>2, <2>7, <3>2, Zenon
    <3>4. delivered' = delivered \o m.options
      BY <1>3, <1>8, <3>1, <3>3, AppendIs, Zenon
    <3> QED
      BY <1>11, <2>4, <3>1, <3>3, <3>4, Zenon
  <2> QED
    BY <2>3, <2>5, <2>6, <2>7
<1>13. CASE ~ TakesArgument(c)
  <2>1. ~ (c \in DOMAIN ShortOptions /\ ShortOptions[c] # "no_argument")
    BY <1>13, Zenon DEF TakesArgument
  <2>2. /\ Deliver(IF c \in DOMAIN ShortOptions THEN c ELSE "?", <<>>)
        /\ nextchar' = rest /\ optind' = IF rest = <<>> THEN optind + 1 ELSE optind
    BY <1>5, <2>1, Zenon DEF ShortOption
  <2>3. ~ TakesArgument(Head(nextchar))
          /\ Flag(c) = <<IF c \in DOMAIN ShortOptions THEN c ELSE "?", <<>> >>
    BY <1>5, <1>13, Zenon DEF Flag
  <2>4. <<Flag(c)>> \in Seq(Answers)
    <3>1. Flag(c) \in Answers
      BY DEF Flag, Answers, Optional
    <3> QED
      BY <3>1
  <2>5. delivered' = delivered \o <<Flag(c)>>
    BY <1>3, <2>2, <2>3, <2>4, AppendIs, Zenon
  <2>6. CASE rest = <<>>
    <3>1. m.options = <<Flag(c)>> /\ ~ m.takes
      BY <1>3, <1>5, <1>7, <2>3, <2>6, ClusterOfFlag, Zenon
    <3> QED
      BY <1>11, <2>2, <2>5, <2>6, <3>1, Zenon
  <2>7. CASE rest # <<>>
    <3>1. PICK k : k = ShortMeaning(rest, next)
      OBVIOUS
    <3>2. k.options \in Seq(Answers)
      BY <1>6, <3>1, ClusterType
    <3>3. m.options = <<Flag(c)>> \o k.options /\ m.takes = k.takes
      BY <1>3, <1>5, <1>6, <1>7, <2>3, <3>1, ClusterOfFlagAnd, Zenon
    <3>4. optind' = optind /\ After(args, optind)' = next
      BY <1>2, <1>5, <2>2, <2>7, Zenon DEF After
    <3>5. ToCome(g)'.options = k.options \o r.options /\ ToCome(g)'.operands = r.operands
      <4>1. PICK v, os, ws : v = ToCome(g)' /\ os = k.options \o r.options /\ ws = r.operands
        OBVIOUS
      <4>2. k = ShortMeaning(nextchar', After(args, optind)')
              /\ r = g[IF k.takes THEN optind' + 2 ELSE optind' + 1]
            /\ nextchar' # <<>>
        BY <1>7, <2>2, <2>7, <3>1, <3>3, <3>4, Zenon
      <4>3. v = [options |-> os, operands |-> ws]
        BY <1>9, <4>1, <4>2, Zenon DEF ToCome
      <4>4. v.options = os /\ v.operands = ws
        BY ONLY <4>3
      <4> QED
        BY <4>1, <4>4, Zenon
    <3>6. r.options \in Seq(Answers)
      <4>1. optind + 1 \in 1 .. Len(args) + 2 /\ optind + 2 \in 1 .. Len(args) + 2
        BY <1>4
      <4>2. r \in Contents
        BY <1>4, <1>7, <4>1, ScanType, Zenon
      <4> QED
        BY <4>2 DEF Contents
    <3>7. ToCome(g).options = <<Flag(c)>> \o ToCome(g)'.options
      <4>1. \A x, y, z \in Seq(Answers) : (x \o y) \o z = x \o (y \o z)
        <5>1. Regroups(Answers)
          BY Reassociate, Zenon
        <5> QED
          BY ONLY <5>1, Zenon DEF Regroups
      <4>2. (<<Flag(c)>> \o k.options) \o r.options = <<Flag(c)>> \o (k.options \o r.options)
        BY ONLY <2>4, <3>2, <3>6, <4>1, Zenon
      <4> QED
        BY ONLY <1>10, <3>3, <3>5, <4>2, Zenon
    <3>8. ToCome(g).operands = ToCome(g)'.operands /\ optind <= optind'
      BY <1>10, <1>n, <3>4, <3>5
    <3> QED
      BY <1>1, <1>2, <1>9, <2>4, <2>5, <3>7, <3>8, AnsweredKeeps
  <2> QED
    BY <2>6, <2>7
<1> QED
  BY <1>12, <1>13

-----------------------------------------------------------------------------
(* The scan delivers what the command line means.  *)

\* At first everything is to come.
LEMMA SInvInit == Init => SInv
<1> SUFFICES ASSUME Init, NEW g, ScanFrom(g, args)
             PROVE  IF gpc = "done" THEN Through(g) ELSE During(g)
  BY DEF SInv
<1>1. GetOptInit
  BY DEF Init
<1>2. /\ gpc = "call" /\ first_nonopt = 1 /\ last_nonopt = 1 /\ optind = 1 /\ nextchar = <<>>
      /\ argv \in ArgLists /\ args = argv /\ delivered = <<>>
  BY <1>1, Zenon DEF GetOptInit
<1>3. argv \in Seq(Seq(Pieces)) /\ Len(argv) \in Nat
  BY <1>2, ArgAssumption
<1>4. ToCome(g) = g[1]
  BY <1>2 DEF ToCome
<1>5. Skipped = <<>>
  <2>1. Skipped = SubSeq(argv, 1, 1 - 1)
    BY <1>2 DEF Skipped, Exchanging
  <2>2. SubSeq(argv, 1, 1 - 1) = <<>>
    <3>1. 1 \in Nat /\ 1 <= 1 /\ 1 <= Len(argv) + 1
      BY <1>3
    <3> QED
      BY <1>3, <3>1, EmptyPart
  <2> QED
    BY <2>1, <2>2, Zenon
<1>6. g[1].options \in Seq(Answers) /\ g[1].operands \in Seq(Seq(Pieces))
  <2>1. 1 \in 1 .. Len(args) + 2
    BY <1>2, <1>3
  <2>2. args \in Seq(Seq(Pieces))
    BY <1>2, <1>3, Zenon
  <2>3. g[1] \in Contents
    BY <2>1, <2>2, ScanType, Zenon
  <2> QED
    BY <2>3 DEF Contents
<1>7. <<>> \o g[1].options = g[1].options /\ <<>> \o g[1].operands = g[1].operands
        /\ <<>> \in Seq(Answers)
  BY <1>6, ConcatEmptySeq
<1>8. gpc # "done" /\ Ahead
  BY <1>2 DEF Ahead
<1> QED
  BY <1>2, <1>4, <1>5, <1>7, <1>8, Zenon DEF During

\* A step of getopt_long.
LEMMA GetOptStep ==
  ASSUME GInv, GInv', GetOptNext, NEW g, ScanFrom(g, args), During(g), gpc # "done"
  PROVE  IF gpc' = "done" THEN Through(g)' ELSE During(g)'
<1>1. CASE NextElement \/ Exchange \/ ExchangeEnds \/ SkipNonOption \/ SkipEnds \/ DashDash
  <2>1. gpc' # "done"
    <3>1. CASE NextElement
      <4>1. gpc' \in {"exchange", "skip", "element"}
        BY <3>1, Zenon DEF NextElement, StartExchange
      <4> QED
        BY <4>1
    <3>2. CASE Exchange
      BY <3>2, Zenon DEF Exchange
    <3>3. CASE ExchangeEnds
      <4>1. gpc' \in {"skip", "element"}
        BY <3>3, Zenon DEF ExchangeEnds
      <4> QED
        BY <4>1
    <3>4. CASE SkipNonOption
      BY <3>4, Zenon DEF SkipNonOption
    <3>5. CASE SkipEnds
      <4>1. gpc' = "element"
        BY <3>5, Zenon DEF SkipEnds
      <4> QED
        BY <4>1
    <3>6. CASE DashDash
      <4>1. gpc' \in {"exchange_rest", "element"}
        BY <3>6, Zenon DEF DashDash, StartExchange
      <4> QED
        BY <4>1
    <3> QED
      BY <1>1, <3>1, <3>2, <3>3, <3>4, <3>5, <3>6, Zenon
  <2>2. During(g)'
    BY <1>1, NextElementKeeps, ExchangeKeeps, ExchangeEndsKeeps, SkipKeeps, SkipEndsKeeps,
         DashDashKeeps, Zenon
  <2> QED
    BY <2>1, <2>2, Zenon
<1>2. CASE NoMore
  <2>1. gpc' = "done"
    BY <1>2, Zenon DEF NoMore
  <2> QED
    BY <1>2, <2>1, NoMoreEnds, Zenon
<1>3. CASE LongOption \/ ShortOption
  <2>1. \E v, a : Deliver(v, a)
    BY <1>3, Zenon DEF LongOption, ShortOption
  <2>2. gpc' = "return"
    BY <2>1, Zenon DEF Deliver
  <2>3. During(g)'
    BY <1>3, LongOptionKeeps, ShortOptionKeeps, Zenon
  <2> QED
    BY <2>2, <2>3
<1>4. CASE ShortElement
  <2>1. gpc' = "letter"
    BY <1>4, Zenon DEF ShortElement
  <2> QED
    BY <1>4, <2>1, ShortElementKeeps
<1>5. CASE NextLetter
  <2>1. UNCHANGED <<argv, optind, nextchar, first_nonopt, last_nonopt, args, delivered>>
          /\ gpc = "call" /\ gpc' = "letter"
    BY <1>5, Zenon DEF NextLetter, scan, returned
  <2> QED
    BY <2>1, SameKeeps
<1> QED
  BY <1>1, <1>2, <1>3, <1>4, <1>5, Zenon DEF GetOptNext

\* When the scan is through, main goes on with the operands once it has chosen
\* the backups.
LEMMA DoneStep ==
  ASSUME [Next]_vars, gpc = "done"
  PROVE  /\ gpc' = "done" /\ UNCHANGED <<argv, args, delivered>>
         /\ backup_method' = "" => backup_method = "" /\ UNCHANGED optind
<1>1. CASE UNCHANGED vars
  BY <1>1, Zenon DEF vars, getopt_vars, scan, returned, backups
<1>2. CASE GetOptNext
  <2>1. gpc \in {"call", "exchange", "exchange_rest", "skip", "element", "letter"}
    BY <1>2, Zenon DEF GetOptNext, NextElement, Exchange, ExchangeEnds, SkipNonOption, SkipEnds,
         DashDash, NoMore,
                       LongOption, ShortElement, NextLetter, ShortOption
  <2> QED
    BY <2>1
<1>3. CASE Switch
  <2>1. gpc = "return"
    BY <1>3, Zenon DEF Switch
  <2> QED
    BY <2>1
<1>4. CASE Usage \/ Information \/ Dispatch \/ MallocFails
  BY <1>4, Zenon DEF Usage, Information, Dispatch, MallocFails, EndsWith, getopt_vars, scan,
       returned, backups
<1>5. CASE ChooseBackups
  <2>1. EndsWith("") \/ EndsWith("failure")
    BY <1>5, Zenon DEF ChooseBackups
  <2>2. UNCHANGED getopt_vars
    BY <2>1, Zenon DEF EndsWith
  <2>3. backup_method = ""
    BY <1>5, Zenon DEF ChooseBackups, Scanned
  <2> QED
    BY <2>2, <2>3, Zenon DEF getopt_vars, scan, returned
<1>6. CASE TakeOperand
  <2>1. UNCHANGED <<argv, gpc, args, delivered, backup_method>> /\ backup_method # ""
    BY <1>6, Zenon DEF TakeOperand, Chosen, backups, returned
  <2> QED
    BY <2>1, Zenon
<1> QED
  BY <1>1, <1>2, <1>3, <1>4, <1>5, <1>6, Zenon DEF Next, Works

\* The invariant is one.
LEMMA SInvStep == GInv /\ GInv' /\ SInv /\ [Next]_vars => SInv'
<1> SUFFICES ASSUME GInv, GInv', SInv, [Next]_vars, NEW g, ScanFrom(g, args)'
             PROVE  IF gpc' = "done" THEN Through(g)' ELSE During(g)'
  BY DEF SInv
<1>1. UNCHANGED <<args, ordering>>
  <2>1. CASE GetOptNext
    <3>1. CASE LongOption \/ ShortOption
      <4>1. \E v, a : Deliver(v, a)
        BY <3>1, Zenon DEF LongOption, ShortOption
      <4> QED
        BY <4>1, Zenon DEF Deliver
    <3>2. CASE ~ (LongOption \/ ShortOption)
      BY <2>1, <3>2, Zenon DEF GetOptNext, NextElement, Exchange, ExchangeEnds, SkipNonOption,
           SkipEnds, DashDash, NoMore,
                       ShortElement, NextLetter, returned
    <3> QED
      BY <3>1, <3>2
  <2>2. CASE (gpc = "return" /\ gpc' = "call" /\ UNCHANGED <<argv, ordering, scan, segments, returned>>)
             \/ Others \/ UNCHANGED getopt_vars
    BY <2>2, Zenon DEF Others, getopt_vars, returned
  <2> QED
    BY <2>1, <2>2, Steps, Zenon DEF vars
<1>2. IF gpc = "done" THEN Through(g) ELSE During(g)
  <2>1. ScanFrom(g, args)
    BY <1>1, ScanFromSame, Zenon
  <2> QED
    BY <2>1, Zenon DEF SInv
<1>3. CASE gpc = "done"
  <2>1. /\ gpc' = "done" /\ UNCHANGED <<argv, args, delivered>>
        /\ backup_method' = "" => backup_method = "" /\ UNCHANGED optind
    BY <1>3, DoneStep
  <2> QED
    BY <1>2, <1>3, <2>1, Zenon DEF Through
<1>4. CASE gpc # "done"
  <2>0. During(g) /\ ScanFrom(g, args)
    BY <1>1, <1>2, <1>4, ScanFromSame, Zenon
  <2>1. CASE GetOptNext
    BY <1>4, <2>0, <2>1, GetOptStep
  <2>2. CASE gpc = "return" /\ gpc' = "call" /\ UNCHANGED <<argv, ordering, scan, segments, returned>>
    <3>1. UNCHANGED <<argv, optind, nextchar, first_nonopt, last_nonopt, args, delivered>>
            /\ gpc = "return" /\ gpc' = "call"
      BY <2>2, Zenon DEF scan, returned
    <3> QED
      BY <2>0, <3>1, SameKeeps
  <2>3. CASE UNCHANGED getopt_vars
    <3>1. UNCHANGED <<argv, optind, nextchar, first_nonopt, last_nonopt, bottom, middle, top, gpc,
              args, delivered>>
      BY <2>3, Zenon DEF getopt_vars, scan, segments, returned
    <3>2. ToCome(g)' = ToCome(g) /\ Skipped' = Skipped /\ Ahead' = Ahead
      BY <3>1, Zenon DEF ToCome, After, Skipped, Exchanging, Ahead
    <3> QED
      BY <1>4, <2>0, <3>1, <3>2, Zenon DEF During
  <2>4. ~ Others
    BY <1>4 DEF Others
  <2> QED
    BY <2>1, <2>2, <2>3, <2>4, Steps, Zenon DEF vars
<1> QED
  BY <1>3, <1>4

\* Both invariants always hold.
LEMMA ScanAlways == Spec => [](GInv /\ SInv)
BY GInvInit, GInvStep, SInvInit, SInvStep, PTL DEF Spec

\* When main goes on, they say what was delivered and what is left.
LEMMA ScanMeans == GInv /\ SInv => ScansInOrder
<1> SUFFICES ASSUME GInv, SInv, Scanned
             PROVE  Scan(args) = [options |-> delivered, operands |-> SubSeq(argv, optind, Len(argv))]
  BY DEF ScansInOrder
<1>1. args \in Seq(Seq(Pieces))
  BY ArgAssumption DEF GInv, Typed, Elements
<1>2. PICK g : ScanFrom(g, args) /\ Scan(args) = g[1]
  BY <1>1, ScanIs
<1>3. g[1].options = delivered /\ g[1].operands = SubSeq(argv, optind, Len(argv))
  BY <1>2, Zenon DEF SInv, Through, Scanned
<1>4. g[1] \in Contents
  <2>1. 1 \in 1 .. Len(args) + 2
    BY <1>1
  <2> QED
    BY <1>1, <1>2, <2>1, ScanType, Zenon
<1>5. g[1] = [options |-> g[1].options, operands |-> g[1].operands]
  BY <1>4 DEF Contents
<1> QED
  BY <1>2, <1>3, <1>5, Zenon

\* However options, their arguments and operands are mixed, getopt_long delivers
\* the options in order and leaves the operands in argv in order, though
\* exchange moves options across them (lib/getopt.c:131-183, 493-563).
THEOREM CommandLineScansInOrder == Spec => []ScansInOrder
BY ScanMeans, ScanAlways, PTL

-----------------------------------------------------------------------------
(* Options, one more at a time: what main asks of those it was given.       *)

\* The first one, if any.
FirstOf(ws) == IF ws = <<>> THEN <<>> ELSE <<Head(ws)>>

\* And the last one, or what there is without.
LastOf(ws, without) == IF ws = <<>> THEN without ELSE <<Last(ws)>>

\* One more is the last one, and the first if there was none.
LEMMA OneMore ==
  ASSUME NEW T, NEW ws \in Seq(T), NEW x \in T
  PROVE  /\ ws \o <<>> = ws /\ ws \o <<x>> = Append(ws, x)
         /\ ws \o <<x>> # <<>> /\ ws \o <<x>> \in Seq(T)
         /\ ws = <<>> => Len(ws \o <<x>>) <= 1
         /\ \A without : LastOf(ws \o <<x>>, without) = <<x>>
         /\ FirstOf(ws \o <<x>>) = IF ws = <<>> THEN <<x>> ELSE FirstOf(ws)
<1>1. ws \o <<>> = ws /\ ws \o <<x>> = Append(ws, x) /\ ws \o <<x>> \in Seq(T)
  OBVIOUS
<1>2. ws \o <<x>> # <<>> /\ (ws = <<>> => Len(ws \o <<x>>) <= 1)
  OBVIOUS
<1>3. Last(ws \o <<x>>) = x
  BY DEF Last
<1>4. Head(ws \o <<x>>) = IF ws = <<>> THEN x ELSE Head(ws)
  OBVIOUS
<1> QED
  BY <1>1, <1>2, <1>3, <1>4, Zenon DEF FirstOf, LastOf

\* What may be missing is a sequence.
LEMMA OptionalSeq ==
  ASSUME NEW S, NEW a \in Optional(S)
  PROVE  a \in Seq(S) /\ (a = <<>> \/ \E x \in S : a = <<x>>)
<1>1. a = <<>> \/ \E x \in S : a = <<x>>
  BY Zenon DEF Optional
<1>2. \A x \in S : <<x>> \in Seq(S)
  OBVIOUS
<1>3. <<>> \in Seq(S)
  OBVIOUS
<1> QED
  BY <1>1, <1>2, <1>3, Zenon

\* For every option its argument or nothing.
ArgumentsFor(w) == [o \in Answers |-> IF o[1] = w THEN o[2] ELSE <<>>]

\* These are what Arguments puts together.
LEMMA ArgumentsMapped ==
  ASSUME NEW d \in Seq(Answers), NEW w
  PROVE  /\ Arguments(d, w) = Mapped(ArgumentsFor(w), d)
         /\ ArgumentsFor(w) \in [Answers -> Seq(Seq(Pieces))]
<1>1. \A a \in Optional(Seq(Pieces)) : a \in Seq(Seq(Pieces))
  BY OptionalSeq, Zenon
<1>2. \A o \in Answers : o[2] \in Optional(Seq(Pieces))
  BY DEF Answers
<1>3. ArgumentsFor(w) \in [Answers -> Seq(Seq(Pieces))]
  BY <1>1, <1>2 DEF ArgumentsFor
<1>4. \A k \in 1 .. Len(d) : ArgumentsFor(w)[d[k]] = IF d[k][1] = w THEN d[k][2] ELSE <<>>
  BY DEF ArgumentsFor
<1>5. [k \in DOMAIN d |-> IF d[k][1] = w THEN d[k][2] ELSE <<>>]
        = [k \in 1 .. Len(d) |-> ArgumentsFor(w)[d[k]]]
  <2>1. DOMAIN d = 1 .. Len(d)
    OBVIOUS
  <2> QED
    BY <1>4, <2>1
<1> QED
  BY <1>3, <1>5, Zenon DEF Arguments, Mapped

\* No options have no arguments, and none is given.
LEMMA NoOptions ==
  /\ \A w : Arguments(<<>>, w) = <<>> /\ ~Given(<<>>, w) /\ ~Twice(<<>>, w)
  /\ <<>> \in Seq(Answers)
<1>1. <<>> \in Seq(Answers)
  OBVIOUS
<1>2. DOMAIN <<>> = {}
  OBVIOUS
<1>3. \A w : Arguments(<<>>, w) = <<>>
  BY <1>1, ArgumentsMapped, MappedEmpty, Zenon
<1> QED
  BY <1>1, <1>2, <1>3 DEF Given, Twice

\* One option more has its own argument, if it is of the kind.
LEMMA ArgumentsAppend ==
  ASSUME NEW d \in Seq(Answers), NEW o \in Answers, NEW w
  PROVE  /\ Arguments(Append(d, o), w) = Arguments(d, w) \o (IF o[1] = w THEN o[2] ELSE <<>>)
         /\ Arguments(d, w) \in Seq(Seq(Pieces))
         /\ Append(d, o) \in Seq(Answers)
<1>1. Append(d, o) \in Seq(Answers)
  OBVIOUS
<1>2. ArgumentsFor(w)[o] = IF o[1] = w THEN o[2] ELSE <<>>
  BY DEF ArgumentsFor
<1>3. /\ Mapped(ArgumentsFor(w), Append(d, o)) = Mapped(ArgumentsFor(w), d) \o ArgumentsFor(w)[o]
      /\ Mapped(ArgumentsFor(w), d) \in Seq(Seq(Pieces))
  <2>1. ArgumentsFor(w) \in [Answers -> Seq(Seq(Pieces))]
    BY ArgumentsMapped, Zenon
  <2> QED
    BY <2>1, MappedAppend, Zenon
<1>4. /\ Arguments(Append(d, o), w) = Mapped(ArgumentsFor(w), Append(d, o))
      /\ Arguments(d, w) = Mapped(ArgumentsFor(w), d)
  BY <1>1, ArgumentsMapped, Zenon
<1> QED
  BY ONLY <1>1, <1>2, <1>3, <1>4, Zenon

\* The places of one sequence more.
LEMMA Places ==
  ASSUME NEW d \in Seq(Answers), NEW o \in Answers
  PROVE  /\ \A k \in DOMAIN d : k \in DOMAIN Append(d, o) /\ Append(d, o)[k] = d[k] /\ k < Len(d) + 1
         /\ Len(d) + 1 \in DOMAIN Append(d, o) /\ Append(d, o)[Len(d) + 1] = o
         /\ \A k \in DOMAIN Append(d, o) : k \in DOMAIN d \/ k = Len(d) + 1
         /\ \A k \in DOMAIN Append(d, o) : ~ (Len(d) + 1 < k)
         /\ \A k \in DOMAIN d : ~ (Len(d) + 1 < k)
OBVIOUS

\* It is given as well.
LEMMA GivenAppend ==
  ASSUME NEW d \in Seq(Answers), NEW o \in Answers, NEW w
  PROVE  Given(Append(d, o), w) <=> Given(d, w) \/ o[1] = w
<1>1. PICK s, n : s = Append(d, o) /\ n = Len(d) + 1
  OBVIOUS
<1>2. /\ \A k \in DOMAIN d : k \in DOMAIN s /\ s[k] = d[k]
      /\ n \in DOMAIN s /\ s[n] = o
      /\ \A k \in DOMAIN s : k \in DOMAIN d \/ k = n
  BY <1>1, Places, Zenon
<1>3. Given(s, w) <=> Given(d, w) \/ o[1] = w
  BY ONLY <1>2, Zenon DEF Given
<1> QED
  BY <1>1, <1>3, Zenon

\* One of the kind has an argument.
SomeArgument(d, w) == \E j \in DOMAIN d : d[j][1] = w /\ d[j][2] # <<>>

\* That of one option more.
LEMMA SomeAppend ==
  ASSUME NEW d \in Seq(Answers), NEW o \in Answers, NEW w
  PROVE  SomeArgument(Append(d, o), w) <=> SomeArgument(d, w) \/ (o[1] = w /\ o[2] # <<>>)
<1>1. PICK s, n : s = Append(d, o) /\ n = Len(d) + 1
  OBVIOUS
<1>2. /\ \A k \in DOMAIN d : k \in DOMAIN s /\ s[k] = d[k]
      /\ n \in DOMAIN s /\ s[n] = o
      /\ \A k \in DOMAIN s : k \in DOMAIN d \/ k = n
  BY <1>1, Places, Zenon
<1>3. SomeArgument(s, w) <=> SomeArgument(d, w) \/ (o[1] = w /\ o[2] # <<>>)
  BY ONLY <1>2, Zenon DEF SomeArgument
<1> QED
  BY <1>1, <1>3, Zenon

\* One option more is the second of its kind, or there were two before.
LEMMA TwiceAppend ==
  ASSUME NEW d \in Seq(Answers), NEW o \in Answers, NEW w
  PROVE  Twice(Append(d, o), w) <=> Twice(d, w) \/ (o[1] = w /\ SomeArgument(d, w))
<1>1. PICK s, n : s = Append(d, o) /\ n = Len(d) + 1
  OBVIOUS
<1>2. /\ \A k \in DOMAIN d : k \in DOMAIN s /\ s[k] = d[k] /\ k < n
      /\ n \in DOMAIN s /\ s[n] = o
      /\ \A k \in DOMAIN s : k \in DOMAIN d \/ k = n
      /\ \A k \in DOMAIN s : ~ (n < k)
  BY <1>1, Places, Zenon
<1>3. ASSUME Twice(s, w) PROVE Twice(d, w) \/ (o[1] = w /\ SomeArgument(d, w))
  <2>1. PICK k \in DOMAIN s, j \in DOMAIN s : j < k /\ s[k][1] = w /\ s[j][1] = w /\ s[j][2] # <<>>
    BY <1>3, Zenon DEF Twice
  <2>2. j \in DOMAIN d /\ d[j] = s[j]
    BY ONLY <1>2, <2>1, Zenon
  <2>3. CASE k \in DOMAIN d
    <3>1. d[k] = s[k]
      BY ONLY <1>2, <2>3, Zenon
    <3> QED
      BY ONLY <2>1, <2>2, <2>3, <3>1, Zenon DEF Twice
  <2>4. CASE k = n
    <3>1. s[k] = o
      BY ONLY <1>2, <2>4, Zenon
    <3> QED
      BY ONLY <2>1, <2>2, <3>1, Zenon DEF SomeArgument
  <2> QED
    BY <1>2, <2>1, <2>3, <2>4, Zenon
<1>4. ASSUME Twice(d, w) PROVE Twice(s, w)
  <2>1. PICK k \in DOMAIN d, j \in DOMAIN d : j < k /\ d[k][1] = w /\ d[j][1] = w /\ d[j][2] # <<>>
    BY <1>4, Zenon DEF Twice
  <2>2. s[k] = d[k] /\ s[j] = d[j] /\ k \in DOMAIN s /\ j \in DOMAIN s
    BY ONLY <1>2, <2>1, Zenon
  <2> QED
    BY ONLY <2>1, <2>2, Zenon DEF Twice
<1>5. ASSUME o[1] = w, SomeArgument(d, w) PROVE Twice(s, w)
  <2>1. PICK j \in DOMAIN d : d[j][1] = w /\ d[j][2] # <<>>
    BY <1>5, Zenon DEF SomeArgument
  <2>2. j < n /\ s[j] = d[j] /\ j \in DOMAIN s /\ n \in DOMAIN s /\ s[n] = o
    BY ONLY <1>2, <2>1, Zenon
  <2> QED
    BY ONLY <1>5, <2>1, <2>2, Zenon DEF Twice
<1> QED
  BY <1>1, <1>3, <1>4, <1>5, Zenon

\* There are arguments if one has one, and only one if it is not given again.
LEMMA ArgumentsCount ==
  ASSUME NEW d \in Seq(Answers), NEW w
  PROVE  /\ Arguments(d, w) # <<>> <=> SomeArgument(d, w)
         /\ ~Twice(d, w) => Len(Arguments(d, w)) <= 1
         /\ Arguments(d, w) \in Seq(Seq(Pieces))
<1> DEFINE Counts(s) == /\ Arguments(s, w) # <<>> <=> SomeArgument(s, w)
                        /\ ~Twice(s, w) => Len(Arguments(s, w)) <= 1
                        /\ Arguments(s, w) \in Seq(Seq(Pieces))
           P == {s \in Seq(Answers) : Counts(s)}
<1>1. <<>> \in P
  <2>1. ~SomeArgument(<<>>, w)
    BY DEF SomeArgument
  <2>2. Arguments(<<>>, w) = <<>> /\ <<>> \in Seq(Answers)
    BY NoOptions, Zenon
  <2>3. Len(<<>>) <= 1 /\ <<>> \in Seq(Seq(Pieces))
    OBVIOUS
  <2>4. Counts(<<>>)
    BY <2>1, <2>2, <2>3, Zenon
  <2> QED
    BY <2>2, <2>4
<1>2. ASSUME NEW s \in P, NEW o \in Answers PROVE Append(s, o) \in P
  <2>0. s \in Seq(Answers) /\ Counts(s)
    OBVIOUS
  <2>1. PICK ws, bs : ws = Arguments(s, w) /\ bs = Arguments(Append(s, o), w)
    OBVIOUS
  <2>2. ws \in Seq(Seq(Pieces)) /\ (ws # <<>> <=> SomeArgument(s, w)) /\ (~Twice(s, w) => Len(ws) <= 1)
    BY ONLY <2>0, <2>1, Zenon
  <2>3. bs = ws \o (IF o[1] = w THEN o[2] ELSE <<>>) /\ Append(s, o) \in Seq(Answers)
    BY <2>0, <2>1, ArgumentsAppend, Zenon
  <2>4. o[2] \in Optional(Seq(Pieces))
    BY DEF Answers
  <2>5. o[2] = <<>> \/ \E x \in Seq(Pieces) : o[2] = <<x>>
    BY <2>4, OptionalSeq, Zenon
  <2>6. CASE o[1] # w \/ o[2] = <<>>
    <3>1. bs = ws
      <4>1. ws \o <<>> = ws
        BY <2>2, ConcatEmptySeq, Zenon
      <4> QED
        BY ONLY <2>3, <2>6, <4>1, Zenon
    <3>2. SomeArgument(Append(s, o), w) <=> SomeArgument(s, w)
      BY <2>0, <2>6, SomeAppend, Zenon
    <3>3. Twice(s, w) => Twice(Append(s, o), w)
      BY <2>0, TwiceAppend, Zenon
    <3>4. Counts(Append(s, o))
      BY ONLY <2>1, <2>2, <3>1, <3>2, <3>3, Zenon
    <3> QED
      BY ONLY <2>3, <3>4
  <2>7. CASE o[1] = w /\ o[2] # <<>>
    <3>1. PICK x \in Seq(Pieces) : o[2] = <<x>>
      BY <2>5, <2>7, Zenon
    <3>2. bs = ws \o <<x>>
      BY ONLY <2>3, <2>7, <3>1, Zenon
    <3>3. bs # <<>> /\ bs \in Seq(Seq(Pieces)) /\ (ws = <<>> => Len(bs) <= 1)
      BY ONLY <2>2, <3>1, <3>2, OneMore, Zenon
    <3>4. SomeArgument(Append(s, o), w)
      BY <2>0, <2>7, SomeAppend, Zenon
    <3>5. ws # <<>> => Twice(Append(s, o), w)
      BY <2>0, <2>2, <2>7, TwiceAppend, Zenon
    <3>6. Counts(Append(s, o))
      BY ONLY <2>1, <3>3, <3>4, <3>5, Zenon
    <3> QED
      BY ONLY <2>3, <3>6
  <2> QED
    BY <2>6, <2>7
<1>3. P \in SUBSET Seq(Answers)
  OBVIOUS
<1> HIDE DEF Counts
<1>4. P = Seq(Answers)
  <2> HIDE DEF P
  <2> QED
    BY <1>1, <1>2, <1>3, SeqInd, Zenon
<1>5. Counts(d)
  BY <1>4
<1> QED
  BY <1>5 DEF Counts

-----------------------------------------------------------------------------
(* The filters: what a list of segments says of a name.                     *)

\* The segments.
SegmentSet ==
  [type : {"exclude_pattern", "exclude_hash"}, include : BOOLEAN, patterns : SUBSET Seq(Pieces)]

\* The type of the segment for a pattern.
SegmentType(p) == IF Wild(p) THEN "exclude_pattern" ELSE "exclude_hash"

\* The patterns that a list has.
Held(ex) == UNION {ex[k].patterns : k \in DOMAIN ex}

\* The list ex has the patterns ps, each in a segment of its type.
Filter(ex, ps, inc) ==
  /\ ex \in Seq(SegmentSet)
  /\ ex = <<>> <=> ps = <<>>
  /\ \A k \in DOMAIN ex : ex[k].include = inc /\ \A q \in ex[k].patterns : ex[k].type = SegmentType(q)
  /\ Held(ex) = ToSet(ps)

\* No patterns are in no segments.
LEMMA NoFilter == \A inc : Filter(<<>>, <<>>, inc)
<1>1. DOMAIN <<>> = {} /\ <<>> \in Seq(SegmentSet)
  OBVIOUS
<1>2. ToSet(<<>>) = {}
  BY DEF ToSet
<1> QED
  BY <1>1, <1>2 DEF Filter, Held

\* They are those of its segments.
LEMMA HeldIs ==
  ASSUME NEW ex, NEW q
  PROVE  q \in Held(ex) <=> \E k \in DOMAIN ex : q \in ex[k].patterns
BY Zenon DEF Held

\* The elements with one more.
LEMMA ToSetAppend ==
  ASSUME NEW S, NEW s \in Seq(S), NEW x \in S
  PROVE  ToSet(Append(s, x)) = ToSet(s) \cup {x}
<1>1. /\ \A k \in DOMAIN s : k \in DOMAIN Append(s, x) /\ Append(s, x)[k] = s[k]
      /\ Len(s) + 1 \in DOMAIN Append(s, x) /\ Append(s, x)[Len(s) + 1] = x
      /\ \A k \in DOMAIN Append(s, x) : k \in DOMAIN s \/ k = Len(s) + 1
  OBVIOUS
<1> QED
  BY ONLY <1>1 DEF ToSet

\* The pattern joins the newest segment.
Joins(ex, new, p, inc) ==
  /\ DOMAIN new = DOMAIN ex /\ 1 \in DOMAIN ex
  /\ ex[1].type = SegmentType(p) /\ ex[1].include = inc
  /\ new[1] = [ex[1] EXCEPT !.patterns = @ \cup {p}]
  /\ \A k \in DOMAIN ex : k # 1 => new[k] = ex[k]

\* Or it gets one in front of it.
Leads(ex, new, p, inc) ==
  /\ DOMAIN new = 1 .. Len(ex) + 1
  /\ new[1] = [type |-> SegmentType(p), include |-> inc, patterns |-> {p}]
  /\ \A k \in 1 .. Len(ex) : new[k + 1] = ex[k]

\* add_exclude does one of them.
LEMMA AddExcludeIs ==
  ASSUME NEW ex \in Seq(SegmentSet), NEW p \in Seq(Pieces), NEW inc \in BOOLEAN
  PROVE  /\ AddExclude(ex, p, inc) \in Seq(SegmentSet)
         /\ Joins(ex, AddExclude(ex, p, inc), p, inc) \/ Leads(ex, AddExclude(ex, p, inc), p, inc)
<1>1. PICK type : type = SegmentType(p)
  OBVIOUS
<1>2. type \in {"exclude_pattern", "exclude_hash"}
  BY <1>1, Zenon DEF SegmentType
<1>3. AddExclude(ex, p, inc)
        = IF ex # <<>> /\ Head(ex).type = type /\ Head(ex).include = inc
          THEN [ex EXCEPT ![1].patterns = @ \cup {p}]
          ELSE <<[type |-> type, include |-> inc, patterns |-> {p}]>> \o ex
  BY <1>1, Zenon DEF AddExclude, SegmentType
<1>4. CASE ex # <<>> /\ Head(ex).type = type /\ Head(ex).include = inc
  <2>1. PICK new : new = [ex EXCEPT ![1].patterns = @ \cup {p}]
    OBVIOUS
  <2>2. 1 \in DOMAIN ex /\ Head(ex) = ex[1] /\ ex[1] \in SegmentSet /\ DOMAIN ex = 1 .. Len(ex)
    BY <1>4
  <2>3. DOMAIN new = DOMAIN ex /\ new[1] = [ex[1] EXCEPT !.patterns = @ \cup {p}]
          /\ \A k \in DOMAIN ex : k # 1 => new[k] = ex[k]
    BY ONLY <2>1, <2>2
  <2>4. [ex[1] EXCEPT !.patterns = @ \cup {p}] \in SegmentSet
    BY ONLY <2>2, p \in Seq(Pieces), Zenon DEF SegmentSet
  <2>5. new \in Seq(SegmentSet)
    <3>1. \A k \in DOMAIN ex : new[k] \in SegmentSet
      BY <2>3, <2>4
    <3>2. new = [k \in 1 .. Len(ex) |-> new[k]]
      BY ONLY <2>1, <2>2
    <3> QED
      BY <2>2, <3>1, <3>2
  <2> QED
    BY <1>1, <1>3, <1>4, <2>1, <2>2, <2>3, <2>5, Zenon DEF Joins
<1>5. CASE ~ (ex # <<>> /\ Head(ex).type = type /\ Head(ex).include = inc)
  <2>1. PICK seg : seg = [type |-> type, include |-> inc, patterns |-> {p}]
    OBVIOUS
  <2>2. seg \in SegmentSet
    BY <1>2, <2>1, Zenon DEF SegmentSet
  <2>3. <<seg>> \in Seq(SegmentSet) /\ Len(<<seg>>) = 1 /\ <<seg>>[1] = seg /\ Len(ex) \in Nat
    BY <2>2
  <2>4. /\ <<seg>> \o ex \in Seq(SegmentSet) /\ Len(<<seg>> \o ex) = 1 + Len(ex)
        /\ \A i \in 1 .. 1 + Len(ex) :
             (<<seg>> \o ex)[i] = IF i <= 1 THEN <<seg>>[i] ELSE ex[i - 1]
    BY <2>3, ConcatProperties
  <2>5. PICK new : new = <<seg>> \o ex
    OBVIOUS
  <2>6. new \in Seq(SegmentSet) /\ DOMAIN new = 1 .. Len(ex) + 1 /\ new[1] = seg
          /\ \A k \in 1 .. Len(ex) : new[k + 1] = ex[k]
    BY ONLY <2>3, <2>4, <2>5
  <2> QED
    BY <1>1, <1>3, <1>5, <2>1, <2>5, <2>6, Zenon DEF Leads
<1> QED
  BY <1>4, <1>5

\* One pattern more is in the list.
LEMMA FilterAdds ==
  ASSUME NEW ex, NEW ps \in Seq(Seq(Pieces)), NEW p \in Seq(Pieces), NEW inc \in BOOLEAN,
         Filter(ex, ps, inc)
  PROVE  Filter(AddExclude(ex, p, inc), Append(ps, p), inc)
<1>1. PICK new : new = AddExclude(ex, p, inc)
  OBVIOUS
<1>2. ex \in Seq(SegmentSet) /\ DOMAIN ex = 1 .. Len(ex) /\ Len(ex) \in Nat
  BY DEF Filter
<1>3. new \in Seq(SegmentSet) /\ (Joins(ex, new, p, inc) \/ Leads(ex, new, p, inc))
  BY <1>1, <1>2, AddExcludeIs, Zenon
<1>4. \A k \in DOMAIN ex : ex[k] \in SegmentSet
  BY <1>2
<1>5. new # <<>> /\ Append(ps, p) # <<>>
  <2>1. 1 \in DOMAIN new
    BY <1>2, <1>3 DEF Joins, Leads
  <2>2. 1 \notin DOMAIN <<>>
    OBVIOUS
  <2>3. new # <<>>
    BY ONLY <2>1, <2>2, Zenon
  <2>4. Append(ps, p) # <<>>
    BY AppendProperties
  <2> QED
    BY ONLY <2>3, <2>4
<1>6. ToSet(Append(ps, p)) = ToSet(ps) \cup {p}
  BY ToSetAppend
<1>f. /\ \A k \in DOMAIN ex : ex[k].include = inc /\ \A q \in ex[k].patterns : ex[k].type = SegmentType(q)
      /\ Held(ex) = ToSet(ps)
  BY Zenon DEF Filter
<1>7. CASE Joins(ex, new, p, inc)
  <2>1. new[1].type = ex[1].type /\ new[1].include = inc /\ new[1].patterns = ex[1].patterns \cup {p}
    BY <1>4, <1>7 DEF SegmentSet, Joins
  <2>2. \A k \in DOMAIN new : new[k].include = inc /\ \A q \in new[k].patterns : new[k].type = SegmentType(q)
    <3> SUFFICES ASSUME NEW k \in DOMAIN new
                 PROVE  new[k].include = inc /\ \A q \in new[k].patterns : new[k].type = SegmentType(q)
      OBVIOUS
    <3>1. CASE k = 1
      <4>1. \A q \in new[1].patterns : new[1].type = SegmentType(q)
        BY ONLY <1>7, <1>f, <2>1 DEF Joins
      <4> QED
        BY <2>1, <3>1, <4>1
    <3>2. CASE k # 1
      BY <1>7, <1>f, <3>2 DEF Joins
    <3> QED
      BY <3>1, <3>2
  <2>3. Held(new) = Held(ex) \cup {p}
    <3>1. \A k \in DOMAIN ex : k \in DOMAIN new /\ (k # 1 => new[k].patterns = ex[k].patterns)
      BY ONLY <1>7, Zenon DEF Joins
    <3>2. 1 \in DOMAIN ex /\ DOMAIN new = DOMAIN ex
      BY ONLY <1>7, Zenon DEF Joins
    <3>3. \A q : (\E k \in DOMAIN new : q \in new[k].patterns)
                   <=> q = p \/ \E k \in DOMAIN ex : q \in ex[k].patterns
      BY ONLY <2>1, <3>1, <3>2
    <3>4. \A q : q \in Held(new) <=> q = p \/ q \in Held(ex)
      BY <3>3, HeldIs, Zenon
    <3> QED
      BY ONLY <3>4
  <2> QED
    BY <1>1, <1>3, <1>5, <1>6, <1>f, <2>2, <2>3, Zenon DEF Filter
<1>8. CASE Leads(ex, new, p, inc)
  <2>1. new[1].type = SegmentType(p) /\ new[1].include = inc /\ new[1].patterns = {p}
    BY <1>8 DEF Leads
  <2>2. \A k \in DOMAIN new : k = 1 \/ \E j \in DOMAIN ex : k = j + 1 /\ new[k] = ex[j]
    <3> SUFFICES ASSUME NEW k \in DOMAIN new, k # 1
                 PROVE  \E j \in DOMAIN ex : k = j + 1 /\ new[k] = ex[j]
      OBVIOUS
    <3>1. k - 1 \in 1 .. Len(ex) /\ k = (k - 1) + 1
      BY <1>2, <1>8 DEF Leads
    <3> QED
      BY ONLY <1>2, <1>8, <3>1, Zenon DEF Leads
  <2>3. \A j \in DOMAIN ex : j + 1 \in DOMAIN new /\ new[j + 1] = ex[j]
    BY ONLY <1>2, <1>8 DEF Leads
  <2>4. 1 \in DOMAIN new
    BY ONLY <1>2, <1>8 DEF Leads
  <2>5. \A k \in DOMAIN new : new[k].include = inc /\ \A q \in new[k].patterns : new[k].type = SegmentType(q)
    BY ONLY <1>f, <2>1, <2>2
  <2>6. Held(new) = Held(ex) \cup {p}
    <3>1. \A q : (\E k \in DOMAIN new : q \in new[k].patterns)
                   <=> q = p \/ \E k \in DOMAIN ex : q \in ex[k].patterns
      BY ONLY <2>1, <2>2, <2>3, <2>4
    <3>2. \A q : q \in Held(new) <=> q = p \/ q \in Held(ex)
      BY <3>1, HeldIs, Zenon
    <3> QED
      BY ONLY <3>2
  <2> QED
    BY <1>1, <1>3, <1>5, <1>6, <1>f, <2>5, <2>6, Zenon DEF Filter
<1> QED
  BY <1>3, <1>7, <1>8, Zenon

\* One of the patterns matches the name, or what follows a slash in it.
Matched(ps, f) == \E q \in ToSet(ps), t \in Tails(f) : IF Wild(q) THEN Fnmatch(q, t) ELSE q = t

\* A segment matches if one of its patterns does, and some segment if one of all.
LEMMA SegmentsMatch ==
  ASSUME NEW ex, NEW ps, NEW inc, NEW f, Filter(ex, ps, inc)
  PROVE  (\E k \in DOMAIN ex : SegmentMatches(ex[k], f)) <=> Matched(ps, f)
<1>1. ASSUME NEW k \in DOMAIN ex
      PROVE  SegmentMatches(ex[k], f)
               <=> \E q \in ex[k].patterns, t \in Tails(f) : IF Wild(q) THEN Fnmatch(q, t) ELSE q = t
  <2>1. \A q \in ex[k].patterns : ex[k].type = "exclude_hash" <=> ~Wild(q)
    BY Zenon DEF Filter, SegmentType
  <2>2. ASSUME NEW q \in ex[k].patterns, NEW t
        PROVE  (IF ex[k].type = "exclude_hash" THEN t = q ELSE Fnmatch(q, t))
                 <=> (IF Wild(q) THEN Fnmatch(q, t) ELSE q = t)
    BY <2>1, Zenon
  <2> QED
    BY <2>2, Zenon DEF SegmentMatches
<1>2. \A q : q \in ToSet(ps) <=> \E k \in DOMAIN ex : q \in ex[k].patterns
  <2>1. Held(ex) = ToSet(ps)
    BY Zenon DEF Filter
  <2> QED
    BY <2>1, HeldIs, Zenon
<1> QED
  BY <1>1, <1>2, Zenon DEF Matched

\* If there are patterns, a name is excluded that one of those to exclude matches,
\* and one that none of those to include matches.
LEMMA FilterSays ==
  ASSUME NEW ex, NEW ps, NEW inc \in BOOLEAN, NEW f, Filter(ex, ps, inc)
  PROVE  ExcludedFileName(ex, f) <=> ps # <<>> /\ (Matched(ps, f) <=> ~inc)
<1> DEFINE hits == {k \in DOMAIN ex : SegmentMatches(ex[k], f)}
<1>1. ex \in Seq(SegmentSet) /\ (ex = <<>> <=> ps = <<>>)
  BY Zenon DEF Filter
<1>2. hits = {} <=> ~Matched(ps, f)
  <2>1. (\E k \in DOMAIN ex : SegmentMatches(ex[k], f)) <=> Matched(ps, f)
    BY SegmentsMatch, Zenon
  <2>2. hits = {} <=> ~ \E k \in DOMAIN ex : SegmentMatches(ex[k], f)
    BY Zenon
  <2> QED
    BY <2>1, <2>2, Zenon
<1>3. ExcludedFileName(ex, f)
        <=> ex # <<>> /\ (IF hits = {} THEN Last(ex).include
                          ELSE ~ex[CHOOSE k \in hits : \A m \in hits : k <= m].include)
  BY Zenon DEF ExcludedFileName
<1>4. \A k \in DOMAIN ex : ex[k].include = inc
  BY Zenon DEF Filter
<1>5. ex # <<>> => Last(ex).include = inc
  <2>1. ex # <<>> => Len(ex) \in DOMAIN ex
    BY <1>1
  <2> QED
    BY <1>4, <2>1, Zenon DEF Last
<1>6. hits # {} => ex[CHOOSE k \in hits : \A m \in hits : k <= m].include = inc
  <2> SUFFICES ASSUME hits # {} PROVE ex[CHOOSE k \in hits : \A m \in hits : k <= m].include = inc
    OBVIOUS
  <2>1. hits \in SUBSET Nat /\ hits \subseteq DOMAIN ex
    BY <1>1
  <2> HIDE DEF hits
  <2>2. \E k \in hits : \A m \in hits : k <= m
    BY <2>1, Least, Zenon
  <2>3. (CHOOSE k \in hits : \A m \in hits : k <= m) \in hits
    BY <2>2, Zenon
  <2> QED
    BY <1>4, <2>1, <2>3, Zenon
<1> HIDE DEF hits
<1>7. inc = TRUE \/ inc = FALSE
  OBVIOUS
<1>8. ExcludedFileName(ex, f) <=> ex # <<>> /\ (IF hits = {} THEN inc ELSE ~inc)
  BY ONLY <1>3, <1>5, <1>6, Zenon
<1> QED
  BY ONLY <1>1, <1>2, <1>7, <1>8

-----------------------------------------------------------------------------
(* What main has made of the options so far.                                *)

\* An option with its argument, where it needs one.
Answered == {o \in Answers : o[1] \in WithArgument => o[2] # <<>>}

\* What was delivered.
Deliveries ==
  /\ delivered \in Seq(Answered)
  /\ gpc = "return" => delivered # <<>> /\ Last(delivered) = <<opt, optarg>>

\* How much of it the switch has seen.
Seen == IF gpc = "return" THEN Front(delivered) ELSE delivered

\* The variables of main after the options d.
Switched(d) ==
  /\ "OPT_BACKUP" \in flags <=> Given(d, "S") \/ Given(d, "b")
  /\ suffix_string = LastOf(Arguments(d, "S"), env.SIMPLE_BACKUP_SUFFIX)
  /\ version_control = LastOf(Arguments(d, "b"), <<>>)
  /\ failure_flag <=> Wrong(d)
  /\ exit_flag <=> Informative(d)

\* Its filters.
Filtered(d) ==
  /\ Filter(included_patterns, Arguments(d, "INCLUDE_OPTION"), TRUE)
  /\ Filter(excluded_patterns, Arguments(d, "EXCLUDE_OPTION"), FALSE)
  /\ Filter(excluded_directory_patterns, Arguments(d, "EXCLUDE_DIR_OPTION"), FALSE)

\* Its strings, before an operand is taken.
Stringed(d) ==
  /\ pattern_string = FirstOf(Arguments(d, "e"))
  /\ replacement_string = FirstOf(Arguments(d, "p"))
  /\ file_list = <<>>

\* The first invariant: the options delivered, and what the switch has made of those
\* it has seen.
WInv ==
  /\ Deliveries /\ Switched(Seen) /\ Filtered(Seen)
  /\ backup_method = "" => Stringed(Seen)
  /\ backup_method # "" => gpc = "done"

\* What is left of the words after pattern P, replacement R and files F.
Combined(P, R, F, rest) ==
  P \o (IF R = <<>> THEN rest
        ELSE IF P # <<>> \/ rest = <<>> THEN R \o (F \o rest)
        ELSE <<Head(rest)>> \o R \o Tail(rest))

\* The program may go on with these options.
Ready ==
  /\ ~Wrong(delivered) /\ ~Informative(delivered)
  /\ TypesFor(delivered) = {backup_method}
  /\ Given(delivered, "S") => simple_backup_suffix = Last(Arguments(delivered, "S"))

\* While operands are taken, those left and what has been taken are the words that the
\* command line gives.
Operands ==
  /\ gpc = "done" /\ Ready
  /\ pattern_string \in Optional(Seq(Pieces)) /\ replacement_string \in Optional(Seq(Pieces))
  /\ file_list \in Seq(Seq(Pieces))
  /\ <<>> \in {pattern_string, replacement_string} => file_list = <<>>
  /\ WordsFor(delivered, Scan(args).operands)
       = Combined(pattern_string, replacement_string, file_list, SubSeq(argv, optind, Len(argv)))

\* The second invariant: how the program goes on, and what it has decided.
OInv ==
  /\ outcome # "" \/ backup_method # "" => gpc = "done" /\ Scan(args).options = delivered
  /\ outcome = "" /\ backup_method # "" => Operands
  /\ OutcomeRight

\* One more at the end.
LEMMA FrontAppend ==
  ASSUME NEW T, NEW d \in Seq(T), NEW x \in T
  PROVE  /\ Front(Append(d, x)) = d /\ Last(Append(d, x)) = x
         /\ Append(d, x) \in Seq(T) /\ Append(d, x) # <<>>
<1>1. PICK a : a = Append(d, x)
  OBVIOUS
<1>2. a \in Seq(T) /\ a # <<>> /\ Len(a) = Len(d) + 1 /\ a[Len(a)] = x
  BY <1>1
<1>3. Front(a) = d
  BY <1>1, <1>2 DEF Front
<1> QED
  BY <1>1, <1>2, <1>3, Zenon DEF Last

\* What is not empty ends in an element.
LEMMA FrontAnd ==
  ASSUME NEW T, NEW d \in Seq(T), d # <<>>
  PROVE  d = Append(Front(d), Last(d)) /\ Front(d) \in Seq(T) /\ Last(d) \in T
<1>1. Len(d) \in Nat /\ Len(d) # 0
  OBVIOUS
<1>2. PICK n \in Nat : Len(d) = n + 1
  <2>1. Len(d) - 1 \in Nat /\ Len(d) = (Len(d) - 1) + 1
    BY <1>1
  <2> QED
    BY <2>1
<1>3. PICK t \in Seq(T), x \in T : d = Append(t, x)
  <2>1. PICK f : f = [k \in 1 .. n |-> d[k]]
    OBVIOUS
  <2>2. f \in Seq(T) /\ Len(f) = n /\ d[n + 1] \in T
    BY <1>2, <2>1
  <2>3. d = Append(f, d[n + 1])
    BY <1>2, <2>1, <2>2
  <2> QED
    BY <2>2, <2>3, Zenon
<1> QED
  BY <1>3, FrontAppend, Zenon

\* An option that is delivered.
Answer(v, a) == Deliver(v, a) /\ <<v, a>> \in Answered

\* A long option is one.
LEMMA LongAnswered ==
  ASSUME Typed, LongOption
  PROVE  \E v, a : Answer(v, a)
<1>1. gpc = "element" /\ optind # argc
  BY Zenon DEF LongOption
<1>2. optind \in Nat /\ 1 <= optind /\ optind < argc
  BY <1>1, Numbers
<1>3. argv[optind] \in Seq(Pieces)
  BY <1>2, ElementType
<1>4. PICK arg, found :
        arg = ArgumentOf(argv[optind]) /\ found = Meanings(Candidates(NameOf(argv[optind])))
  OBVIOUS
<1>5. /\ arg \in Optional(Seq(Pieces)) /\ IsFiniteSet(found)
      /\ \A f \in found : <<f[2], <<>> >> \in Answers
      /\ \A f \in found : f[2] \in WithArgument => f[1] = "required_argument"
  BY <1>3, <1>4, ArgumentType, MeaningsType, Zenon
<1>6. <<"?", <<>> >> \in Answered
  BY DEF Answered, Answers, Optional, WithArgument
<1>7. CASE Cardinality(found) # 1
  <2>1. Deliver("?", <<>>)
    BY <1>4, <1>7, Zenon DEF LongOption
  <2> QED
    BY <1>6, <2>1, Zenon DEF Answer
<1>8. CASE Cardinality(found) = 1
  <2>1. PICK h : found = {h} /\ (CHOOSE f \in found : TRUE) = h
    BY <1>5, <1>8, OneMeaning, Zenon
  <2>2. <<h[2], <<>> >> \in Answers /\ (h[2] \in WithArgument => h[1] = "required_argument")
    BY <1>5, <2>1
  <2>3. ASSUME NEW a \in Optional(Seq(Pieces)), a = <<>> => h[2] \notin WithArgument
        PROVE  <<h[2], a>> \in Answered
    BY <2>2, <2>3 DEF Answered, Answers
  <2>4. CASE arg # <<>> /\ h[1] = "no_argument"
    <3>1. Deliver("?", <<>>)
      BY <1>4, <2>1, <2>4, Zenon DEF LongOption
    <3> QED
      BY <1>6, <3>1, Zenon DEF Answer
  <2>5. CASE arg = <<>> /\ h[1] = "required_argument" /\ optind + 1 < argc
    <3>1. Deliver(h[2], <<argv[optind + 1]>>)
      BY <1>4, <1>8, <2>1, <2>5, Zenon DEF LongOption
    <3>2. argv[optind + 1] \in Seq(Pieces)
      BY <1>2, <2>5, ElementType
    <3>3. <<argv[optind + 1]>> \in Optional(Seq(Pieces)) /\ <<argv[optind + 1]>> # <<>>
      BY <3>2 DEF Optional
    <3>4. <<h[2], <<argv[optind + 1]>> >> \in Answered
      BY <2>3, <3>3, Zenon
    <3> QED
      BY <3>1, <3>4, Zenon DEF Answer
  <2>6. CASE arg = <<>> /\ h[1] = "required_argument" /\ ~ (optind + 1 < argc)
    <3>1. Deliver("?", <<>>)
      BY <1>4, <1>8, <2>1, <2>6, Zenon DEF LongOption
    <3> QED
      BY <1>6, <3>1, Zenon DEF Answer
  <2>7. CASE ~ (arg # <<>> /\ h[1] = "no_argument") /\ ~ (arg = <<>> /\ h[1] = "required_argument")
    <3>1. Deliver(h[2], arg)
      BY <1>4, <1>8, <2>1, <2>7, Zenon DEF LongOption
    <3>2. <<h[2], arg>> \in Answered
      BY <1>5, <2>2, <2>3, <2>7, Zenon
    <3> QED
      BY <3>1, <3>2, Zenon DEF Answer
  <2> QED
    BY <2>4, <2>5, <2>6, <2>7, Zenon
<1> QED
  BY <1>7, <1>8, Zenon

\* So is a letter.
LEMMA ShortAnswered ==
  ASSUME Typed, ShortOption
  PROVE  \E v, a : Answer(v, a)
<1>1. gpc = "letter" /\ nextchar # <<>> /\ nextchar \in Seq(Pieces) /\ optind < argc
  <2>1. gpc = "letter"
    BY Zenon DEF ShortOption
  <2> QED
    BY <2>1 DEF Typed, Control, Letters, Elements
<1>2. PICK c, rest : c = Head(nextchar) /\ rest = Tail(nextchar)
  OBVIOUS
<1>3. rest \in Seq(Pieces)
  BY <1>1, <1>2
<1>4. <<"?", <<>> >> \in Answered
  BY DEF Answered, Answers, Optional, WithArgument
<1>5. c \in DOMAIN ShortOptions /\ c \in WithArgument => ShortOptions[c] = "required_argument"
  BY TablesAssumption, Zenon
<1>6. ASSUME c \in DOMAIN ShortOptions, NEW a \in Optional(Seq(Pieces)),
             a = <<>> => ShortOptions[c] # "required_argument"
      PROVE  <<c, a>> \in Answered
  <2>1. <<c, a>> \in Answers
    BY <1>6, Zenon DEF Answers
  <2>2. c \in WithArgument => a # <<>>
    BY <1>5, <1>6, Zenon
  <2> QED
    BY <2>1, <2>2 DEF Answered
<1>7. <<>> \in Optional(Seq(Pieces)) /\ \A e \in Seq(Pieces) : <<e>> \in Optional(Seq(Pieces)) /\ <<e>> # <<>>
  BY DEF Optional
<1>8. CASE c \in DOMAIN ShortOptions /\ ShortOptions[c] # "no_argument"
  <2>1. CASE rest # <<>>
    <3>1. Deliver(c, <<rest>>)
      BY <1>2, <1>8, <2>1, Zenon DEF ShortOption
    <3>2. <<c, <<rest>> >> \in Answered
      BY <1>3, <1>6, <1>7, <1>8, Zenon
    <3> QED
      BY <3>1, <3>2, Zenon DEF Answer
  <2>2. CASE rest = <<>> /\ ShortOptions[c] = "optional_argument"
    <3>1. Deliver(c, <<>>)
      BY <1>2, <1>8, <2>2, Zenon DEF ShortOption
    <3>2. ShortOptions[c] # "required_argument"
      BY <2>2
    <3>3. <<c, <<>> >> \in Answered
      BY <1>6, <1>7, <1>8, <3>2, Zenon
    <3> QED
      BY <3>1, <3>3, Zenon DEF Answer
  <2>3. CASE rest = <<>> /\ ShortOptions[c] # "optional_argument" /\ optind + 1 = argc
    <3>1. Deliver("?", <<>>)
      BY <1>2, <1>8, <2>3, Zenon DEF ShortOption
    <3> QED
      BY <1>4, <3>1, Zenon DEF Answer
  <2>4. CASE rest = <<>> /\ ShortOptions[c] # "optional_argument" /\ optind + 1 # argc
    <3>1. Deliver(c, <<argv[optind + 1]>>)
      BY <1>2, <1>8, <2>4, Zenon DEF ShortOption
    <3>2. optind + 1 \in Nat /\ 1 <= optind + 1 /\ optind + 1 < argc
      BY <1>1, <2>4, Numbers
    <3>3. argv[optind + 1] \in Seq(Pieces)
      BY <3>2, ElementType
    <3>4. <<c, <<argv[optind + 1]>> >> \in Answered
      BY <1>6, <1>7, <1>8, <3>3, Zenon
    <3> QED
      BY <3>1, <3>4, Zenon DEF Answer
  <2> QED
    BY <2>1, <2>2, <2>3, <2>4, Zenon
<1>9. CASE ~ (c \in DOMAIN ShortOptions /\ ShortOptions[c] # "no_argument")
  <2>1. Deliver(IF c \in DOMAIN ShortOptions THEN c ELSE "?", <<>>)
    BY <1>2, <1>9, Zenon DEF ShortOption
  <2>2. CASE c \in DOMAIN ShortOptions
    <3>1. ShortOptions[c] # "required_argument"
      BY <1>9, <2>2
    <3>2. <<c, <<>> >> \in Answered
      BY <1>6, <1>7, <2>2, <3>1, Zenon
    <3> QED
      BY <2>1, <2>2, <3>2, Zenon DEF Answer
  <2>3. CASE c \notin DOMAIN ShortOptions
    BY <1>4, <2>1, <2>3, Zenon DEF Answer
  <2> QED
    BY <2>2, <2>3
<1> QED
  BY <1>8, <1>9

\* A step of getopt_long delivers an option or nothing.
LEMMA GetOptDelivers ==
  ASSUME Typed, GetOptNext
  PROVE  /\ gpc \notin {"return", "done"}
         /\ \/ gpc' # "return" /\ delivered' = delivered
            \/ \E v, a : Answer(v, a)
<1>1. CASE LongOption \/ ShortOption
  <2>1. gpc \in {"element", "letter"}
    BY <1>1, Zenon DEF LongOption, ShortOption
  <2>2. \E v, a : Answer(v, a)
    BY <1>1, LongAnswered, ShortAnswered, Zenon
  <2> QED
    BY <2>1, <2>2
<1>2. CASE NextElement \/ Exchange \/ ExchangeEnds \/ SkipNonOption \/ SkipEnds \/ DashDash \/ NoMore
             \/ ShortElement \/ NextLetter
  <2>1. delivered' = delivered
    BY <1>2, Zenon DEF NextElement, Exchange, ExchangeEnds, SkipNonOption, SkipEnds, DashDash, NoMore,
         ShortElement, NextLetter, returned
  <2>2. gpc \in {"call", "exchange", "exchange_rest", "skip", "element", "letter"}
    BY <1>2, Zenon DEF NextElement, Exchange, ExchangeEnds, SkipNonOption, SkipEnds, DashDash, NoMore,
         ShortElement, NextLetter
  <2>3. gpc' \in {gpc, "exchange", "exchange_rest", "skip", "element", "letter", "done"}
    BY <1>2, Zenon DEF NextElement, Exchange, ExchangeEnds, SkipNonOption, SkipEnds, DashDash, NoMore,
         ShortElement, NextLetter, StartExchange
  <2> QED
    BY <2>1, <2>2, <2>3
<1> QED
  BY <1>1, <1>2, Zenon DEF GetOptNext

\* The options delivered are those, the last of them what getopt_long returns, and the
\* switch has seen the same as before.
LEMMA GetOptSeen ==
  ASSUME Typed, GetOptNext, Deliveries
  PROVE  Deliveries' /\ Seen' = Seen
<1>1. gpc # "return" /\ Seen = delivered /\ delivered \in Seq(Answered)
  BY GetOptDelivers DEF Seen, Deliveries
<1>2. CASE gpc' # "return" /\ delivered' = delivered
  BY <1>1, <1>2, Zenon DEF Seen, Deliveries
<1>3. ASSUME NEW v, NEW a, Answer(v, a) PROVE Deliveries' /\ Seen' = Seen
  <2>1. gpc' = "return" /\ opt' = v /\ optarg' = a /\ delivered' = Append(delivered, <<v, a>>)
          /\ <<v, a>> \in Answered
    BY <1>3, Zenon DEF Answer, Deliver
  <2>2. /\ Front(delivered') = delivered /\ Last(delivered') = <<v, a>>
        /\ delivered' \in Seq(Answered) /\ delivered' # <<>>
    BY <1>1, <2>1, FrontAppend, Zenon
  <2> QED
    BY <1>1, <2>1, <2>2, Zenon DEF Seen, Deliveries
<1> QED
  BY <1>2, <1>3, GetOptDelivers, Zenon

\* The switch sees one option more.
LEMMA SwitchSees ==
  ASSUME Typed, Switch, Deliveries
  PROVE  /\ Deliveries' /\ Seen \in Seq(Answers) /\ <<opt, optarg>> \in Answered
         /\ Seen' = Append(Seen, <<opt, optarg>>)
<1>1. gpc = "return" /\ gpc' = "call" /\ delivered' = delivered
  BY Zenon DEF Switch, returned
<1>2. delivered \in Seq(Answered) /\ delivered # <<>> /\ Last(delivered) = <<opt, optarg>>
  BY <1>1, Zenon DEF Deliveries
<1>3. /\ delivered = Append(Front(delivered), Last(delivered))
      /\ Front(delivered) \in Seq(Answered) /\ Last(delivered) \in Answered
  BY <1>2, FrontAnd, Zenon
<1>4. Answered \subseteq Answers
  BY DEF Answered
<1>5. Front(delivered) \in Seq(Answers)
  BY <1>3, <1>4
<1>6. Deliveries'
  BY <1>1, <1>2 DEF Deliveries
<1>7. Seen = Front(delivered) /\ Seen' = delivered
  BY <1>1 DEF Seen
<1> QED
  BY <1>2, <1>3, <1>5, <1>6, <1>7, Zenon

-----------------------------------------------------------------------------
(* What the switch makes of one option more.  *)

\* The last argument with one option more.
LEMMA LastAppend ==
  ASSUME NEW d \in Seq(Answers), NEW o \in Answers, NEW w, NEW without
  PROVE  LastOf(Arguments(Append(d, o), w), without)
           = IF o[1] = w /\ o[2] # <<>> THEN o[2] ELSE LastOf(Arguments(d, w), without)
<1>1. PICK ws, bs : ws = Arguments(d, w) /\ bs = Arguments(Append(d, o), w)
  OBVIOUS
<1>2. ws \in Seq(Seq(Pieces)) /\ bs = ws \o (IF o[1] = w THEN o[2] ELSE <<>>)
  BY <1>1, ArgumentsAppend, Zenon
<1>3. o[2] = <<>> \/ \E x \in Seq(Pieces) : o[2] = <<x>>
  BY OptionalSeq DEF Answers
<1>4. CASE o[1] # w \/ o[2] = <<>>
  <2>1. ws \o <<>> = ws
    BY <1>2, ConcatEmptySeq, Zenon
  <2>2. bs = ws
    BY ONLY <1>2, <1>4, <2>1, Zenon
  <2> QED
    BY ONLY <1>1, <1>4, <2>2, Zenon
<1>5. CASE o[1] = w /\ o[2] # <<>>
  <2>1. PICK x \in Seq(Pieces) : o[2] = <<x>>
    BY <1>3, <1>5, Zenon
  <2>2. bs = ws \o <<x>>
    BY ONLY <1>2, <1>5, <2>1, Zenon
  <2>3. LastOf(ws \o <<x>>, without) = <<x>>
    BY ONLY <1>2, <2>1, OneMore
  <2> QED
    BY ONLY <1>1, <1>5, <2>1, <2>2, <2>3, Zenon
<1> QED
  BY <1>4, <1>5

\* The first argument.
LEMMA FirstAppend ==
  ASSUME NEW d \in Seq(Answers), NEW o \in Answers, NEW w
  PROVE  /\ FirstOf(Arguments(Append(d, o), w))
              = IF o[1] = w /\ ~SomeArgument(d, w) THEN o[2] ELSE FirstOf(Arguments(d, w))
         /\ FirstOf(Arguments(d, w)) # <<>> <=> SomeArgument(d, w)
<1>1. PICK ws, bs : ws = Arguments(d, w) /\ bs = Arguments(Append(d, o), w)
  OBVIOUS
<1>2. /\ ws \in Seq(Seq(Pieces)) /\ bs = ws \o (IF o[1] = w THEN o[2] ELSE <<>>)
      /\ ws # <<>> <=> SomeArgument(d, w)
  BY <1>1, ArgumentsAppend, ArgumentsCount, Zenon
<1>3. o[2] = <<>> \/ \E x \in Seq(Pieces) : o[2] = <<x>>
  BY OptionalSeq DEF Answers
<1>4. \A x : <<x>> # <<>>
  OBVIOUS
<1>5. FirstOf(ws) # <<>> <=> ws # <<>>
  BY ONLY <1>4, Zenon DEF FirstOf
<1>6. CASE o[1] # w \/ o[2] = <<>>
  <2>1. ws \o <<>> = ws
    BY <1>2, ConcatEmptySeq, Zenon
  <2>2. bs = ws
    BY ONLY <1>2, <1>6, <2>1, Zenon
  <2> QED
    BY ONLY <1>1, <1>2, <1>5, <1>6, <2>2, Zenon
<1>7. CASE o[1] = w /\ o[2] # <<>>
  <2>1. PICK x \in Seq(Pieces) : o[2] = <<x>>
    BY <1>3, <1>7, Zenon
  <2>2. bs = ws \o <<x>>
    BY ONLY <1>2, <1>7, <2>1, Zenon
  <2>3. FirstOf(ws \o <<x>>) = IF ws = <<>> THEN <<x>> ELSE FirstOf(ws)
    BY ONLY <1>2, <2>1, OneMore
  <2> QED
    BY ONLY <1>1, <1>2, <1>5, <1>7, <2>1, <2>2, <2>3, Zenon
<1> QED
  BY <1>6, <1>7

\* The filter for options of a kind gets what they bring.
LEMMA FilterAppend ==
  ASSUME NEW d \in Seq(Answers), NEW o \in Answers, NEW w, NEW ex, NEW inc \in BOOLEAN,
         Filter(ex, Arguments(d, w), inc)
  PROVE  /\ o[1] # w => Filter(ex, Arguments(Append(d, o), w), inc)
         /\ o[1] = w /\ o[2] # <<>> =>
              Filter(AddExclude(ex, o[2][1], inc), Arguments(Append(d, o), w), inc)
<1>1. PICK ws, bs : ws = Arguments(d, w) /\ bs = Arguments(Append(d, o), w)
  OBVIOUS
<1>2. ws \in Seq(Seq(Pieces)) /\ bs = ws \o (IF o[1] = w THEN o[2] ELSE <<>>)
  BY <1>1, ArgumentsAppend, Zenon
<1>3. o[2] = <<>> \/ \E x \in Seq(Pieces) : o[2] = <<x>>
  BY OptionalSeq DEF Answers
<1>4. ASSUME o[1] # w PROVE bs = ws
  BY <1>2, <1>4, ConcatEmptySeq
<1>5. ASSUME o[1] = w, o[2] # <<>> PROVE Filter(AddExclude(ex, o[2][1], inc), bs, inc)
  <2>1. PICK x \in Seq(Pieces) : o[2] = <<x>>
    BY <1>3, <1>5, Zenon
  <2>2. o[2][1] = x
    BY <2>1
  <2>3. bs = ws \o <<x>>
    BY ONLY <1>2, <1>5, <2>1, Zenon
  <2>4. bs = Append(ws, x)
    BY ONLY <1>2, <2>1, <2>3, OneMore, Zenon
  <2>5. Filter(ex, ws, inc)
    BY <1>1, Zenon
  <2> QED
    BY <1>2, <2>1, <2>2, <2>4, <2>5, FilterAdds, Zenon
<1> QED
  BY <1>1, <1>4, <1>5, Zenon

\* Wrong options and those that ask for information.
LEMMA VerdictAppend ==
  ASSUME NEW d \in Seq(Answers), NEW o \in Answers
  PROVE  /\ Wrong(Append(d, o)) <=>
              Wrong(d) \/ o[1] = "?" \/ \E w \in {"e", "p"} : o[1] = w /\ SomeArgument(d, w)
         /\ Informative(Append(d, o)) <=> Informative(d) \/ o[1] \in {"h", "V"}
<1>1. \A w : Given(Append(d, o), w) <=> Given(d, w) \/ o[1] = w
  BY GivenAppend, Zenon
<1>2. \A w : Twice(Append(d, o), w) <=> Twice(d, w) \/ (o[1] = w /\ SomeArgument(d, w))
  BY TwiceAppend, Zenon
<1> QED
  BY ONLY <1>1, <1>2, Zenon DEF Wrong, Informative

\* The options that set a flag are none of the others.
LEMMA OtherFlags ==
  ASSUME NEW c \in DOMAIN FlagOf
  PROVE  /\ c \notin {"S", "b", "e", "p", "?", "h", "V"}
         /\ c \notin {"INCLUDE_OPTION", "EXCLUDE_OPTION", "EXCLUDE_DIR_OPTION"}
         /\ FlagOf[c] # "OPT_BACKUP"
BY DEF FlagOf

\* The variables of main after one option more.
LEMMA SwitchSwitched ==
  ASSUME Switch, NEW d \in Seq(Answers), NEW o \in Answered, o = <<opt, optarg>>,
         Switched(d), Stringed(d)
  PROVE  Switched(Append(d, o))'
<1>0. o \in Answers /\ o[1] = opt /\ o[2] = optarg /\ (opt \in WithArgument => optarg # <<>>) /\ env' = env
  BY DEF Answered, Switch
<1>1. PICK s : s = Append(d, o)
  OBVIOUS
<1>2. /\ \A w : Given(s, w) <=> Given(d, w) \/ opt = w
      /\ \A w, without : LastOf(Arguments(s, w), without)
           = IF opt = w /\ optarg # <<>> THEN optarg ELSE LastOf(Arguments(d, w), without)
      /\ Wrong(s) <=> Wrong(d) \/ opt = "?" \/ \E w \in {"e", "p"} : opt = w /\ SomeArgument(d, w)
      /\ Informative(s) <=> Informative(d) \/ opt \in {"h", "V"}
  <2>1. o \in Answers /\ o[1] = opt /\ o[2] = optarg
    BY <1>0
  <2>2. \A w : Given(s, w) <=> Given(d, w) \/ opt = w
    BY <1>1, <2>1, GivenAppend, Zenon
  <2>3. \A w, without : LastOf(Arguments(s, w), without)
           = IF opt = w /\ optarg # <<>> THEN optarg ELSE LastOf(Arguments(d, w), without)
    <3> TAKE w, without
    <3>1. LastOf(Arguments(Append(d, o), w), without)
            = IF o[1] = w /\ o[2] # <<>> THEN o[2] ELSE LastOf(Arguments(d, w), without)
      BY <2>1, LastAppend
    <3> QED
      BY ONLY <1>1, <2>1, <3>1
  <2>4. /\ Wrong(s) <=> Wrong(d) \/ opt = "?" \/ \E w \in {"e", "p"} : opt = w /\ SomeArgument(d, w)
        /\ Informative(s) <=> Informative(d) \/ opt \in {"h", "V"}
    BY <1>1, <2>1, VerdictAppend, Zenon
  <2> QED
    BY <2>2, <2>3, <2>4
<1>3. /\ pattern_string # <<>> <=> SomeArgument(d, "e")
      /\ replacement_string # <<>> <=> SomeArgument(d, "p")
  BY <1>0, FirstAppend, Zenon DEF Stringed
<1>4. /\ "OPT_BACKUP" \in flags <=> Given(d, "S") \/ Given(d, "b")
      /\ suffix_string = LastOf(Arguments(d, "S"), env.SIMPLE_BACKUP_SUFFIX)
      /\ version_control = LastOf(Arguments(d, "b"), <<>>)
      /\ failure_flag <=> Wrong(d)
      /\ exit_flag <=> Informative(d)
  BY Zenon DEF Switched
<1>5. /\ "OPT_BACKUP" \in flags' <=> Given(s, "S") \/ Given(s, "b")
      /\ suffix_string' = LastOf(Arguments(s, "S"), env.SIMPLE_BACKUP_SUFFIX)
      /\ version_control' = LastOf(Arguments(s, "b"), <<>>)
      /\ failure_flag' <=> Wrong(s)
      /\ exit_flag' <=> Informative(s)
  <2>1. CASE SetFlag
    <3>1. opt \in DOMAIN FlagOf /\ flags' = flags \cup {FlagOf[opt]}
            /\ UNCHANGED <<suffix_string, version_control, failure_flag, exit_flag>>
      BY <2>1, Zenon DEF SetFlag, backups, verdicts
    <3>2. opt \notin {"S", "b", "e", "p", "?", "h", "V"} /\ FlagOf[opt] # "OPT_BACKUP"
      BY <3>1, OtherFlags, Zenon
    <3>3. "OPT_BACKUP" \in flags' <=> "OPT_BACKUP" \in flags
      BY ONLY <3>1, <3>2
    <3> QED
      BY ONLY <1>2, <1>4, <3>1, <3>2, <3>3
  <2>2. CASE BackupOption
    <3>1. /\ flags' = flags \cup {"OPT_BACKUP"} /\ UNCHANGED <<failure_flag, exit_flag>>
          /\ \/ opt = "S" /\ suffix_string' = optarg /\ UNCHANGED version_control
             \/ /\ opt = "b" /\ UNCHANGED suffix_string
                /\ version_control' = IF optarg # <<>> THEN optarg ELSE version_control
      BY <2>2, Zenon DEF BackupOption, verdicts
    <3>2. opt = "S" => optarg # <<>>
      BY <1>0 DEF WithArgument
    <3> QED
      BY ONLY <1>2, <1>4, <3>1, <3>2
  <2>3. CASE StringOption
    <3>1. /\ UNCHANGED <<flags, suffix_string, version_control, exit_flag>>
          /\ \/ opt = "e" /\ failure_flag' = IF pattern_string # <<>> THEN TRUE ELSE failure_flag
             \/ opt = "p" /\ failure_flag' = IF replacement_string # <<>> THEN TRUE ELSE failure_flag
      BY <2>3, Zenon DEF StringOption, backups
    <3> QED
      BY ONLY <1>2, <1>3, <1>4, <3>1
  <2>4. CASE FilterOption
    <3>1. /\ UNCHANGED <<flags, suffix_string, version_control, failure_flag, exit_flag>>
          /\ opt \in {"INCLUDE_OPTION", "EXCLUDE_OPTION", "EXCLUDE_DIR_OPTION"}
      BY <2>4, Zenon DEF FilterOption, backups, verdicts
    <3> QED
      BY ONLY <1>2, <1>4, <3>1
  <2>5. CASE OtherOption
    <3>1. /\ UNCHANGED <<flags, suffix_string, version_control>>
          /\ \/ opt \in {"V", "h"} /\ exit_flag' = TRUE /\ UNCHANGED failure_flag
             \/ opt = "?" /\ failure_flag' = TRUE /\ UNCHANGED exit_flag
      BY <2>5, Zenon DEF OtherOption, backups
    <3> QED
      BY ONLY <1>2, <1>4, <3>1
  <2> QED
    BY <2>1, <2>2, <2>3, <2>4, <2>5, Zenon DEF Switch
<1> QED
  BY <1>0, <1>1, <1>5, Zenon DEF Switched

\* Its filters.
LEMMA SwitchFiltered ==
  ASSUME Switch, NEW d \in Seq(Answers), NEW o \in Answered, o = <<opt, optarg>>, Filtered(d)
  PROVE  Filtered(Append(d, o))'
<1>0. o \in Answers /\ o[1] = opt /\ o[2] = optarg /\ (opt \in WithArgument => optarg # <<>>)
  BY DEF Answered
<1>1. PICK s : s = Append(d, o)
  OBVIOUS
<1>2. \A w, ex : \A inc \in BOOLEAN : Filter(ex, Arguments(d, w), inc) =>
        /\ opt # w => Filter(ex, Arguments(s, w), inc)
        /\ opt = w /\ optarg # <<>> => Filter(AddExclude(ex, optarg[1], inc), Arguments(s, w), inc)
  <2>1. o \in Answers /\ o[1] = opt /\ o[2] = optarg
    BY <1>0
  <2> QED
    BY <1>1, <2>1, FilterAppend, Zenon
<1>3. /\ Filter(included_patterns, Arguments(d, "INCLUDE_OPTION"), TRUE)
      /\ Filter(excluded_patterns, Arguments(d, "EXCLUDE_OPTION"), FALSE)
      /\ Filter(excluded_directory_patterns, Arguments(d, "EXCLUDE_DIR_OPTION"), FALSE)
  BY Zenon DEF Filtered
<1>4. /\ Filter(included_patterns', Arguments(s, "INCLUDE_OPTION"), TRUE)
      /\ Filter(excluded_patterns', Arguments(s, "EXCLUDE_OPTION"), FALSE)
      /\ Filter(excluded_directory_patterns', Arguments(s, "EXCLUDE_DIR_OPTION"), FALSE)
  <2>0. TRUE \in BOOLEAN /\ FALSE \in BOOLEAN
    OBVIOUS
  <2>1. CASE FilterOption
    <3>1. opt \in {"INCLUDE_OPTION", "EXCLUDE_OPTION", "EXCLUDE_DIR_OPTION"}
      BY <2>1, Zenon DEF FilterOption
    <3>2. optarg # <<>>
      BY <1>0, <3>1 DEF WithArgument
    <3>3. CASE opt = "INCLUDE_OPTION"
      <4>1. /\ included_patterns' = AddExclude(included_patterns, optarg[1], TRUE)
            /\ UNCHANGED <<excluded_patterns, excluded_directory_patterns>>
            /\ opt # "EXCLUDE_OPTION" /\ opt # "EXCLUDE_DIR_OPTION"
        BY <2>1, <3>3 DEF FilterOption
      <4> QED
        BY ONLY <1>2, <1>3, <2>0, <3>2, <3>3, <4>1, Zenon
    <3>4. CASE opt = "EXCLUDE_OPTION"
      <4>1. /\ excluded_patterns' = AddExclude(excluded_patterns, optarg[1], FALSE)
            /\ UNCHANGED <<included_patterns, excluded_directory_patterns>>
            /\ opt # "INCLUDE_OPTION" /\ opt # "EXCLUDE_DIR_OPTION"
        BY <2>1, <3>4 DEF FilterOption
      <4> QED
        BY ONLY <1>2, <1>3, <2>0, <3>2, <3>4, <4>1, Zenon
    <3>5. CASE opt = "EXCLUDE_DIR_OPTION"
      <4>1. /\ excluded_directory_patterns' = AddExclude(excluded_directory_patterns, optarg[1], FALSE)
            /\ UNCHANGED <<included_patterns, excluded_patterns>>
            /\ opt # "INCLUDE_OPTION" /\ opt # "EXCLUDE_OPTION"
        BY <2>1, <3>5 DEF FilterOption
      <4> QED
        BY ONLY <1>2, <1>3, <2>0, <3>2, <3>5, <4>1, Zenon
    <3> QED
      BY <3>1, <3>3, <3>4, <3>5
  <2>2. CASE ~FilterOption
    <3>1. UNCHANGED <<included_patterns, excluded_patterns, excluded_directory_patterns>>
      BY <2>2, Zenon DEF Switch, SetFlag, BackupOption, StringOption, OtherOption, filters
    <3>2. opt \in DOMAIN FlagOf \/ opt \in {"S", "b", "e", "p", "h", "V", "?"}
      BY <2>2, Zenon DEF Switch, SetFlag, BackupOption, StringOption, OtherOption
    <3>3. opt # "INCLUDE_OPTION" /\ opt # "EXCLUDE_OPTION" /\ opt # "EXCLUDE_DIR_OPTION"
      BY <3>2, OtherFlags
    <3> QED
      BY ONLY <1>2, <1>3, <2>0, <3>1, <3>3, Zenon
  <2> QED
    BY <2>1, <2>2
<1> QED
  BY <1>1, <1>4, Zenon DEF Filtered

\* Its strings.
LEMMA SwitchStringed ==
  ASSUME Switch, NEW d \in Seq(Answers), NEW o \in Answered, o = <<opt, optarg>>, Stringed(d)
  PROVE  Stringed(Append(d, o))'
<1>0. o \in Answers /\ o[1] = opt /\ o[2] = optarg
  BY DEF Answered
<1>1. PICK s : s = Append(d, o)
  OBVIOUS
<1>2. \A w : /\ FirstOf(Arguments(s, w))
                  = IF opt = w /\ ~SomeArgument(d, w) THEN optarg ELSE FirstOf(Arguments(d, w))
             /\ FirstOf(Arguments(d, w)) # <<>> <=> SomeArgument(d, w)
  BY <1>0, <1>1, FirstAppend, Zenon
<1>3. pattern_string = FirstOf(Arguments(d, "e")) /\ replacement_string = FirstOf(Arguments(d, "p"))
        /\ file_list = <<>>
  BY Zenon DEF Stringed
<1>4. /\ pattern_string' = FirstOf(Arguments(s, "e")) /\ replacement_string' = FirstOf(Arguments(s, "p"))
      /\ file_list' = <<>>
  <2>1. CASE StringOption
    <3>1. /\ file_list' = file_list
          /\ \/ /\ opt = "e" /\ UNCHANGED replacement_string
                /\ pattern_string' = IF pattern_string # <<>> THEN pattern_string ELSE optarg
             \/ /\ opt = "p" /\ UNCHANGED pattern_string
                /\ replacement_string' = IF replacement_string # <<>> THEN replacement_string ELSE optarg
      BY <2>1, Zenon DEF StringOption
    <3> QED
      BY ONLY <1>2, <1>3, <3>1
  <2>2. CASE ~StringOption
    <3>1. UNCHANGED <<pattern_string, replacement_string, file_list>>
      BY <2>2, Zenon DEF Switch, SetFlag, BackupOption, FilterOption, OtherOption, strings
    <3>2. opt \in DOMAIN FlagOf
            \/ opt \in {"S", "b", "INCLUDE_OPTION", "EXCLUDE_OPTION", "EXCLUDE_DIR_OPTION", "h", "V", "?"}
      BY <2>2, Zenon DEF Switch, SetFlag, BackupOption, FilterOption, OtherOption
    <3>3. opt # "e" /\ opt # "p"
      BY <3>2, OtherFlags
    <3> QED
      BY ONLY <1>2, <1>3, <3>1, <3>3, Zenon
  <2> QED
    BY <2>1, <2>2
<1> QED
  BY <1>1, <1>4, Zenon DEF Stringed

-----------------------------------------------------------------------------
(* The first invariant.  *)

\* Without options.
LEMMA WInvInit == Init => WInv
<1> SUFFICES ASSUME Init PROVE WInv
  OBVIOUS
<1>1. GetOptInit
  BY DEF Init
<1>2. gpc = "call" /\ delivered = <<>>
  BY <1>1, Zenon DEF GetOptInit
<1>3. /\ flags = {} /\ pattern_string = <<>> /\ replacement_string = <<>> /\ file_list = <<>>
      /\ suffix_string = env.SIMPLE_BACKUP_SUFFIX /\ version_control = <<>> /\ backup_method = ""
      /\ included_patterns = <<>> /\ excluded_patterns = <<>> /\ excluded_directory_patterns = <<>>
      /\ failure_flag = FALSE /\ exit_flag = FALSE
  BY Zenon DEF Init
<1>4. \A w : Arguments(<<>>, w) = <<>> /\ ~Given(<<>>, w) /\ ~Twice(<<>>, w)
  BY NoOptions, Zenon
<1>5. Deliveries /\ Seen = <<>>
  BY <1>2 DEF Deliveries, Seen
<1>6. Switched(<<>>)
  BY <1>3, <1>4, Zenon DEF Switched, LastOf, Wrong, Informative
<1>7. Filtered(<<>>)
  BY <1>3, <1>4, NoFilter, Zenon DEF Filtered
<1>8. Stringed(<<>>)
  BY <1>3, <1>4, Zenon DEF Stringed, FirstOf
<1> QED
  BY <1>3, <1>5, <1>6, <1>7, <1>8, Zenon DEF WInv

\* What a step keeps that changes none of it.
LEMMA WInvSame ==
  ASSUME WInv, Deliveries', Seen' = Seen,
         UNCHANGED <<env, flags, suffix_string, version_control, filters, verdicts>>,
         backup_method' # "" => gpc' = "done",
         backup_method' = "" => backup_method = "" /\ UNCHANGED strings
  PROVE  WInv'
<1>1. Switched(Seen) /\ Filtered(Seen) /\ (backup_method = "" => Stringed(Seen))
  BY Zenon DEF WInv
<1>2. Switched(Seen)'
  BY <1>1, Zenon DEF Switched, verdicts
<1>3. Filtered(Seen)'
  BY <1>1, Zenon DEF Filtered, filters
<1>4. backup_method' = "" => Stringed(Seen)'
  BY <1>1, Zenon DEF Stringed, strings
<1> QED
  BY <1>2, <1>3, <1>4, Zenon DEF WInv

\* With one option more, and with all of them.
LEMMA WInvStep == GInv /\ WInv /\ [Next]_vars => WInv'
<1> SUFFICES ASSUME GInv, WInv, [Next]_vars PROVE WInv'
  OBVIOUS
<1>0. Typed /\ Deliveries /\ (backup_method # "" => gpc = "done")
  BY Zenon DEF GInv, WInv
<1>1. CASE GetOptNext /\ UNCHANGED <<env, flags, strings, backups, filters, verdicts, outcome>>
  <2>1. Deliveries' /\ Seen' = Seen /\ gpc # "done"
    BY <1>0, <1>1, GetOptSeen, GetOptDelivers
  <2>2. UNCHANGED <<env, flags, strings, suffix_string, version_control, backup_method, filters, verdicts>>
    BY <1>1, Zenon DEF backups
  <2> QED
    BY <1>0, <2>1, <2>2, WInvSame, Zenon
<1>2. CASE Switch
  <2>1. /\ Deliveries' /\ Seen \in Seq(Answers) /\ <<opt, optarg>> \in Answered
        /\ Seen' = Append(Seen, <<opt, optarg>>)
    BY <1>0, <1>2, SwitchSees
  <2>2. PICK d \in Seq(Answers), o \in Answered :
          d = Seen /\ o = <<opt, optarg>> /\ Seen' = Append(d, o)
    BY <2>1
  <2>3. gpc = "return" /\ backup_method' = backup_method
    BY <1>2, Zenon DEF Switch, SetFlag, BackupOption, StringOption, FilterOption, OtherOption, backups
  <2>4. backup_method = ""
    BY <1>0, <2>3
  <2>5. Switched(d) /\ Filtered(d) /\ Stringed(d)
    BY <2>2, <2>4, Zenon DEF WInv
  <2>6. Switched(Append(d, o))' /\ Filtered(Append(d, o))' /\ Stringed(Append(d, o))'
    BY <1>2, <2>2, <2>5, SwitchSwitched, SwitchFiltered, SwitchStringed
  <2>7. PICK s : s = Append(d, o)
    OBVIOUS
  <2>8. Switched(Seen)'
    BY <2>2, <2>6, Zenon DEF Switched
  <2>9. Filtered(Seen)'
    BY <2>2, <2>6, Zenon DEF Filtered
  <2>10. Stringed(Seen)'
    BY <2>2, <2>6, Zenon DEF Stringed
  <2> QED
    BY <2>1, <2>3, <2>4, <2>8, <2>9, <2>10, Zenon DEF WInv
<1>3. CASE Usage \/ Information \/ ChooseBackups \/ TakeOperand \/ Dispatch \/ MallocFails
  <2>1. gpc = "done"
    BY <1>3, Zenon DEF Usage, Information, ChooseBackups, TakeOperand, Dispatch, MallocFails, Scanned, Chosen
  <2>2. gpc' = "done" /\ delivered' = delivered /\ (backup_method' = "" => backup_method = "")
    BY <2>1, DoneStep
  <2>3. /\ UNCHANGED <<env, flags, suffix_string, version_control, filters, verdicts>>
        /\ backup_method = "" => UNCHANGED strings
    <3>1. CASE Usage \/ Information \/ Dispatch \/ MallocFails
      BY <3>1, Zenon DEF Usage, Information, Dispatch, MallocFails, EndsWith, backups
    <3>2. CASE ChooseBackups
      BY <3>2, Zenon DEF ChooseBackups, EndsWith
    <3>3. CASE TakeOperand
      BY <3>3, Zenon DEF TakeOperand, Chosen, backups
    <3> QED
      BY <1>3, <3>1, <3>2, <3>3
  <2>4. Deliveries' /\ Seen' = Seen
    BY <1>0, <2>1, <2>2 DEF Deliveries, Seen
  <2> QED
    BY <2>2, <2>3, <2>4, WInvSame, Zenon
<1>4. CASE UNCHANGED vars
  <2>1. /\ UNCHANGED <<env, flags, strings, suffix_string, version_control, backup_method, filters, verdicts>>
        /\ UNCHANGED <<gpc, opt, optarg, delivered>>
    BY <1>4, Zenon DEF vars, getopt_vars, returned, backups
  <2>2. Deliveries' /\ Seen' = Seen
    BY <1>0, <2>1, Zenon DEF Deliveries, Seen
  <2> QED
    BY <1>0, <2>1, <2>2, WInvSame, Zenon
<1> QED
  BY <1>1, <1>2, <1>3, <1>4, Zenon DEF Next, Works

-----------------------------------------------------------------------------
(* The words: what operands do to them.  *)

\* At most one is the first one, if any.
LEMMA AtMostOne ==
  ASSUME NEW T, NEW ws \in Seq(T), Len(ws) <= 1
  PROVE  FirstOf(ws) = ws /\ FirstOf(ws) \in Optional(T)
<1>1. CASE ws = <<>>
  BY <1>1 DEF FirstOf, Optional
<1>2. CASE ws # <<>>
  <2>1. PICK x \in T : ws = <<x>>
    <3>0. Len(ws) \in Nat /\ Len(ws) # 0
      BY <1>2
    <3>e. \A n \in Nat : n # 0 /\ n <= 1 => n = 1
      OBVIOUS
    <3>1. Len(ws) = 1
      BY <3>0, <3>e, Zenon
    <3>2. PICK x \in T : x = ws[1]
      BY <3>1
    <3>3. <<x>> \in Seq(T) /\ Len(<<x>>) = 1 /\ <<x>>[1] = x
      BY <3>2
    <3>4. \A i \in 1 .. 1 : i = 1
      OBVIOUS
    <3>5. \A i \in 1 .. Len(ws) : ws[i] = <<x>>[i]
      BY ONLY <3>1, <3>2, <3>3, <3>4, Zenon
    <3> QED
      BY <3>1, <3>2, <3>3, <3>5, SeqEqual, Zenon
  <2>2. Head(ws) = x
    BY <2>1
  <2> QED
    BY <1>2, <2>1, <2>2, Zenon DEF FirstOf, Optional
<1> QED
  BY <1>1, <1>2

\* At first pattern and replacement are those of the options.
LEMMA CombinedFirst ==
  ASSUME NEW d \in Seq(Answers), NEW rest \in Seq(Seq(Pieces)), ~Wrong(d),
         NEW P, P = FirstOf(Arguments(d, "e")), NEW R, R = FirstOf(Arguments(d, "p"))
  PROVE  /\ P \in Optional(Seq(Pieces)) /\ R \in Optional(Seq(Pieces))
         /\ WordsFor(d, rest) = Combined(P, R, <<>>, rest)
<1>1. ~Twice(d, "e") /\ ~Twice(d, "p")
  BY Zenon DEF Wrong
<1>2. PICK e, p : e = Arguments(d, "e") /\ p = Arguments(d, "p")
  OBVIOUS
<1>3. e \in Seq(Seq(Pieces)) /\ Len(e) <= 1 /\ p \in Seq(Seq(Pieces)) /\ Len(p) <= 1
  BY <1>1, <1>2, ArgumentsCount, Zenon
<1>4. P = e /\ R = p /\ P \in Optional(Seq(Pieces)) /\ R \in Optional(Seq(Pieces))
  BY <1>2, <1>3, AtMostOne, Zenon
<1>5. <<>> \o rest = rest
  BY ConcatEmptySeq, Zenon
<1>6. WordsFor(d, rest) = e \o (IF p = <<>> THEN rest
                                ELSE IF e # <<>> \/ rest = <<>> THEN p \o rest
                                ELSE <<Head(rest)>> \o p \o Tail(rest))
  BY <1>2, Zenon DEF WordsFor
<1>7. Combined(e, p, <<>>, rest) = e \o (IF p = <<>> THEN rest
                                         ELSE IF e # <<>> \/ rest = <<>> THEN p \o (<<>> \o rest)
                                         ELSE <<Head(rest)>> \o p \o Tail(rest))
  BY Zenon DEF Combined
<1> QED
  BY ONLY <1>4, <1>5, <1>6, <1>7, Zenon

\* An operand becomes the pattern, the replacement or a file: the words stay.
LEMMA CombinedTakes ==
  ASSUME NEW T, NEW P \in Seq(T), NEW R \in Seq(T), NEW F \in Seq(T), NEW x \in T, NEW r \in Seq(T),
         <<>> \in {P, R} => F = <<>>
  PROVE  LET now == Combined(P, R, F, <<x>> \o r) IN
         /\ P = <<>> => now = Combined(<<x>>, R, F, r)
         /\ P # <<>> /\ R = <<>> => now = Combined(P, <<x>>, F, r)
         /\ P # <<>> /\ R # <<>> => now = Combined(P, R, Append(F, x), r)
<1>1. PICK u : u = <<x>>
  OBVIOUS
<1>2. u \in Seq(T) /\ u # <<>> /\ Head(u \o r) = x /\ Tail(u \o r) = r /\ u \o r # <<>>
        /\ Append(F, x) = F \o u
  <2>1. u \in Seq(T) /\ u # <<>> /\ u \o r # <<>> /\ Append(F, x) = F \o u
    BY <1>1
  <2>2. Head(u \o r) = x
    BY <1>1
  <2>3. Tail(u \o r) = r
    BY <1>1
  <2> QED
    BY <2>1, <2>2, <2>3
<1>3. \A s \in Seq(T) : <<>> \o s = s /\ s \o <<>> = s
  BY ConcatEmptySeq, Zenon
<1>4. \A s, t, v \in Seq(T) : (s \o t) \o v = s \o (t \o v)
  <2>1. Regroups(T)
    BY Reassociate, Zenon
  <2> QED
    BY ONLY <2>1, Zenon DEF Regroups
<1>5. \A s, t \in Seq(T) : s \o t \in Seq(T)
  OBVIOUS
<1>6. PICK now : now = Combined(P, R, F, u \o r)
  OBVIOUS
<1>7. now = P \o (IF R = <<>> THEN u \o r
                  ELSE IF P # <<>> THEN R \o (F \o (u \o r))
                  ELSE (u \o R) \o r)
  BY ONLY <1>1, <1>2, <1>6, Zenon DEF Combined
<1>8. ASSUME P = <<>> PROVE now = Combined(u, R, F, r)
  <2>0. F = <<>>
    BY <1>8
  <2>1. Combined(u, R, F, r) = u \o (IF R = <<>> THEN r ELSE R \o (F \o r))
    BY ONLY <1>2, Zenon DEF Combined
  <2>2. CASE R = <<>>
    <3>1. now = P \o (u \o r) /\ u \o r \in Seq(T)
      BY <1>2, <1>5, <1>7, <2>2, Zenon
    <3> QED
      BY ONLY <1>3, <1>8, <2>1, <2>2, <3>1, Zenon
  <2>3. CASE R # <<>>
    <3>1. now = P \o ((u \o R) \o r) /\ (u \o R) \o r \in Seq(T)
      BY <1>2, <1>5, <1>7, <1>8, <2>3, Zenon
    <3>2. (u \o R) \o r = u \o (R \o r)
      BY <1>2, <1>4, Zenon
    <3>3. F \o r = r
      BY <1>3, <2>0, Zenon
    <3> QED
      BY ONLY <1>3, <1>8, <2>1, <2>3, <3>1, <3>2, <3>3, Zenon
  <2> QED
    BY <2>2, <2>3
<1>9. ASSUME P # <<>>, R = <<>> PROVE now = Combined(P, u, F, r)
  <2>1. F \o r = r
    BY <1>3, <1>9, Zenon
  <2>2. Combined(P, u, F, r) = P \o (u \o (F \o r))
    BY ONLY <1>2, <1>9, Zenon DEF Combined
  <2> QED
    BY ONLY <1>7, <1>9, <2>1, <2>2, Zenon
<1>10. ASSUME P # <<>>, R # <<>> PROVE now = Combined(P, R, Append(F, x), r)
  <2>1. Combined(P, R, Append(F, x), r) = P \o (R \o (Append(F, x) \o r))
    BY ONLY <1>10, Zenon DEF Combined
  <2>2. (F \o u) \o r = F \o (u \o r)
    BY <1>2, <1>4, Zenon
  <2> QED
    BY ONLY <1>2, <1>7, <1>10, <2>1, <2>2, Zenon
<1> QED
  BY <1>1, <1>6, <1>8, <1>9, <1>10, Zenon

\* The words are these, and two of them are needed.
Dealt(P, R, F, words) ==
  /\ <<>> \in {P, R} => Len(words) < 2
  /\ <<>> \notin {P, R} => Len(words) > 1 /\ P \o R \o F = words /\ Tail(Tail(words)) = F

\* When no operand is left, they are what was taken.
LEMMA CombinedEnds ==
  ASSUME NEW T, NEW P \in Optional(T), NEW R \in Optional(T), NEW F \in Seq(T),
         <<>> \in {P, R} => F = <<>>,
         NEW words, words = Combined(P, R, F, <<>>)
  PROVE  Dealt(P, R, F, words)
<1>1. /\ \A s \in Seq(T) : <<>> \o s = s /\ s \o <<>> = s
      /\ <<>> \in Seq(T)
  BY ConcatEmptySeq
<1>2. /\ P \in Seq(T) /\ R \in Seq(T) /\ Len(P) <= 1 /\ Len(R) <= 1
      /\ P = <<>> \/ \E a \in T : P = <<a>>
      /\ R = <<>> \/ \E b \in T : R = <<b>>
  BY OptionalLength, OptionalSeq, Zenon
<1>3. words = P \o (IF R = <<>> THEN <<>> ELSE R \o F)
  BY <1>1, Zenon DEF Combined
<1>4. ASSUME <<>> \in {P, R} PROVE Len(words) < 2
  <2>1. F = <<>>
    BY <1>4
  <2>2. words \in {P, R}
    BY <1>1, <1>2, <1>3, <1>4, <2>1, Zenon
  <2>3. Len(P) < 2 /\ Len(R) < 2
    BY <1>2
  <2> QED
    BY <2>2, <2>3, Zenon
<1>5. ASSUME <<>> \notin {P, R}
      PROVE  /\ Len(words) > 1 /\ P \o R \o F = words
             /\ Tail(Tail(words)) = F
  <2>1. PICK a \in T, b \in T : P = <<a>> /\ R = <<b>>
    BY <1>2, <1>5
  <2>2. words = <<a>> \o (<<b>> \o F)
    BY <1>3, <1>5, <2>1, Zenon
  <2>3. /\ Len(<<a>> \o (<<b>> \o F)) > 1 /\ <<a>> \o <<b>> \o F = <<a>> \o (<<b>> \o F)
        /\ Tail(<<a>> \o (<<b>> \o F)) = <<b>> \o F
        /\ Tail(<<b>> \o F) = F
    OBVIOUS
  <2> QED
    BY ONLY <2>1, <2>2, <2>3, Zenon
<1> QED
  BY <1>4, <1>5 DEF Dealt


-----------------------------------------------------------------------------
(* The second invariant.  *)

\* The command line means the same as long as it is the same.
LEMMA ScanSame ==
  ASSUME UNCHANGED <<args, ordering>>
  PROVE  Scan(args)' = Scan(args)
BY DEF Scan

\* The words for backups mean the same in the same environment.
LEMMA TypesSame ==
  ASSUME UNCHANGED env, NEW d
  PROVE  TypesFor(d)' = TypesFor(d)
BY Zenon DEF TypesFor, XgetVersion

\* Nothing is left to do once the outcome is decided.
LEMMA DecidedStays ==
  ASSUME outcome # "", gpc = "done", Typed, [Next]_vars
  PROVE  UNCHANGED vars
<1>1. ~GetOptNext
  BY GetOptDelivers
<1>2. ~Switch
  BY Zenon DEF Switch
<1>3. ~Usage /\ ~Information /\ ~ChooseBackups /\ ~TakeOperand /\ ~Dispatch /\ ~MallocFails
  BY Zenon DEF Usage, Information, ChooseBackups, TakeOperand, Dispatch, MallocFails, Scanned, Chosen
<1> QED
  BY <1>1, <1>2, <1>3, Zenon DEF Next, Works

\* It is kept where nothing changes.
LEMMA OInvSame == OInv /\ UNCHANGED vars => OInv'
<1> SUFFICES ASSUME OInv, UNCHANGED vars PROVE OInv'
  OBVIOUS
<1>1. /\ UNCHANGED <<argv, ordering, optind, gpc, args, delivered, env, backup_method>>
      /\ UNCHANGED <<simple_backup_suffix, pattern_string, replacement_string, file_list, outcome>>
  BY Zenon DEF vars, getopt_vars, scan, returned, strings, backups
<1>2. Scan(args)' = Scan(args)
  BY <1>1, ScanSame, Zenon
<1>3. Ready' = Ready
  BY <1>1, Zenon DEF Ready, TypesFor, XgetVersion
<1>4. Operands' = Operands
  BY <1>1, <1>2, <1>3, Zenon DEF Operands
<1>5. OutcomeRight' = OutcomeRight
  BY <1>1, <1>2, Zenon DEF OutcomeRight, OutcomeFor, TypesFor, XgetVersion
<1> QED
  BY <1>1, <1>2, <1>4, <1>5, Zenon DEF OInv

\* Where nothing is decided and no backups are chosen, there is nothing to show.
LEMMA OInvBefore ==
  ASSUME outcome = "", backup_method = ""
  PROVE  OInv
BY DEF OInv, OutcomeRight

\* While options are scanned nothing is decided.
LEMMA OInvScanning ==
  ASSUME OInv, Typed, \/ GetOptNext /\ UNCHANGED <<env, flags, strings, backups, filters, verdicts, outcome>>
                      \/ Switch
  PROVE  OInv'
<1>1. gpc # "done"
  BY GetOptDelivers, Zenon DEF Switch
<1>2. outcome = "" /\ backup_method = ""
  BY <1>1, Zenon DEF OInv
<1>3. outcome' = outcome /\ backup_method' = backup_method
  BY Zenon DEF Switch, SetFlag, BackupOption, StringOption, FilterOption, OtherOption, backups
<1>4. outcome' = "" /\ backup_method' = ""
  BY <1>2, <1>3, Zenon
<1> QED
  BY <1>4 DEF OInv, OutcomeRight

\* What the variables of main say once all options are seen.
LEMMA AllSeen ==
  ASSUME WInv, gpc = "done"
  PROVE  /\ delivered \in Seq(Answered) /\ delivered \in Seq(Answers)
         /\ Switched(delivered) /\ Filtered(delivered)
         /\ backup_method = "" => Stringed(delivered)
<1>1. Seen = delivered
  BY Zenon DEF Seen
<1>2. Answered \subseteq Answers
  BY DEF Answered
<1>3. delivered \in Seq(Answered)
  BY Zenon DEF WInv, Deliveries
<1>4. delivered \in Seq(Answers)
  BY <1>2, <1>3
<1> QED
  BY <1>1, <1>3, <1>4, Zenon DEF WInv

\* The program ends: with what, and what has to be shown.
LEMMA OInvEnds ==
  ASSUME gpc' = "done", UNCHANGED <<args, ordering, env, delivered>>, outcome' # "",
         NEW ops, Scan(args).options = delivered, Scan(args).operands = ops,
         outcome' = "failure" =>
           Wrong(delivered) \/ Cardinality(TypesFor(delivered)) # 1 \/ Len(WordsFor(delivered, ops)) < 2,
         outcome' = "information" => ~Wrong(delivered) /\ Informative(delivered),
         outcome' \notin {"filter", "files"}
  PROVE  OInv'
<1>1. Scan(args)' = Scan(args)
  BY ScanSame, Zenon
<1>2. TypesFor(delivered)' = TypesFor(delivered)
  BY Zenon DEF TypesFor, XgetVersion
<1>3. PICK d, s : d = delivered /\ s = Scan(args)
  OBVIOUS
<1>4. d = delivered' /\ s = Scan(args)' /\ s.options = d /\ s.operands = ops
  BY <1>1, <1>3, Zenon
<1>5. OutcomeFor(d, ops)'
  BY <1>3, Zenon DEF OutcomeFor, TypesFor, XgetVersion
<1>6. OutcomeRight'
  BY <1>4, <1>5, Zenon DEF OutcomeRight, OutcomeFor, TypesFor, XgetVersion
<1> QED
  BY <1>1, <1>6, Zenon DEF OInv

\* A wrong option, or one that asks for information, or no memory.
LEMMA OInvStops ==
  ASSUME WInv, OInv, ScansInOrder, Usage \/ Information
  PROVE  OInv'
<1>1. Scanned /\ UNCHANGED <<getopt_vars, env>>
        /\ \/ failure_flag /\ outcome' = "failure"
           \/ ~failure_flag /\ exit_flag /\ outcome' = "information"
  BY Zenon DEF Usage, Information, EndsWith
<1>2. gpc = "done" /\ gpc' = "done" /\ UNCHANGED <<args, ordering, env, delivered>>
  BY <1>1, Zenon DEF Scanned, getopt_vars, returned
<1>3. PICK d, ops : d = delivered /\ ops = SubSeq(argv, optind, Len(argv))
  OBVIOUS
<1>4. Scan(args) = [options |-> d, operands |-> ops]
  BY <1>1, <1>3, Zenon DEF ScansInOrder
<1>5. Scan(args).options = delivered /\ Scan(args).operands = ops
  <2>1. \A x, y : [options |-> x, operands |-> y].options = x /\ [options |-> x, operands |-> y].operands = y
    OBVIOUS
  <2> QED
    BY <1>3, <1>4, <2>1, Zenon
<1>6. (failure_flag <=> Wrong(delivered)) /\ (exit_flag <=> Informative(delivered))
  BY <1>2, AllSeen, Zenon DEF Switched
<1>7. /\ outcome' = "failure" => Wrong(delivered)
      /\ outcome' = "information" => ~Wrong(delivered) /\ Informative(delivered)
      /\ outcome' \notin {"", "filter", "files"}
  BY ONLY <1>1, <1>6
<1> QED
  BY <1>2, <1>5, <1>7, OInvEnds

\* No memory is no verdict.
LEMMA OInvMalloc ==
  ASSUME OInv, ScansInOrder, MallocFails
  PROVE  OInv'
<1>1. gpc = "done" /\ (Scanned \/ backup_method # "") /\ outcome' = "no_memory"
        /\ UNCHANGED <<getopt_vars, env>>
  BY Zenon DEF MallocFails, EndsWith, Scanned, Chosen
<1>2. gpc' = "done" /\ UNCHANGED <<args, ordering, env, delivered>>
  BY <1>1, Zenon DEF getopt_vars, returned
<1>3. Scan(args).options = delivered
  <2>1. CASE Scanned
    <3>1. PICK d, ops : d = delivered /\ ops = SubSeq(argv, optind, Len(argv))
      OBVIOUS
    <3>2. Scan(args) = [options |-> d, operands |-> ops]
      BY <2>1, <3>1, Zenon DEF ScansInOrder
    <3> QED
      BY ONLY <3>1, <3>2
  <2>2. CASE backup_method # ""
    BY <2>2, Zenon DEF OInv
  <2> QED
    BY <1>1, <2>1, <2>2
<1>4. PICK ops : ops = Scan(args).operands
  OBVIOUS
<1> QED
  BY <1>1, <1>2, <1>3, <1>4, OInvEnds

\* The type of backups, and the suffix: those that the options ask for.
LEMMA OInvChooses ==
  ASSUME GInv, WInv, OInv, ScansInOrder, ChooseBackups
  PROVE  OInv'
<1>1. PICK types : types = IF "OPT_BACKUP" \in flags THEN XgetVersion(version_control) ELSE {"none"}
  OBVIOUS
<1>2. /\ Scanned /\ ~failure_flag /\ ~exit_flag
      /\ simple_backup_suffix' = IF suffix_string # <<>> THEN suffix_string[1] ELSE simple_backup_suffix
      /\ \/ Cardinality(types) = 1 /\ backup_method' \in types /\ outcome' = ""
         \/ Cardinality(types) # 1 /\ outcome' = "failure"
      /\ UNCHANGED <<getopt_vars, env, strings>>
  BY <1>1, Zenon DEF ChooseBackups, EndsWith
<1>3. gpc = "done" /\ backup_method = "" /\ gpc' = "done"
        /\ UNCHANGED <<argv, optind, args, ordering, env, delivered>>
        /\ UNCHANGED <<pattern_string, replacement_string, file_list>>
  BY <1>2, Zenon DEF Scanned, getopt_vars, scan, returned, strings
<1>4. PICK d, ops, P, R : d = delivered /\ ops = SubSeq(argv, optind, Len(argv))
                            /\ P = pattern_string /\ R = replacement_string
  OBVIOUS
<1>5. Scan(args).options = delivered /\ Scan(args).operands = ops
  <2>1. Scan(args) = [options |-> d, operands |-> ops]
    BY <1>2, <1>4, Zenon DEF ScansInOrder
  <2>2. \A x, y : [options |-> x, operands |-> y].options = x /\ [options |-> x, operands |-> y].operands = y
    OBVIOUS
  <2> QED
    BY <1>4, <2>1, <2>2, Zenon
<1>6. /\ d \in Seq(Answered) /\ d \in Seq(Answers)
      /\ "OPT_BACKUP" \in flags <=> Given(d, "S") \/ Given(d, "b")
      /\ suffix_string = LastOf(Arguments(d, "S"), env.SIMPLE_BACKUP_SUFFIX)
      /\ version_control = LastOf(Arguments(d, "b"), <<>>)
      /\ ~Wrong(d) /\ ~Informative(d)
      /\ P = FirstOf(Arguments(d, "e")) /\ R = FirstOf(Arguments(d, "p")) /\ file_list = <<>>
  BY <1>2, <1>3, <1>4, AllSeen, Zenon DEF Switched, Stringed
<1>7. TypesFor(d) = types
  BY ONLY <1>1, <1>6, Zenon DEF TypesFor, LastOf
<1>8. CASE Cardinality(types) # 1 /\ outcome' = "failure"
  <2>1. outcome' # "" /\ outcome' # "information" /\ outcome' \notin {"filter", "files"}
    BY <1>8
  <2>2. Cardinality(TypesFor(delivered)) # 1
    BY <1>4, <1>7, <1>8, Zenon
  <2> QED
    BY <1>3, <1>5, <2>1, <2>2, OInvEnds, Zenon
<1>9. CASE Cardinality(types) = 1 /\ backup_method' \in types /\ outcome' = ""
  <2>1. types = {backup_method'} /\ backup_method' # ""
    <3>1. types \subseteq {"none", "simple", "existing", "numbered"}
      BY <1>1, VersionType
    <3>2. IsFiniteSet({"none", "simple", "existing", "numbered"})
      <4>1. \A S, x : IsFiniteSet(S) => IsFiniteSet(S \cup {x})
        BY FS_AddElement
      <4>2. IsFiniteSet({"none"})
        BY FS_Singleton
      <4>3. IsFiniteSet({"none"} \cup {"simple"} \cup {"existing"} \cup {"numbered"})
        BY <4>1, <4>2, Zenon
      <4>4. {"none"} \cup {"simple"} \cup {"existing"} \cup {"numbered"}
              = {"none", "simple", "existing", "numbered"}
        OBVIOUS
      <4> QED
        BY <4>3, <4>4, Zenon
    <3>3. IsFiniteSet(types)
      BY <3>1, <3>2, FS_Subset
    <3>4. PICK h : types = {h}
      BY <1>9, <3>3, FS_Singleton
    <3> QED
      BY <1>9, <3>1, <3>4
  <2>2. Given(d, "S") => simple_backup_suffix' = Last(Arguments(d, "S"))
    <3>1. SUFFICES ASSUME Given(d, "S") PROVE simple_backup_suffix' = Last(Arguments(d, "S"))
      OBVIOUS
    <3>2. SomeArgument(d, "S")
      <4>1. PICK k \in DOMAIN d : d[k][1] = "S"
        BY <3>1, Zenon DEF Given
      <4>2. d[k] \in Answered
        BY <1>6
      <4>3. d[k][2] # <<>>
        BY <4>1, <4>2 DEF Answered, WithArgument
      <4> QED
        BY <4>1, <4>3, Zenon DEF SomeArgument
    <3>3. Arguments(d, "S") # <<>>
      BY <1>6, <3>2, ArgumentsCount, Zenon
    <3>4. PICK l : l = Last(Arguments(d, "S"))
      OBVIOUS
    <3>5. suffix_string = <<l>>
      BY ONLY <1>6, <3>3, <3>4, Zenon DEF LastOf
    <3>6. suffix_string # <<>> /\ suffix_string[1] = l
      BY ONLY <3>5
    <3> QED
      BY ONLY <1>2, <3>4, <3>6, Zenon
  <2>3. ops \in Seq(Seq(Pieces))
    <3>1. argv \in Seq(Seq(Pieces)) /\ optind \in Nat /\ 1 <= optind /\ optind <= Len(argv) + 1
      BY Lengths, Numbers DEF GInv
    <3>2. PICK n \in Nat : n = Len(argv) + 1 /\ Len(argv) = n - 1
      BY <3>1
    <3>3. SubSeq(argv, optind, n - 1) \in Seq(Seq(Pieces))
      BY <3>1, <3>2, Part
    <3> QED
      BY <1>4, <3>2, <3>3, Zenon
  <2>4. /\ P \in Optional(Seq(Pieces)) /\ R \in Optional(Seq(Pieces))
        /\ WordsFor(d, ops) = Combined(P, R, <<>>, ops)
    BY <1>6, <2>3, CombinedFirst, Zenon
  <2>5. Scan(args)' = Scan(args)
    BY <1>3, ScanSame, Zenon
  <2>6. Ready'
    <3>1. TypesFor(d)' = {backup_method'}
      BY <1>3, <1>7, <2>1, TypesSame, Zenon
    <3>2. d = delivered'
      BY <1>3, <1>4, Zenon
    <3> QED
      BY <1>6, <2>2, <3>1, <3>2, Zenon DEF Ready, TypesFor, XgetVersion
  <2>7. Operands'
    <3>1. /\ d = delivered' /\ P = pattern_string' /\ R = replacement_string' /\ file_list' = <<>>
          /\ ops = SubSeq(argv', optind', Len(argv')) /\ Scan(args)'.operands = ops
      BY <1>3, <1>4, <1>5, <1>6, <2>5, Zenon
    <3>2. <<>> \in Seq(Seq(Pieces))
      OBVIOUS
    <3> QED
      BY <1>3, <2>4, <2>6, <3>1, <3>2, Zenon DEF Operands
  <2> QED
    BY <1>3, <1>5, <1>9, <2>5, <2>7, Zenon DEF OInv, OutcomeRight
<1> QED
  BY <1>2, <1>8, <1>9, Zenon

\* An operand that is left, and those behind it.
LEMMA RestIs ==
  ASSUME GInv, NEW rest, rest = SubSeq(argv, optind, Len(argv))
  PROVE  /\ optind = argc => rest = <<>>
         /\ optind < argc =>
              /\ argv[optind] \in Seq(Pieces)
              /\ SubSeq(argv, optind + 1, Len(argv)) \in Seq(Seq(Pieces))
              /\ rest = <<argv[optind]>> \o SubSeq(argv, optind + 1, Len(argv))
<1>0. /\ argv \in Seq(Seq(Pieces)) /\ Len(argv) \in Nat /\ argc = Len(argv) + 1
      /\ optind \in Nat /\ 1 <= optind /\ optind <= argc
  BY Lengths, Numbers DEF GInv
<1>1. PICK len \in Nat, n \in Nat : len = Len(argv) /\ n = optind + 1
  BY <1>0
<1>2. ASSUME optind = argc PROVE rest = <<>>
  <2>1. SubSeq(argv, argc, argc - 1) = <<>>
    BY <1>0, EmptyPart
  <2>2. argc - 1 = Len(argv)
    BY <1>0
  <2> QED
    BY <1>2, <2>1, <2>2, Zenon
<1>3. ASSUME optind < argc
      PROVE  /\ argv[optind] \in Seq(Pieces) /\ SubSeq(argv, n, len) \in Seq(Seq(Pieces))
             /\ rest = <<argv[optind]>> \o SubSeq(argv, n, len)
  <2>1. optind <= len /\ n <= len + 1 /\ 1 <= n /\ optind <= n /\ n - 1 = optind
    BY <1>0, <1>1, <1>3
  <2>2. SubSeq(argv, optind, optind) = <<argv[optind]>> /\ argv[optind] \in Seq(Pieces)
    BY <1>0, <1>1, <2>1, OnePart
  <2>3. SubSeq(argv, optind, n - 1) \o SubSeq(argv, n, len) = SubSeq(argv, optind, len)
    <3>1. /\ argv \in Seq(Seq(Pieces)) /\ optind \in Nat /\ n \in Nat /\ len \in Nat
          /\ 1 <= optind /\ optind <= n /\ n <= len + 1 /\ len <= Len(argv)
      BY <1>0, <1>1, <2>1
    <3> QED
      BY ONLY <3>1, JoinParts, SMTT(30)
  <2>4. SubSeq(argv, n, len) \in Seq(Seq(Pieces))
    <3>1. PICK q \in Nat : q = len + 1 /\ q - 1 = len
      BY <1>1
    <3>2. n <= q /\ q <= Len(argv) + 1
      BY <1>1, <2>1, <3>1
    <3>3. SubSeq(argv, n, q - 1) \in Seq(Seq(Pieces))
      BY <1>0, <1>1, <2>1, <3>1, <3>2, Part
    <3> QED
      BY <3>1, <3>3, Zenon
  <2> QED
    BY <1>1, <2>1, <2>2, <2>3, <2>4, Zenon
<1> QED
  BY <1>1, <1>2, <1>3, Zenon

\* An operand is taken: the words stay the same.
LEMMA OInvTakes ==
  ASSUME GInv, OInv, TakeOperand
  PROVE  OInv'
<1>1. /\ Chosen /\ optind < argc /\ optind' = optind + 1
      /\ UNCHANGED <<argv, ordering, gpc, returned, env, backups, outcome>>
      /\ \/ /\ pattern_string = <<>> /\ pattern_string' = <<argv[optind]>>
            /\ UNCHANGED <<replacement_string, file_list>>
         \/ /\ pattern_string # <<>> /\ replacement_string = <<>>
            /\ replacement_string' = <<argv[optind]>>
            /\ UNCHANGED <<pattern_string, file_list>>
         \/ /\ pattern_string # <<>> /\ replacement_string # <<>>
            /\ file_list' = Append(file_list, argv[optind])
            /\ UNCHANGED <<pattern_string, replacement_string>>
  BY Zenon DEF TakeOperand
<1>2. /\ gpc' = "done" /\ outcome' = "" /\ outcome = "" /\ backup_method # ""
      /\ UNCHANGED <<args, delivered, backup_method, simple_backup_suffix>>
  BY <1>1, Zenon DEF Chosen, returned, backups
<1>3. Operands /\ Scan(args).options = delivered
  BY <1>2, Zenon DEF OInv
<1>4. Scan(args)' = Scan(args)
  BY <1>1, <1>2, ScanSame, Zenon
<1>5. PICK x, r, ops : x = argv[optind] /\ r = SubSeq(argv, optind + 1, Len(argv))
                         /\ ops = WordsFor(delivered, Scan(args).operands)
  OBVIOUS
<1>6. x \in Seq(Pieces) /\ r \in Seq(Seq(Pieces)) /\ SubSeq(argv, optind, Len(argv)) = <<x>> \o r
  BY <1>1, <1>5, RestIs, Zenon
<1>7. PICK P, R, F : P = pattern_string /\ R = replacement_string /\ F = file_list
  OBVIOUS
<1>8. /\ P \in Optional(Seq(Pieces)) /\ R \in Optional(Seq(Pieces)) /\ F \in Seq(Seq(Pieces))
      /\ <<>> \in {P, R} => F = <<>>
      /\ ops = Combined(P, R, F, <<x>> \o r)
  BY <1>3, <1>5, <1>6, <1>7, Zenon DEF Operands
<1>9. P \in Seq(Seq(Pieces)) /\ R \in Seq(Seq(Pieces))
  BY <1>8, OptionalSeq, Zenon
<1>10. /\ P = <<>> => ops = Combined(<<x>>, R, F, r)
       /\ P # <<>> /\ R = <<>> => ops = Combined(P, <<x>>, F, r)
       /\ P # <<>> /\ R # <<>> => ops = Combined(P, R, Append(F, x), r)
  <2>1. LET now == Combined(P, R, F, <<x>> \o r) IN
        /\ P = <<>> => now = Combined(<<x>>, R, F, r)
        /\ P # <<>> /\ R = <<>> => now = Combined(P, <<x>>, F, r)
        /\ P # <<>> /\ R # <<>> => now = Combined(P, R, Append(F, x), r)
    BY <1>6, <1>8, <1>9, CombinedTakes
  <2> QED
    BY ONLY <1>8, <2>1, Zenon
<1>11. <<x>> \in Optional(Seq(Pieces)) /\ <<x>> # <<>> /\ Append(F, x) \in Seq(Seq(Pieces))
  BY <1>6, <1>8 DEF Optional
<1>12. PICK P2, R2, F2 : P2 = pattern_string' /\ R2 = replacement_string' /\ F2 = file_list'
  OBVIOUS
<1>13. \/ P = <<>> /\ P2 = <<x>> /\ R2 = R /\ F2 = F
       \/ P # <<>> /\ R = <<>> /\ R2 = <<x>> /\ P2 = P /\ F2 = F
       \/ P # <<>> /\ R # <<>> /\ F2 = Append(F, x) /\ P2 = P /\ R2 = R
  BY <1>1, <1>5, <1>7, <1>12, Zenon
<1>14. /\ P2 \in Optional(Seq(Pieces)) /\ R2 \in Optional(Seq(Pieces)) /\ F2 \in Seq(Seq(Pieces))
       /\ <<>> \in {P2, R2} => F2 = <<>>
       /\ ops = Combined(P2, R2, F2, r)
  BY ONLY <1>8, <1>10, <1>11, <1>13, Zenon
<1>15. Ready'
  <2>1. Ready
    BY <1>3, Zenon DEF Operands
  <2> QED
    BY <1>1, <1>2, <2>1, Zenon DEF Ready, TypesFor, XgetVersion
<1>16. Operands'
  <2>1. r = SubSeq(argv', optind', Len(argv')) /\ ops = WordsFor(delivered', Scan(args)'.operands)
    BY <1>1, <1>2, <1>4, <1>5, Zenon
  <2> QED
    BY <1>2, <1>12, <1>14, <1>15, <2>1, Zenon DEF Operands
<1> QED
  BY <1>2, <1>3, <1>4, <1>16, Zenon DEF OInv, OutcomeRight

\* None is left: the words say how main goes on.
LEMMA OInvDispatches ==
  ASSUME GInv, OInv, Dispatch
  PROVE  OInv'
<1>1. /\ Chosen /\ optind = argc /\ UNCHANGED <<getopt_vars, env, strings, backups>>
      /\ outcome' = IF <<>> \in {pattern_string, replacement_string} THEN "failure"
                    ELSE IF file_list \in {<<>>, <<<<"-">>>>} THEN "filter" ELSE "files"
  BY Zenon DEF Dispatch, EndsWith
<1>2. /\ gpc' = "done" /\ outcome = "" /\ backup_method # ""
      /\ UNCHANGED <<args, ordering, delivered, backup_method, simple_backup_suffix>>
      /\ UNCHANGED <<pattern_string, replacement_string, file_list>>
  BY <1>1, Zenon DEF Chosen, getopt_vars, returned, backups, strings
<1>3. Operands /\ Ready /\ Scan(args).options = delivered
  BY <1>2, Zenon DEF OInv, Operands
<1>4. Scan(args)' = Scan(args)
  BY <1>2, ScanSame, Zenon
<1>5. PICK d, ops, words, P, R, F :
        /\ d = delivered /\ ops = Scan(args).operands /\ words = WordsFor(d, ops)
        /\ P = pattern_string /\ R = replacement_string /\ F = file_list
  OBVIOUS
<1>6. SubSeq(argv, optind, Len(argv)) = <<>>
  BY <1>1, RestIs
<1>7. /\ P \in Optional(Seq(Pieces)) /\ R \in Optional(Seq(Pieces)) /\ F \in Seq(Seq(Pieces))
      /\ <<>> \in {P, R} => F = <<>>
      /\ words = Combined(P, R, F, <<>>)
  BY <1>3, <1>5, <1>6, Zenon DEF Operands
<1>8. /\ <<>> \in {P, R} => Len(words) < 2
      /\ <<>> \notin {P, R} => Len(words) > 1 /\ P \o R \o F = words /\ Tail(Tail(words)) = F
  <2>0. PICK T : T = Seq(Pieces)
    OBVIOUS
  <2>t. /\ P \in Optional(T) /\ R \in Optional(T) /\ F \in Seq(T)
        /\ <<>> \in {P, R} => F = <<>>
        /\ words = Combined(P, R, F, <<>>)
    BY ONLY <1>7, <2>0, Zenon
  <2> QED
    <3>1. Dealt(P, R, F, words)
      BY ONLY <2>t, CombinedEnds, Zenon
    <3> QED
      BY ONLY <3>1, SMTT(30) DEF Dealt
<1>9. CASE <<>> \in {P, R}
  <2>1. outcome' = "failure"
    BY <1>1, <1>5, <1>9, Zenon
  <2>2. outcome' \notin {"", "information", "filter", "files"}
    BY <2>1
  <2>3. Len(WordsFor(delivered, ops)) < 2
    BY <1>5, <1>8, <1>9, Zenon
  <2> QED
    BY <1>1, <1>2, <1>3, <1>5, <2>1, <2>2, <2>3, OInvEnds
<1>10. CASE <<>> \notin {P, R}
  <2>1. outcome' = IF F \in {<<>>, <<<<"-">>>>} THEN "filter" ELSE "files"
    BY <1>1, <1>5, <1>10, Zenon
  <2>2. outcome' \in {"filter", "files"} /\ outcome' \notin {"", "failure", "information"}
          /\ (outcome' = "filter" <=> F \in {<<>>, <<<<"-">>>>})
    BY ONLY <2>1
  <2>3. /\ ~Wrong(d) /\ ~Informative(d) /\ TypesFor(d) = {backup_method}
        /\ Given(d, "S") => simple_backup_suffix = Last(Arguments(d, "S"))
    BY <1>3, <1>5, Zenon DEF Ready
  <2>4. TypesFor(d)' = {backup_method'}
    BY <1>1, <1>2, <2>3, TypesSame, Zenon
  <2>5. PICK s : s = Scan(args)
    OBVIOUS
  <2>6. s = Scan(args)' /\ s.options = d /\ s.operands = ops
    BY <1>3, <1>4, <1>5, <2>5, Zenon
  <2>7. OutcomeFor(d, ops)'
    <3>1. P = pattern_string' /\ R = replacement_string' /\ F = file_list' /\ words = WordsFor(d, ops)
            /\ simple_backup_suffix' = simple_backup_suffix
      BY <1>2, <1>5, Zenon
    <3>2. outcome' = "filter" <=> Tail(Tail(words)) \in {<<>>, <<<<"-">>>>}
      BY <1>8, <1>10, <2>2, Zenon
    <3>3. Len(words) > 1 /\ P \o R \o F = words
      BY <1>8, <1>10, Zenon
    <3> QED
      BY <2>2, <2>3, <2>4, <3>1, <3>2, <3>3, Zenon DEF OutcomeFor, TypesFor, XgetVersion
  <2>8. OutcomeRight'
    BY <2>6, <2>7, Zenon DEF OutcomeRight, OutcomeFor, TypesFor, XgetVersion
  <2> QED
    BY <1>2, <1>3, <1>4, <2>2, <2>8, Zenon DEF OInv
<1> QED
  BY <1>9, <1>10

\* The second invariant is one.
LEMMA OInvStep == GInv /\ SInv /\ WInv /\ OInv /\ [Next]_vars => OInv'
<1> SUFFICES ASSUME GInv, SInv, WInv, OInv, [Next]_vars PROVE OInv'
  OBVIOUS
<1>0. Typed /\ ScansInOrder
  BY ScanMeans, Zenon DEF GInv
<1>1. CASE UNCHANGED vars
  BY <1>1, OInvSame, Zenon
<1>2. CASE (GetOptNext /\ UNCHANGED <<env, flags, strings, backups, filters, verdicts, outcome>>) \/ Switch
  BY <1>0, <1>2, OInvScanning, Zenon
<1>3. CASE Usage \/ Information
  BY <1>0, <1>3, OInvStops, Zenon
<1>4. CASE ChooseBackups
  BY <1>0, <1>4, OInvChooses, Zenon
<1>5. CASE TakeOperand
  BY <1>5, OInvTakes, Zenon
<1>6. CASE Dispatch
  BY <1>6, OInvDispatches, Zenon
<1>7. CASE MallocFails
  BY <1>0, <1>7, OInvMalloc, Zenon
<1> QED
  BY <1>1, <1>2, <1>3, <1>4, <1>5, <1>6, <1>7, Zenon DEF Next, Works

\* All four invariants always hold.
LEMMA WordsAlways == Spec => [](GInv /\ SInv /\ WInv /\ OInv)
<1>1. Init => OInv
  BY OInvBefore, Zenon DEF Init
<1> QED
  BY <1>1, GInvInit, GInvStep, SInvInit, SInvStep, WInvInit, WInvStep, OInvStep, PTL DEF Spec

-----------------------------------------------------------------------------
(* The theorems.  *)

\* A wrong option, a second pattern or a second replacement ends the program before
\* --help and --version are honoured; otherwise pattern, replacement and files are those
\* of -e and -p and the operands, the pattern first, and the backups those that the last
\* -b, -S or the environment ask for (rrep.c:751-981).
THEOREM CommandLineOutcomeRight == Spec => []OutcomeRight
<1>1. OInv => OutcomeRight
  BY Zenon DEF OInv
<1> QED
  BY <1>1, WordsAlways, PTL


\* A name of one piece, or of more.
LEMMA SingleIs ==
  ASSUME NEW T, NEW f \in Seq(T), f # <<>>
  PROVE  Len(f) > 1 <=> f # <<f[1]>>
<1>1. Len(f) \in Nat /\ Len(f) # 0 /\ f[1] \in T
  <2>1. Len(f) \in Nat /\ Len(f) # 0
    OBVIOUS
  <2> QED
    BY <2>1
<1>2. ASSUME Len(f) = 1 PROVE f = <<f[1]>>
  BY <1>1, <1>2
<1>3. PICK t : t = <<f[1]>> /\ Len(t) = 1
  <2>1. \A x : Len(<<x>>) = 1
    OBVIOUS
  <2> QED
    BY <2>1, Zenon
<1>4. f = t <=> Len(f) = 1
  BY <1>2, <1>3, Zenon
<1>5. Len(f) > 1 <=> Len(f) # 1
  <2>1. \A n \in Nat : n # 0 => (n > 1 <=> n # 1)
    OBVIOUS
  <2> QED
    BY <1>1, <2>1, Zenon
<1> QED
  BY <1>3, <1>4, <1>5, Zenon

\* What the filters say of a name.
LEMMA NameFiltered ==
  ASSUME NEW f, NEW d, Filtered(d)
  PROVE  /\ ~ExcludedFileName(included_patterns, f)
              <=> Arguments(d, "INCLUDE_OPTION") = <<>> \/ Matched(Arguments(d, "INCLUDE_OPTION"), f)
         /\ ~ExcludedFileName(excluded_patterns, f)
              <=> ~Matched(Arguments(d, "EXCLUDE_OPTION"), f)
         /\ ~ExcludedFileName(excluded_directory_patterns, f)
              <=> ~Matched(Arguments(d, "EXCLUDE_DIR_OPTION"), f)
         /\ ~ExcludedFileName(<<>>, f)
<1>1. /\ Filter(included_patterns, Arguments(d, "INCLUDE_OPTION"), TRUE)
      /\ Filter(excluded_patterns, Arguments(d, "EXCLUDE_OPTION"), FALSE)
      /\ Filter(excluded_directory_patterns, Arguments(d, "EXCLUDE_DIR_OPTION"), FALSE)
  BY Zenon DEF Filtered
<1>2. ASSUME NEW ex, NEW ps, NEW inc \in BOOLEAN, Filter(ex, ps, inc)
      PROVE  ExcludedFileName(ex, f) <=> ps # <<>> /\ (Matched(ps, f) <=> ~inc)
  BY <1>2, FilterSays, Zenon
<1>3. ~Matched(<<>>, f)
  <2>1. ToSet(<<>>) = {}
    BY DEF ToSet
  <2> QED
    BY <2>1, Zenon DEF Matched
<1>4. ExcludedFileName(included_patterns, f)
        <=> Arguments(d, "INCLUDE_OPTION") # <<>> /\ ~Matched(Arguments(d, "INCLUDE_OPTION"), f)
  BY <1>1, <1>2, Zenon
<1>5. ASSUME NEW ex, NEW ps, Filter(ex, ps, FALSE) PROVE ExcludedFileName(ex, f) <=> Matched(ps, f)
  <2>1. ExcludedFileName(ex, f) <=> ps # <<>> /\ Matched(ps, f)
    BY <1>2, <1>5, Zenon
  <2>2. Matched(ps, f) => ps # <<>>
    BY <1>3
  <2> QED
    BY <2>1, <2>2, Zenon
<1>6. ~ExcludedFileName(<<>>, f)
  BY Zenon DEF ExcludedFileName
<1> QED
  BY <1>1, <1>4, <1>5, <1>6, Zenon

\* In whatever order the filters are given, and whichever have wildcards, a name
\* qualifies if it matches one of the --include, if there are any, and none of the
\* --exclude (lib/exclude.c:466-600, rrep.c:448-477).
THEOREM CommandLineNamesQualify == Spec => []NamesQualify
<1>1. WInv /\ OInv => NamesQualify
  <2> SUFFICES ASSUME WInv, OInv, outcome # "" PROVE NamesFor(Scan(args).options)
    BY Zenon DEF NamesQualify
  <2>1. gpc = "done" /\ Scan(args).options = delivered
    BY Zenon DEF OInv
  <2>2. PICK d : d = delivered /\ d = Scan(args).options
    BY <2>1
  <2>3. Filtered(d)
    BY <2>1, <2>2, AllSeen, Zenon
  <2>4. ASSUME NEW f \in EntryNames
        PROVE  /\ CheckName(f, "OPT_ALL" \in flags, included_patterns, excluded_patterns) <=>
                    /\ f # <<>>
                    /\ f[1] # "." \/ f = <<".">> \/ "OPT_ALL" \in flags
                    /\ \/ Arguments(d, "INCLUDE_OPTION") = <<>>
                       \/ Matched(Arguments(d, "INCLUDE_OPTION"), f)
                    /\ ~Matched(Arguments(d, "EXCLUDE_OPTION"), f)
               /\ CheckIncludeName(f, <<>>, excluded_directory_patterns) <=>
                    ~Matched(Arguments(d, "EXCLUDE_DIR_OPTION"), f)
    <3>1. /\ ~ExcludedFileName(included_patterns, f)
               <=> Arguments(d, "INCLUDE_OPTION") = <<>> \/ Matched(Arguments(d, "INCLUDE_OPTION"), f)
          /\ ~ExcludedFileName(excluded_patterns, f)
               <=> ~Matched(Arguments(d, "EXCLUDE_OPTION"), f)
          /\ ~ExcludedFileName(excluded_directory_patterns, f)
               <=> ~Matched(Arguments(d, "EXCLUDE_DIR_OPTION"), f)
          /\ ~ExcludedFileName(<<>>, f)
      BY <2>3, NameFiltered, Zenon
    <3>2. f # <<>> => (Len(f) > 1 <=> f # <<f[1]>>)
      <4>1. f \in Seq(ToSet(f))
        BY NamesAssumption
      <4> QED
        BY <4>1, SingleIs, Zenon
    <3>3. f # <<>> => ((f[1] = "." /\ Len(f) > 1 => "OPT_ALL" \in flags)
                         <=> f[1] # "." \/ f = <<".">> \/ "OPT_ALL" \in flags)
      <4>1. ~ (<<".">>[1] # ".")
        OBVIOUS
      <4> QED
        BY <3>2, <4>1, Zenon
    <3> QED
      BY <3>1, <3>3, Zenon DEF CheckName, CheckIncludeName
  <2>5. NamesFor(d)
    BY <2>4, Zenon DEF NamesFor, Matched
  <2> QED
    BY <2>2, <2>5, Zenon
<1> QED
  BY <1>1, WordsAlways, PTL
=============================================================================
