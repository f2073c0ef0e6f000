------------------------------- MODULE GetOpt -------------------------------
(***************************************************************************)
(* getopt_long of lib/getopt.c, as src/rrep.c uses it: it delivers one     *)
(* option with each call and, unless POSIXLY_CORRECT is set, moves the     *)
(* options in front of the operands on the way, by swapping segments of    *)
(* argv in place.                                                          *)
(*                                                                         *)
(* An element of argv is a sequence of pieces, <<"-", "q", "e">> or        *)
(* <<"-", "-", "s", "uf", "fix", "=", "o">>: a piece is a letter or a part *)
(* of a long name that an abbreviation can end with.  argv[0], the program *)
(* name, is left out, so that argc is Len(argv) + 1.                       *)
(***************************************************************************)
EXTENDS Naturals, Sequences, SequencesExt

CONSTANTS
  ShortOptions,  \* the letters of optstring, each with its has_arg
  LongOptions,   \* longopts, a sequence of [name, has_arg, val]
  ArgLists       \* the command lines

HasArg == {"no_argument", "required_argument", "optional_argument"}

ASSUME ShortAssumption == \A c \in DOMAIN ShortOptions : ShortOptions[c] \in HasArg
ASSUME LongAssumption ==
  /\ LongOptions \in Seq(ToSet(LongOptions))
  /\ \A k \in DOMAIN LongOptions : LongOptions[k].has_arg \in HasArg

\* What the elements are made of.
Pieces == UNION {ToSet(e) : e \in UNION {ToSet(a) : a \in ArgLists}}
ASSUME ArgAssumption == ArgLists \subseteq Seq(Seq(Pieces))

VARIABLES
  argv,
  ordering,      \* "PERMUTE" or "REQUIRE_ORDER"
  optind,        \* the next element
  nextchar,      \* what is left of a cluster of short options
  first_nonopt, last_nonopt,  \* the operands skipped are in argv at
                              \* first_nonopt .. last_nonopt - 1
  bottom, middle, top,        \* of exchange
  gpc,           \* where getopt_long stands, see GetOptTypeOK
  opt, optarg,   \* what it returns, optarg as <<>> or <<argument>>
  args,          \* history: argv at first
  delivered      \* history: all it has returned

scan == <<optind, nextchar, first_nonopt, last_nonopt>>
segments == <<bottom, middle, top>>
returned == <<opt, optarg, args, delivered>>
getopt_vars == <<argv, ordering, scan, segments, gpc, returned>>

argc == Len(argv) + 1

\* The C code tests argv[optind][0] and, if that is a "-", argv[optind][1].
NonOption(e) == ~(Len(e) > 1 /\ e[1] = "-")
IsEnd(e) == e = <<"-", "-">>
IsLong(e) == Len(e) > 2 /\ e[1] = "-" /\ e[2] = "-"

-----------------------------------------------------------------------------
GetOptInit ==
  /\ argv \in ArgLists
  /\ ordering \in {"PERMUTE", "REQUIRE_ORDER"}
  /\ optind = 1 /\ nextchar = <<>> /\ first_nonopt = 1 /\ last_nonopt = 1
  /\ bottom = 1 /\ middle = 1 /\ top = 1
  /\ gpc = "call" /\ opt = "" /\ optarg = <<>>
  /\ args = argv /\ delivered = <<>>

\* getopt_long returns option v with argument a.
Deliver(v, a) ==
  /\ gpc' = "return" /\ opt' = v /\ optarg' = a
  /\ delivered' = Append(delivered, <<v, a>>)
  /\ UNCHANGED <<argv, ordering, segments, args>>

-----------------------------------------------------------------------------
(* The next element.  *)

\* Operands were skipped, and options were delivered after them.
Interleaved(o) == first_nonopt # last_nonopt /\ last_nonopt # o

\* exchange begins; p is what follows it.
StartExchange(p) ==
  /\ bottom' = first_nonopt /\ middle' = last_nonopt /\ top' = optind'
  /\ gpc' = p

\* The call finds the previous element used up.
NextElement ==
  /\ gpc = "call" /\ nextchar = <<>>
  /\ UNCHANGED <<argv, ordering, optind, nextchar, last_nonopt, returned>>
  /\ \/ /\ ordering = "PERMUTE" /\ Interleaved(optind)
        /\ StartExchange("exchange")
        /\ UNCHANGED first_nonopt
     \/ /\ ~(ordering = "PERMUTE" /\ Interleaved(optind))
        /\ first_nonopt' = IF ordering = "PERMUTE" /\ last_nonopt # optind
                           THEN optind ELSE first_nonopt
        /\ gpc' = IF ordering = "PERMUTE" THEN "skip" ELSE "element"
        /\ UNCHANGED segments

\* Mutant: the last pair of elements is not exchanged.
SwappedShort(i, j, len) ==
  [k \in DOMAIN argv |-> IF k \in i .. i + len - 2 THEN argv[j + (k - i)]
                         ELSE IF k \in j .. j + len - 2 THEN argv[i + (k - j)]
                         ELSE argv[k]]

\* argv after len elements from i on and len elements from j on change places.
Swapped(i, j, len) ==
  [k \in DOMAIN argv |-> IF k \in i .. i + len - 1 THEN argv[j + (k - i)]
                         ELSE IF k \in j .. j + len - 1 THEN argv[i + (k - j)]
                         ELSE argv[k]]

\* Mutant: the moved segment is not excluded from further swapping.
ExchangeStays ==
  LET below == middle - bottom
      above == top - middle
  IN
  /\ gpc \in {"exchange", "exchange_rest"}
  /\ top > middle /\ middle > bottom
  /\ argv' = IF above > below THEN Swapped(bottom, top - below, below)
             ELSE Swapped(bottom, middle, above)
  /\ UNCHANGED <<ordering, scan, gpc, segments, returned>>

\* One turn of the loop: the shorter segment goes to its place.
Exchange ==
  LET below == middle - bottom
      above == top - middle
  IN
  /\ gpc \in {"exchange", "exchange_rest"}
  /\ top > middle /\ middle > bottom
  /\ UNCHANGED <<ordering, scan, gpc, middle, returned>>
  /\ \/ /\ above > below
        /\ argv' = Swapped(bottom, top - below, below)
        /\ top' = top - below /\ UNCHANGED bottom
     \/ /\ above <= below
        /\ argv' = Swapped(bottom, middle, above)
        /\ bottom' = bottom + above /\ UNCHANGED top

\* Mutant: the operands move by too much.
ExchangeEndsFar ==
  /\ gpc \in {"exchange", "exchange_rest"}
  /\ ~(top > middle /\ middle > bottom)
  /\ first_nonopt' = first_nonopt + optind
  /\ last_nonopt' = IF gpc = "exchange" THEN optind ELSE argc
  /\ optind' = IF gpc = "exchange" THEN optind ELSE argc
  /\ gpc' = IF gpc = "exchange" THEN "skip" ELSE "element"
  /\ UNCHANGED <<argv, ordering, nextchar, segments, returned>>

ExchangeEnds ==
  /\ gpc \in {"exchange", "exchange_rest"}
  /\ ~(top > middle /\ middle > bottom)
  /\ first_nonopt' = first_nonopt + (optind - last_nonopt)
  /\ last_nonopt' = IF gpc = "exchange" THEN optind ELSE argc
  /\ optind' = IF gpc = "exchange" THEN optind ELSE argc
  /\ gpc' = IF gpc = "exchange" THEN "skip" ELSE "element"
  /\ UNCHANGED <<argv, ordering, nextchar, segments, returned>>

\* An operand is skipped.
SkipNonOption ==
  /\ gpc = "skip" /\ optind < argc /\ NonOption(argv[optind])
  /\ optind' = optind + 1
  /\ UNCHANGED <<argv, ordering, nextchar, first_nonopt, last_nonopt, segments,
                 gpc, returned>>

SkipEnds ==
  /\ gpc = "skip" /\ (optind < argc => ~NonOption(argv[optind]))
  /\ last_nonopt' = optind
  /\ gpc' = "element"
  /\ UNCHANGED <<argv, ordering, optind, nextchar, first_nonopt, segments, returned>>

\* "--": everything that follows is an operand.
DashDash ==
  /\ gpc = "element" /\ optind # argc /\ IsEnd(argv[optind])
  /\ UNCHANGED <<argv, ordering, nextchar, returned>>
  /\ \/ /\ Interleaved(optind + 1)
        /\ optind' = optind + 1
        /\ StartExchange("exchange_rest")
        /\ UNCHANGED <<first_nonopt, last_nonopt>>
     \/ /\ ~Interleaved(optind + 1)
        /\ first_nonopt' = IF first_nonopt = last_nonopt THEN optind + 1
                           ELSE first_nonopt
        /\ last_nonopt' = argc /\ optind' = argc
        /\ UNCHANGED <<segments, gpc>>

\* getopt_long returns -1, with optind at the first operand.
NoMore ==
  /\ gpc = "element"
  /\ optind < argc => ordering = "REQUIRE_ORDER" /\ NonOption(argv[optind])
  /\ optind' = IF optind = argc /\ first_nonopt # last_nonopt THEN first_nonopt
               ELSE optind
  /\ gpc' = "done"
  /\ UNCHANGED <<argv, ordering, nextchar, first_nonopt, last_nonopt, segments,
                 returned>>

-----------------------------------------------------------------------------
(* Options.  *)

\* The name and the argument after "=" of a long option.
NameOf(e) ==
  LET k == SelectInSeq(e, LAMBDA c : c = "=") IN SubSeq(e, 3, IF k = 0 THEN Len(e) ELSE k - 1)
ArgumentOf(e) ==
  LET k == SelectInSeq(e, LAMBDA c : c = "=") IN
  IF k = 0 THEN <<>> ELSE <<SubSeq(e, k + 1, Len(e))>>

\* Indices of the long options that name may stand for: the first of that very
\* name, or all it abbreviates.
Candidates(name) ==
  LET exact == {k \in DOMAIN LongOptions : LongOptions[k].name = name} IN
  IF exact # {} THEN {CHOOSE k \in exact : \A m \in exact : k <= m}
  ELSE {k \in DOMAIN LongOptions : IsPrefix(name, LongOptions[k].name)}

\* What a set of candidates means: abbreviations of one and the same option are
\* not ambiguous.
Meanings(ks) == {<<LongOptions[k].has_arg, LongOptions[k].val>> : k \in ks}

\* process_long_option.
LongOption ==
  LET e == argv[optind]
      found == Meanings(Candidates(NameOf(e)))
      has_arg == (CHOOSE f \in found : TRUE)[1]
      val == (CHOOSE f \in found : TRUE)[2]
      arg == ArgumentOf(e)
  IN
  /\ gpc = "element" /\ optind # argc /\ IsLong(argv[optind])
  /\ nextchar' = <<>> /\ UNCHANGED <<first_nonopt, last_nonopt>>
  /\ IF Cardinality(found) # 1 \/ (arg # <<>> /\ has_arg = "no_argument")
     THEN Deliver("?", <<>>) /\ optind' = optind + 1
     ELSE IF arg = <<>> /\ has_arg = "required_argument"
     THEN IF optind + 1 < argc
          THEN Deliver(val, <<argv[optind + 1]>>) /\ optind' = optind + 2
          ELSE Deliver("?", <<>>) /\ optind' = optind + 1
     ELSE Deliver(val, arg) /\ optind' = optind + 1

\* An element of short options: its first letter is next.
ShortElement ==
  /\ gpc = "element" /\ optind # argc
  /\ ~NonOption(argv[optind]) /\ Len(argv[optind]) > 1 /\ argv[optind][2] # "-"
  /\ nextchar' = Tail(argv[optind])
  /\ gpc' = "letter"
  /\ UNCHANGED <<argv, ordering, optind, first_nonopt, last_nonopt, segments, returned>>

\* The call finds letters left.
NextLetter ==
  /\ gpc = "call" /\ nextchar # <<>>
  /\ gpc' = "letter"
  /\ UNCHANGED <<argv, ordering, scan, segments, returned>>

\* A letter, with an argument from the rest of the element or the next one.
ShortOption ==
  LET c == Head(nextchar)
      rest == Tail(nextchar)
      known == c \in DOMAIN ShortOptions
  IN
  /\ gpc = "letter"
  /\ UNCHANGED <<first_nonopt, last_nonopt>>
  /\ IF known /\ ShortOptions[c] # "no_argument"
     THEN /\ nextchar' = <<>>
          /\ IF rest # <<>> \/ ShortOptions[c] = "optional_argument"
             THEN /\ Deliver(c, IF rest = <<>> THEN <<>> ELSE <<rest>>)
                  /\ optind' = optind + 1
             ELSE IF optind + 1 = argc
             THEN Deliver("?", <<>>) /\ optind' = optind + 1
             ELSE Deliver(c, <<argv[optind + 1]>>) /\ optind' = optind + 2
     ELSE /\ Deliver(IF known THEN c ELSE "?", <<>>)
          /\ nextchar' = rest
          /\ optind' = IF rest = <<>> THEN optind + 1 ELSE optind

GetOptNext ==
  \/ NextElement \/ Exchange \/ ExchangeEnds \/ SkipNonOption \/ SkipEnds
  \/ DashDash \/ NoMore \/ LongOption
  \/ ShortElement \/ NextLetter \/ ShortOption

GetOptTypeOK ==
  /\ ordering \in {"PERMUTE", "REQUIRE_ORDER"}
  /\ gpc \in {"call", "skip", "exchange", "exchange_rest", "element", "letter",
              "return", "done"}
  /\ {first_nonopt, last_nonopt, optind, bottom, middle, top} \subseteq 1 .. argc
  /\ gpc # "skip" => first_nonopt <= last_nonopt
  /\ nextchar # <<>> => optind < argc /\ Len(nextchar) < Len(argv[optind])
  /\ gpc = "letter" => nextchar # <<>>
  /\ Len(optarg) <= 1
=============================================================================
