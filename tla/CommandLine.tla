---------------------------- MODULE CommandLine ----------------------------
(***************************************************************************)
(* main of src/rrep.c up to the point where it calls replace_string or     *)
(* process_file_list: it takes the options one by one from getopt_long,    *)
(* decides whether to run at all, chooses the backups, and hands out the   *)
(* operands as pattern, replacement and files.                             *)
(***************************************************************************)
EXTENDS GetOpt, Exclude

CONSTANTS
  BackupTypes,   \* the words for backup_args with their types, [name, type]
  Environments,  \* values of SIMPLE_BACKUP_SUFFIX and VERSION_CONTROL
  EntryNames,    \* names that the filters are asked about
  Faults         \* {} or {"malloc"}

ASSUME TypesAssumption ==
  \A b \in BackupTypes : b.type \in {"none", "simple", "existing", "numbered"}
ASSUME EnvironmentAssumption ==
  \A e \in Environments : Len(e.SIMPLE_BACKUP_SUFFIX) <= 1 /\ Len(e.VERSION_CONTROL) <= 1
ASSUME NamesAssumption == \A f \in EntryNames : f \in Seq(ToSet(f))

\* The options whose argument main uses without a look at whether there is one: the
\* tables say that they require it.
WithArgument == {"S", "e", "INCLUDE_OPTION", "EXCLUDE_OPTION", "EXCLUDE_DIR_OPTION"}
ASSUME TablesAssumption ==
  /\ \A c \in DOMAIN ShortOptions :
       c \in WithArgument => ShortOptions[c] = "required_argument"
  /\ \A k \in DOMAIN LongOptions :
       LongOptions[k].val \in WithArgument => LongOptions[k].has_arg = "required_argument"

VARIABLES
  env,
  flags,         \* the OPT_ and REG_ flags that are set
  pattern_string, replacement_string, \* NULL as <<>>, else <<string>>
  suffix_string, version_control,     \* the same
  included_patterns, excluded_patterns, excluded_directory_patterns,
  failure_flag, exit_flag,
  file_list,
  backup_method, \* "" before it is chosen
  simple_backup_suffix,
  outcome        \* "", or how main goes on or ends

\* The tables of rrep.c and backup-find.c, the values of the constants.
short_options ==
  [c \in {"E", "F", "R", "r", "S", "V", "a", "b", "e", "h", "i", "p", "q", "s", "w", "x"} |->
     IF c \in {"S", "e", "p"} THEN "required_argument" ELSE "no_argument"]

Long(n, h, v) == [name |-> n, has_arg |-> h, val |-> v]
long_options ==
  << Long(<<"ex", "tended-regexp">>, "no_argument", "E"),
     Long(<<"fixed-strings">>, "no_argument", "F"),
     Long(<<"re", "cursive">>, "no_argument", "R"),
     Long(<<"re", "cursive">>, "no_argument", "r"),
     Long(<<"i", "n", "clude">>, "required_argument", "INCLUDE_OPTION"),
     Long(<<"ex", "clude">>, "required_argument", "EXCLUDE_OPTION"),
     Long(<<"ex", "clude", "-dir">>, "required_argument", "EXCLUDE_DIR_OPTION"),
     Long(<<"s", "uffix">>, "required_argument", "S"),
     Long(<<"version">>, "no_argument", "V"),
     Long(<<"all">>, "no_argument", "a"),
     Long(<<"b", "ackup">>, "optional_argument", "b"),
     Long(<<"b", "inary">>, "no_argument", "BINARY_OPTION"),
     Long(<<"dry-run">>, "no_argument", "DRY_RUN_OPTION"),
     Long(<<"re", "gex">>, "required_argument", "e"),
     Long(<<"help">>, "no_argument", "h"),
     Long(<<"i", "gnore-case">>, "no_argument", "i"),
     Long(<<"keep-times">>, "no_argument", "KEEP_TIMES_OPTION"),
     Long(<<"re", "place-with">>, "no_argument", "p"),
     Long(<<"i", "n", "teractive">>, "no_argument", "INTERACTIVE_OPTION"),
     Long(<<"quiet">>, "no_argument", "q"),
     Long(<<"s", "ilent">>, "no_argument", "q"),
     Long(<<"no-messages">>, "no_argument", "s"),
     Long(<<"word-regexp">>, "no_argument", "w"),
     Long(<<"line-regexp">>, "no_argument", "x") >>

Word(n, t) == [name |-> n, type |-> t]
backup_args ==
  {Word(<<"n", "one">>, "none"), Word(<<"off">>, "none"),
   Word(<<"s", "imple">>, "simple"), Word(<<"n", "ever">>, "simple"),
   Word(<<"existing">>, "existing"), Word(<<"n", "il">>, "existing"),
   Word(<<"n", "umbered">>, "numbered"), Word(<<"t">>, "numbered")}

strings == <<pattern_string, replacement_string, file_list>>
backups == <<suffix_string, version_control, backup_method, simple_backup_suffix>>
filters == <<included_patterns, excluded_patterns, excluded_directory_patterns>>
verdicts == <<failure_flag, exit_flag>>
vars == <<getopt_vars, env, flags, strings, backups, filters, verdicts, outcome>>

Init ==
  /\ GetOptInit
  /\ env \in Environments
  /\ flags = {}
  /\ pattern_string = <<>> /\ replacement_string = <<>> /\ file_list = <<>>
  /\ suffix_string = env.SIMPLE_BACKUP_SUFFIX /\ version_control = <<>>
  /\ backup_method = "" /\ simple_backup_suffix = <<"~">>
  /\ included_patterns = <<>> /\ excluded_patterns = <<>>
  /\ excluded_directory_patterns = <<>>
  /\ failure_flag = FALSE /\ exit_flag = FALSE
  /\ outcome = ""

-----------------------------------------------------------------------------
(* The switch over the options.  *)

FlagOf == [E |-> "REG_EXTENDED", F |-> "OPT_FIXED", R |-> "OPT_RECURSIVE",
           r |-> "OPT_RECURSIVE", a |-> "OPT_ALL", BINARY_OPTION |-> "OPT_BINARY",
           DRY_RUN_OPTION |-> "OPT_DRY", i |-> "REG_ICASE",
           KEEP_TIMES_OPTION |-> "OPT_KEEP_TIMES",
           INTERACTIVE_OPTION |-> "OPT_PROMPT", q |-> "OPT_QUIET",
           s |-> "OPT_NO_MESSAGES", w |-> "OPT_WHOLE_WORD", x |-> "OPT_WHOLE_LINE"]

SetFlag ==
  /\ opt \in DOMAIN FlagOf
  /\ flags' = flags \cup {FlagOf[opt]}
  /\ UNCHANGED <<strings, backups, filters, verdicts>>

\* -S, -b and --backup.
BackupOption ==
  /\ flags' = flags \cup {"OPT_BACKUP"}
  /\ \/ opt = "S" /\ suffix_string' = optarg /\ UNCHANGED version_control
     \/ /\ opt = "b" /\ UNCHANGED suffix_string
        /\ version_control' = IF optarg # <<>> THEN optarg ELSE version_control
  /\ UNCHANGED <<backup_method, simple_backup_suffix, strings, filters, verdicts>>

\* -e and -p, which may be given once.  --replace-with comes without an argument.
StringOption ==
  /\ \/ /\ opt = "e" /\ UNCHANGED replacement_string
        /\ IF pattern_string # <<>>
           THEN failure_flag' = TRUE /\ UNCHANGED pattern_string
           ELSE pattern_string' = optarg /\ UNCHANGED failure_flag
     \/ /\ opt = "p" /\ UNCHANGED pattern_string
        /\ IF replacement_string # <<>>
           THEN failure_flag' = TRUE /\ UNCHANGED replacement_string
           ELSE replacement_string' = optarg /\ UNCHANGED failure_flag
  /\ UNCHANGED <<file_list, flags, backups, filters, exit_flag>>

FilterOption ==
  /\ \/ /\ opt = "INCLUDE_OPTION"
        /\ included_patterns' = AddExclude(included_patterns, optarg[1], TRUE)
        /\ UNCHANGED <<excluded_patterns, excluded_directory_patterns>>
     \/ /\ opt = "EXCLUDE_OPTION"
        /\ excluded_patterns' = AddExclude(excluded_patterns, optarg[1], FALSE)
        /\ UNCHANGED <<included_patterns, excluded_directory_patterns>>
     \/ /\ opt = "EXCLUDE_DIR_OPTION"
        /\ excluded_directory_patterns' =
             AddExclude(excluded_directory_patterns, optarg[1], FALSE)
        /\ UNCHANGED <<included_patterns, excluded_patterns>>
  /\ UNCHANGED <<flags, strings, backups, verdicts>>

\* -V and -h print and end the program later; "?" is a wrong option.
OtherOption ==
  /\ \/ opt \in {"V", "h"} /\ exit_flag' = TRUE /\ UNCHANGED failure_flag
     \/ opt = "?" /\ failure_flag' = TRUE /\ UNCHANGED exit_flag
  /\ UNCHANGED <<flags, strings, backups, filters>>

Switch ==
  /\ gpc = "return"
  /\ SetFlag \/ BackupOption \/ StringOption \/ FilterOption \/ OtherOption
  /\ gpc' = "call"
  /\ UNCHANGED <<argv, ordering, scan, segments, returned, env, outcome>>

-----------------------------------------------------------------------------
(* After the options.  *)

\* argmatch: an exact word, or an abbreviation of words of one type.
BackupTypesFor(word) ==
  LET exact == {b \in BackupTypes : b.name = word} IN
  {b.type : b \in IF exact # {} THEN exact
                  ELSE {b \in BackupTypes : IsPrefix(word, b.name)}}

\* xget_version: the types it may mean; exactly one, or the program ends.
GetVersion(word) == IF word \in {<<>>, <<<<>>>>} THEN {"existing"} ELSE BackupTypesFor(word[1])
XgetVersion(word) ==
  IF word \in {<<>>, <<<<>>>>} THEN GetVersion(env.VERSION_CONTROL) ELSE GetVersion(word)

\* What main does not go past.
EndsWith(o) ==
  outcome' = o /\ UNCHANGED <<getopt_vars, env, flags, strings, filters, verdicts>>

Scanned == gpc = "done" /\ outcome = "" /\ backup_method = ""

Usage ==
  Scanned /\ failure_flag /\ EndsWith("failure") /\ UNCHANGED backups

\* Mutant: --help wins over a wrong option.
InformationFirst ==
  Scanned /\ exit_flag /\ EndsWith("information") /\ UNCHANGED backups

Information ==
  Scanned /\ ~failure_flag /\ exit_flag /\ EndsWith("information") /\ UNCHANGED backups

\* The suffix is copied as it is, and the type of backups found.
ChooseBackups ==
  LET types == IF "OPT_BACKUP" \in flags THEN XgetVersion(version_control) ELSE {"none"} IN
  /\ Scanned /\ ~failure_flag /\ ~exit_flag
  /\ simple_backup_suffix' = IF suffix_string # <<>> THEN suffix_string[1]
                             ELSE simple_backup_suffix
  /\ UNCHANGED <<suffix_string, version_control>>
  /\ \/ Cardinality(types) = 1 /\ backup_method' \in types /\ EndsWith("")
     \/ Cardinality(types) # 1 /\ EndsWith("failure") /\ UNCHANGED backup_method

Chosen == gpc = "done" /\ outcome = "" /\ backup_method # ""

\* One operand.
TakeOperand ==
  /\ Chosen /\ optind < argc
  /\ optind' = optind + 1
  /\ \/ /\ pattern_string = <<>>
        /\ pattern_string' = <<argv[optind]>>
        /\ UNCHANGED <<replacement_string, file_list>>
     \/ /\ pattern_string # <<>> /\ replacement_string = <<>>
        /\ replacement_string' = <<argv[optind]>>
        /\ UNCHANGED <<pattern_string, file_list>>
     \/ /\ pattern_string # <<>> /\ replacement_string # <<>>
        /\ file_list' = Append(file_list, argv[optind])
        /\ UNCHANGED <<pattern_string, replacement_string>>
  /\ UNCHANGED <<argv, ordering, nextchar, first_nonopt, last_nonopt, segments, gpc,
                 returned, env, flags, backups, filters, verdicts, outcome>>

\* Without pattern and replacement the program ends; with them and without
\* files, or with the file "-", it is a filter.
Dispatch ==
  /\ Chosen /\ optind = argc
  /\ EndsWith(IF <<>> \in {pattern_string, replacement_string} THEN "failure"
              ELSE IF file_list \in {<<>>, <<<<"-">>>>} THEN "filter" ELSE "files")
  /\ UNCHANGED backups

\* The suffix, the file list or the buffer cannot be allocated.
MallocFails ==
  /\ "malloc" \in Faults
  /\ \/ Scanned /\ ~failure_flag /\ ~exit_flag
     \/ Chosen /\ optind = argc /\ <<>> \notin {pattern_string, replacement_string}
  /\ EndsWith("no_memory")
  /\ UNCHANGED backups

Works ==
  \/ GetOptNext /\ UNCHANGED <<env, flags, strings, backups, filters, verdicts, outcome>>
  \/ Switch
  \/ Usage \/ Information \/ ChooseBackups \/ TakeOperand \/ Dispatch

Next == Works \/ MallocFails

Spec == Init /\ [][Next]_vars

\* main is sequential and goes on by itself; malloc need not fail for that.
FairSpec == Spec /\ WF_vars(Works)

-----------------------------------------------------------------------------
(* Correctness: what a command line means, element by element and without  *)
(* moving anything, and what its options and operands ask for.             *)

\* The options in an element of the command line, and whether they take next, the
\* element that follows as <<>> or <<element>>.  A long option has the meanings
\* found and the argument arg.
LongMeaning(found, arg, next) ==
  LET Is(has_arg) == \E f \in found : f[1] = has_arg
      takes == arg = <<>> /\ Is("required_argument")
      good == /\ Cardinality(found) = 1
              /\ arg # <<>> => ~Is("no_argument")
              /\ takes => next # <<>>
  IN [options |-> IF good THEN << <<(CHOOSE f \in found : TRUE)[2],
                                    IF takes THEN next ELSE arg>> >>
                  ELSE << <<"?", <<>> >> >>,
      takes |-> good /\ takes]

TakesArgument(c) == c \in DOMAIN ShortOptions /\ ShortOptions[c] # "no_argument"

ShortMeaning(letters, next) ==
  LET k == SelectInSeq(letters, TakesArgument)
      flag == [j \in 1 .. IF k = 0 THEN Len(letters) ELSE k - 1 |->
                 <<IF letters[j] \in DOMAIN ShortOptions THEN letters[j] ELSE "?", <<>> >>]
      ends == k = Len(letters) /\ ShortOptions[letters[k]] = "required_argument"
      arg == IF k < Len(letters) THEN <<SubSeq(letters, k + 1, Len(letters))>>
             ELSE IF ends THEN next ELSE <<>>
  IN IF k = 0 THEN [options |-> flag, takes |-> FALSE]
     ELSE [options |-> flag \o << <<IF ends /\ arg = <<>> THEN "?" ELSE letters[k], arg>> >>,
           takes |-> ends /\ next # <<>>]

ElementMeaning(e, next) ==
  IF IsLong(e) THEN LongMeaning(Meanings(Candidates(NameOf(e))), ArgumentOf(e), next)
  ELSE ShortMeaning(Tail(e), next)

\* The options and the operands of the command line a.
Scan(a) ==
  LET from[i \in 1 .. Len(a) + 2] ==
        IF i > Len(a) THEN [options |-> <<>>, operands |-> <<>>]
        ELSE IF IsEnd(a[i])
        THEN [options |-> <<>>, operands |-> SubSeq(a, i + 1, Len(a))]
        ELSE IF NonOption(a[i])
        THEN IF ordering = "REQUIRE_ORDER"
             THEN [options |-> <<>>, operands |-> SubSeq(a, i, Len(a))]
             ELSE [from[i + 1] EXCEPT !.operands = <<a[i]>> \o @]
        ELSE LET m == ElementMeaning(a[i], IF i < Len(a) THEN <<a[i + 1]>> ELSE <<>>)
             IN [from[IF m.takes THEN i + 2 ELSE i + 1]
                   EXCEPT !.options = m.options \o @]
  IN from[1]

\* The arguments that option v has among the options.
Arguments(options, v) ==
  FlattenSeq([k \in DOMAIN options |-> IF options[k][1] = v THEN options[k][2] ELSE <<>>])

\* Types.
TypeOK ==
  /\ GetOptTypeOK
  /\ flags \subseteq {FlagOf[o] : o \in DOMAIN FlagOf} \cup {"OPT_BACKUP"}
  /\ Len(pattern_string) <= 1 /\ Len(replacement_string) <= 1
  /\ Len(suffix_string) <= 1 /\ Len(version_control) <= 1
  /\ backup_method \in {"", "none", "simple", "existing", "numbered"}
  /\ failure_flag \in BOOLEAN /\ exit_flag \in BOOLEAN
  /\ outcome \in {"", "failure", "no_memory", "information", "filter", "files"}

\* However options, their arguments and operands are mixed: getopt_long delivers
\* every option once and in order, and when it is through, the operands are what
\* is left of argv, in order, though options were moved across them
\* (lib/getopt.c:131-183, 493-563).
ScansInOrder ==
  Scanned =>
    Scan(args) = [options |-> delivered, operands |-> SubSeq(argv, optind, Len(argv))]

\* Option v is among the options; it is once more after it had an argument.
Given(options, v) == \E k \in DOMAIN options : options[k][1] = v
Twice(options, v) ==
  \E k \in DOMAIN options, j \in DOMAIN options :
    j < k /\ options[k][1] = v /\ options[j][1] = v /\ options[j][2] # <<>>

\* The options are wrong; they ask for information only.
Wrong(options) == Given(options, "?") \/ Twice(options, "e") \/ Twice(options, "p")
Informative(options) == Given(options, "h") \/ Given(options, "V")

\* The types of backups they may ask for.
TypesFor(options) ==
  LET b == Arguments(options, "b") IN
  IF ~Given(options, "S") /\ ~Given(options, "b") THEN {"none"}
  ELSE XgetVersion(IF b = <<>> THEN <<>> ELSE <<Last(b)>>)

\* Pattern, replacement and files: those of -e and -p, and the operands.
WordsFor(options, operands) ==
  LET e == Arguments(options, "e")
      p == Arguments(options, "p")
  IN e \o (IF p = <<>> THEN operands
           ELSE IF e # <<>> \/ operands = <<>> THEN p \o operands
           ELSE <<Head(operands)>> \o p \o Tail(operands))

\* The outcome that these options and operands ask for.
OutcomeFor(options, operands) ==
  LET types == TypesFor(options)
      words == WordsFor(options, operands)
  IN /\ outcome = "failure" => Wrong(options) \/ Cardinality(types) # 1 \/ Len(words) < 2
     /\ outcome = "information" => ~Wrong(options) /\ Informative(options)
     /\ outcome \in {"filter", "files"} =>
          /\ ~Wrong(options) /\ ~Informative(options) /\ Len(words) > 1
          /\ pattern_string \o replacement_string \o file_list = words
          /\ outcome = "filter" <=> Tail(Tail(words)) \in {<<>>, <<<<"-">>>>}
          /\ types = {backup_method}
          /\ Given(options, "S") => simple_backup_suffix = Last(Arguments(options, "S"))

\* What main makes of the command line: a wrong option, a second pattern or a
\* second replacement ends it before --help and --version are honoured; what -e
\* and -p do not give is taken from the operands, the pattern first; a suffix
\* asks for backups as -b does; and the type of backups is the last one given, or
\* that of the environment (rrep.c:751-981).
OutcomeRight ==
  outcome # "" => OutcomeFor(Scan(args).options, Scan(args).operands)

\* Which names qualify with these options.
NamesFor(options) ==
  LET Matches(v, f) ==
        \E q \in ToSet(Arguments(options, v)), t \in Tails(f) :
          IF Wild(q) THEN Fnmatch(q, t) ELSE q = t
  IN \A f \in EntryNames :
       /\ CheckName(f, "OPT_ALL" \in flags, included_patterns, excluded_patterns) <=>
            /\ f # <<>>
            /\ f[1] # "." \/ f = <<".">> \/ "OPT_ALL" \in flags
            /\ Arguments(options, "INCLUDE_OPTION") = <<>> \/ Matches("INCLUDE_OPTION", f)
            /\ ~Matches("EXCLUDE_OPTION", f)
       /\ CheckIncludeName(f, <<>>, excluded_directory_patterns) <=>
            ~Matches("EXCLUDE_DIR_OPTION", f)

\* In whatever order the filters are given, and whichever have wildcards: an
\* entry qualifies if it matches one of the --include, if there are any, and none
\* of the --exclude (lib/exclude.c:466-600, rrep.c:448-477).
NamesQualify == outcome # "" => NamesFor(Scan(args).options)

\* Every command line is decided.
Decides == <>(outcome # "")
=============================================================================
