------------------------------ MODULE Exclude ------------------------------
(***************************************************************************)
(* The name filters --include, --exclude and --exclude-dir: exclude.c of   *)
(* the library, with the options that src/rrep.c passes, and check_name.   *)
(* A list is a sequence of segments, the newest first; a segment holds     *)
(* patterns with wildcards, or a hash table of those without.              *)
(***************************************************************************)
EXTENDS Naturals, Sequences, FiniteSets, SequencesExt

CONSTANTS
  Wild(_),      \* whether a pattern has wildcards
  Fnmatch(_, _) \* whether a pattern with wildcards matches a name

\* Mutant: the newest segment takes any pattern.
AddExcludeAnywhere(ex, p, include) ==
  LET type == IF Wild(p) THEN "exclude_pattern" ELSE "exclude_hash" IN
  IF ex # <<>> THEN [ex EXCEPT ![1].patterns = @ \cup {p}]
  ELSE <<[type |-> type, include |-> include, patterns |-> {p}]>> \o ex

\* add_exclude: the pattern goes to the newest segment if that is of its type.
AddExclude(ex, p, include) ==
  LET type == IF Wild(p) THEN "exclude_pattern" ELSE "exclude_hash" IN
  IF ex # <<>> /\ Head(ex).type = type /\ Head(ex).include = include
  THEN [ex EXCEPT ![1].patterns = @ \cup {p}]
  ELSE <<[type |-> type, include |-> include, patterns |-> {p}]>> \o ex

\* A pattern is compared with the name and with what follows each slash in it; no
\* name has two slashes in a row.
Tails(f) == {f} \cup {SubSeq(f, k + 1, Len(f)) : k \in {k \in DOMAIN f : f[k] = "/"}}

\* file_pattern_matches and file_name_matches.
SegmentMatches(seg, f) ==
  \E p \in seg.patterns, t \in Tails(f) :
    IF seg.type = "exclude_hash" THEN t = p ELSE Fnmatch(p, t)

\* The first segment that matches decides; if none does, the opposite of the
\* oldest one holds.
ExcludedFileName(ex, f) ==
  LET hits == {k \in DOMAIN ex : SegmentMatches(ex[k], f)} IN
  /\ ex # <<>>
  /\ IF hits = {} THEN Last(ex).include
     ELSE ~ex[CHOOSE k \in hits : \A m \in hits : k <= m].include

CheckIncludeName(f, included, excluded) ==
  ~ExcludedFileName(included, f) /\ ~ExcludedFileName(excluded, f)

\* An entry of a directory: without --all, names with a leading dot are left out.
CheckName(f, all, included, excluded) ==
  /\ f # <<>>
  /\ f[1] = "." /\ Len(f) > 1 => all
  /\ CheckIncludeName(f, included, excluded)
=============================================================================
