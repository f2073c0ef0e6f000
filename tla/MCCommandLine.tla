--------------------------- MODULE MCCommandLine ---------------------------
(***************************************************************************)
(* Command lines for CommandLine: up to MaxMixed of the elements with      *)
(* which options and operands go wrong, longer ones of operands and two    *)
(* options, where whole segments change places, and up to MaxFilters       *)
(* filters.                                                                *)
(***************************************************************************)
EXTENDS CommandLine

CONSTANTS MaxMixed, MaxLong, MaxFilters  \* bounds: elements of a command line

\* "n" could be several types of backups, "s" only "simple".
Operands == {<<>>, <<"n">>, <<"s">>, <<"-">>}
Mixed ==
  Operands \cup
  {<<"-", "-">>, <<"-", "q", "e">>, <<"-", "p", "s">>, <<"-", "S">>, <<"-", "h">>,
   <<"-", "-", "re">>, <<"-", "-", "re", "place-with">>,
   <<"-", "-", "b", "ackup", "=", "n">>, <<"-", "-", "b", "ackup", "=", "s">>,
   <<"-", "-", "i", "n", "clude">>}
Segments == {<<"n">>, <<"s">>, <<"-", "q">>, <<"-", "S">>}
Filters ==
  {<<"-", "-", "i", "n", "clude", "=", "*", "s">>,
   <<"-", "-", "i", "n", "clude", "=", "n">>,
   <<"-", "-", "ex", "clude", "=", "n", "*">>,
   <<"-", "-", "ex", "clude", "=", "s">>,
   <<"-", "-", "ex", "clude", "-dir", "=", "s">>, <<"-", "a">>}

MCArgLists ==
  BoundedSeq(Mixed, MaxMixed) \cup BoundedSeq(Segments, MaxLong)
    \cup BoundedSeq(Filters, MaxFilters)
MCEnvironments ==
  {[SIMPLE_BACKUP_SUFFIX |-> <<>>, VERSION_CONTROL |-> <<>>],
   [SIMPLE_BACKUP_SUFFIX |-> <<<<"s">>>>, VERSION_CONTROL |-> <<<<"n">>>>]}
MCEntryNames ==
  {<<>>, <<".">>, <<".", "s">>, <<"n">>, <<"s">>, <<"n", "s">>, <<"n", "/", "s">>,
   <<"s", "/", "n">>}

MCWild(p) == \E k \in DOMAIN p : p[k] = "*"
MCFnmatch(p, f) ==
  \E k \in DOMAIN p :
    /\ p[k] = "*" /\ Len(f) >= Len(p) - 1
    /\ IsPrefix(SubSeq(p, 1, k - 1), f) /\ IsSuffix(SubSeq(p, k + 1, Len(p)), f)
=============================================================================
