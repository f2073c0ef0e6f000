----------------------------- MODULE MCDirWalk -----------------------------
(***************************************************************************)
(* Instances of DirWalk for TLC: all trees up to a depth over a few names, *)
(* below the directory the program is started in, which is <<>>.           *)
(***************************************************************************)
EXTENDS DirWalk

CONSTANTS
  Depth,     \* bound: how deep a tree is
  Later      \* a time

\* "x" is excluded below a directory, and it is only at the top: a file, or a
\* directory with a file in it.
MCPaths == BoundedSeq({"a", "b"}, Depth) \cup {<<"x">>, <<"x", "a">>}

\* In a tree every node but <<>> is in a directory.
MCTrees ==
  {t \in [dirs : SUBSET (MCPaths \ {<<"x", "a">>}), files : SUBSET (MCPaths \ {<<>>})] :
     LET nodes == t.dirs \cup t.files IN
     /\ t.dirs \cap t.files = {} /\ <<>> \in t.dirs
     /\ \A n \in nodes \ {<<>>} : Front(n) \in t.dirs
     /\ <<"x">> \in nodes
     /\ <<"x">> \in t.dirs => <<"x", "a">> \in nodes}

MCArgsIn == MCPaths \ {<<"b", "b">>}
MCArgLists ==
  { <<  <<>>  >>,
    <<  <<"a">>, <<"b">>  >>,
    <<  <<"a", "a">>, <<"b", "b">>, <<"x">>, <<"a">>  >> }
MCDotOnly == { <<  <<>>  >> }
=============================================================================
