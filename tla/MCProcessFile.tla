--------------------------- MODULE MCProcessFile ---------------------------
(***************************************************************************)
(* Instances of ProcessFile for TLC: "old" and "bin" match the pattern,    *)
(* "bin" also has a null character, and "new" is what a match becomes.     *)
(***************************************************************************)
EXTENDS NumberedBackup

CONSTANTS
  Bases,       \* names of the files
  MinLines, MaxLines,  \* bounds: lines of a file
  MCBackups,   \* backup methods of this instance
  Flags,       \* values the other options take, a set of BOOLEANs
  Again,       \* whether the replacement matches the pattern once more
  MaxDigits    \* bound: digits of a version

MCLines == {"keep", "old", "new", "bin"}
MCMatching == {"old", "bin"} \cup (IF Again THEN {"new"} ELSE {})
MCNulLines == {"bin"}
MCSubst == [l \in MCLines |-> IF l = "keep" THEN "keep" ELSE "new"]
MCFiles == {[base |-> b, suffix |-> <<>>] : b \in Bases}
MCContents ==
  {c \in BoundedSeq(MCLines \ {"new"}, MaxLines) : Len(c) >= MinLines}

\* One of them has a digit 0 in front.
MCEntries == {<<0, 1>>} \cup {p \in BoundedSeq(0 .. Radix - 1, MaxDigits) : IsVersion(p)}

MCSuffix == <<0>>
MCNoSuffix == <<>>
MCOptions ==
  {o \in Options : /\ o.backup \in MCBackups
                   /\ {o.binary, o.dry, o.quiet, o.prompt} \subseteq Flags}
=============================================================================
