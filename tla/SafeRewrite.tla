---------------------------- MODULE SafeRewrite ----------------------------
(***************************************************************************)
(* What process_file (src/rrep.c) promises about the disk, whatever fails: *)
(* a file keeps its content until the rewriting begins; before that, only  *)
(* other names are written (the backup); and if files are guarded by       *)
(* backups, the rewriting begins with a complete copy under another name,  *)
(* which stays there.                                                      *)
(***************************************************************************)
EXTENDS Naturals, Sequences

VARIABLES
  disk,     \* content by name
  cur,      \* the file being processed
  orig,     \* its content when processing began
  phase,    \* "out" (between files), "in" (content intact), "torn"
  guarded   \* whether backups are made

vars == <<disk, cur, orig, phase, guarded>>

\* Only the content of name n may change, and only n may be created.
Only(n) ==
  /\ DOMAIN disk' = DOMAIN disk \cup {n}
  /\ \A m \in DOMAIN disk \ {n} : disk'[m] = disk[m]

Init ==
  /\ cur \in DOMAIN disk
  /\ orig = disk[cur]
  /\ phase = "out"
  /\ guarded \in BOOLEAN

Begin ==
  /\ phase = "out" /\ phase' = "in"
  /\ cur' \in DOMAIN disk /\ orig' = disk[cur']
  /\ UNCHANGED <<disk, guarded>>

\* The backup is written, in any number of steps.  The program may give up.
Save ==
  /\ phase = "in" /\ phase' \in {"in", "out"}
  /\ \E n \in DOMAIN disk' \ {cur} : Only(n)
  /\ UNCHANGED <<cur, orig, guarded>>

Start ==
  /\ phase = "in" /\ phase' = "torn"
  /\ guarded => \E n \in DOMAIN disk \ {cur} : disk[n] = orig
  /\ Only(cur)
  /\ UNCHANGED <<cur, orig, guarded>>

Rewrite ==
  /\ phase = "torn" /\ phase' \in {"torn", "out"}
  /\ Only(cur)
  /\ UNCHANGED <<cur, orig, guarded>>

\* The file is given up, intact.
Leave ==
  /\ phase = "in" /\ phase' = "out"
  /\ UNCHANGED <<disk, cur, orig, guarded>>

Next == Begin \/ Save \/ Start \/ Rewrite \/ Leave

Spec == Init /\ [][Next]_vars
=============================================================================
