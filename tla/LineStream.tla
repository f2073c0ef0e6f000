----------------------------- MODULE LineStream -----------------------------
(***************************************************************************)
(* What read_line (src/bufferio.c) promises its callers, without a buffer: *)
(* a file is handed out one line at a time, in order, each byte exactly    *)
(* once, and END_REACHED comes when every byte has been handed out.        *)
(***************************************************************************)
EXTENDS Naturals, Sequences

CONSTANTS
  Files,   \* the contents a file may have, each a sequence of bytes
  Delims   \* the bytes that end a line

VARIABLES
  file,    \* content of the file being read
  taken,   \* number of bytes of file handed out so far
  text,    \* the line handed out by the last call
  ret      \* "idle", "open", "line" (SUCCESS), "eof" (END_REACHED), "error"

vars == <<file, taken, text, ret>>

Active == ret \in {"open", "line"}

\* The line that starts after position t of f ends at position p: at the
\* first delimiter, or at the end of the file.
EndsAt(f, t, p) ==
  /\ p = Len(f) \/ f[p] \in Delims
  /\ \A q \in (t + 1) .. (p - 1) : f[q] \notin Delims

Init ==
  /\ file = <<>>
  /\ taken = 0
  /\ text = <<>>
  /\ ret = "idle"

\* The caller starts to read a file, or the same file again.
Open(f) ==
  /\ file' = f
  /\ taken' = 0
  /\ text' = <<>>
  /\ ret' = "open"

Deliver ==
  /\ Active
  /\ \E p \in (taken + 1) .. Len(file) :
       /\ EndsAt(file, taken, p)
       /\ text' = SubSeq(file, taken + 1, p)
       /\ taken' = p
  /\ ret' = "line"
  /\ UNCHANGED file

End ==
  /\ Active
  /\ taken = Len(file)
  /\ ret' = "eof"
  /\ UNCHANGED <<file, taken, text>>

Fail ==
  /\ Active
  /\ ret' = "error"
  /\ UNCHANGED <<file, taken, text>>

Next == (\E f \in Files : Open(f)) \/ Deliver \/ End \/ Fail

Spec == Init /\ [][Next]_vars
=============================================================================
