---------------------------- MODULE ProcessFile ----------------------------
(***************************************************************************)
(* process_file of src/rrep.c with the functions it calls: it scans a file *)
(* for the pattern, asks and backs up if told to, writes the replaced text *)
(* to a temporary file or to memory, truncates the file and copies the     *)
(* text back.  Calls follow one another as process_file_list and           *)
(* process_dir make them, and runs of the program follow one another on    *)
(* one disk, also after a run has been killed.                             *)
(*                                                                         *)
(* A file is a sequence of lines, a line is what the code tells apart: it  *)
(* matches or not, it has a null character or not, and it has a form after *)
(* replacement.                                                            *)
(***************************************************************************)
EXTENDS Naturals, Sequences, FiniteSets

CONSTANTS
  Lines,       \* the lines there are
  Matching,    \* those the pattern matches
  NulLines,    \* those with a null character
  Subst,       \* the form of each line after replacement
  Files,       \* names of the files that exist at first
  Contents,    \* the contents these may have
  OptionSets,  \* the combinations of command line options
  SimpleSuffix, \* the suffix of simple backups, <<0>> or the empty one
  Faults,      \* what may go wrong in the environment
  MaxFaults,   \* bound: how many of the faults happen in a behaviour
  MaxCalls,    \* bound: calls of process_file in a run
  MaxRuns,     \* bound: runs of the program
  MaxVersion,  \* bound: backup version numbers
  MaxDepth     \* bound: suffixes of a name that is processed

Methods == {"off", "none", "simple", "numbered", "existing"}

\* "off" is a run without --backup, the others are the backup_method.
Options == [binary : BOOLEAN, dry : BOOLEAN, quiet : BOOLEAN,
            prompt : BOOLEAN, backup : Methods]

\* A file name is a record of a base and the backup suffixes that follow it, 0
\* for the simple suffix and n > 0 for the suffix ".~n~".  main accepts an empty
\* suffix from --suffix and SIMPLE_BACKUP_SUFFIX.  Names are short enough for any
\* suffix: otherwise the library shortens them, and backups may share a name.

ASSUME LineAssumption ==
  /\ Matching \subseteq Lines /\ NulLines \subseteq Lines
  /\ Subst \in [Lines -> Lines]
  /\ \A l \in Lines \ Matching : Subst[l] = l
ASSUME FileAssumption ==
  /\ Contents \subseteq Seq(Lines)
  /\ \A f \in Files : f = [base |-> f.base, suffix |-> <<>>]
ASSUME SuffixAssumption == SimpleSuffix \in {<<>>, <<0>>}
ASSUME OptionAssumption == OptionSets \subseteq Options
ASSUME BoundAssumption ==
  {MaxFaults, MaxCalls, MaxRuns, MaxVersion, MaxDepth} \subseteq Nat

VARIABLES
  disk,         \* content of each file that exists, by name
  opts,         \* the options
  pc,           \* where process_file stands, see TypeOK
  cur,          \* file_name
  view,         \* the lines read_line delivers from fp
  at,           \* how many of them it has delivered in this pass
  found_flag,
  bname,        \* backup_name
  tmp,          \* "file" (a tmpfile) or "memory" (file_buffer)
  out,          \* what tmp or file_buffer holds, in lines
  written,      \* how much of it was passed to fwrite on fp
  tmp_eof,      \* feof of tmp
  streams,      \* the streams that are open: "fp", "tmp"
  failure_flag, \* of process_file_list and its callers
  status,       \* "running", the exit status 0 or 1, or "killed"
  calls, runs,  \* counters for the bounds
  faulted,      \* history: the faults that happened
  orig,         \* history: content of cur when the call began
  initial       \* history: content of Files at the very beginning

file_local == <<view, at, found_flag, bname, tmp, out, written, tmp_eof>>
program == <<failure_flag, status, calls, runs>>
history == <<faulted, orig, initial>>
vars == <<disk, opts, pc, cur, file_local, streams, program, history>>

Replaced(c) == [i \in DOMAIN c |-> Subst[c[i]]]
Prefix(s, k) == SubSeq(s, 1, k)

\* The disk after content c has been written under name n.
Stored(n, c) == [m \in DOMAIN disk \cup {n} |-> IF m = n THEN c ELSE disk[m]]

Simple(n) == [n EXCEPT !.suffix = @ \o SimpleSuffix]
Numbered(n, v) == [n EXCEPT !.suffix = Append(@, v)]

\* Fault f happens.  A fault may strike again, MaxFaults limits the kinds.
Fault(f) ==
  /\ f \in Faults
  /\ Cardinality(faulted \cup {f}) <= MaxFaults
  /\ faulted' = faulted \cup {f}

NoFault == UNCHANGED faulted

\* process_file goes on at p.
Goto(p) == pc' = p /\ UNCHANGED <<failure_flag, status>>

\* Mutant: the callers assign the result of the last call.
ReturnLast(failed) ==
  /\ pc' = "idle"
  /\ failure_flag' = failed
  /\ UNCHANGED status

\* process_file returns; its callers collect the failures with |=.
Return(failed) ==
  /\ pc' = "idle"
  /\ failure_flag' = IF failed THEN TRUE ELSE failure_flag
  /\ UNCHANGED status

\* The program ends.
Terminate(s) ==
  /\ pc' = "ended"
  /\ status' = s
  /\ streams' = {}
  /\ UNCHANGED failure_flag

\* What only Begin, Rerun and Init assign, but for view, see Rewind.
Fixed == <<opts, cur, view, calls, runs, orig, initial>>

-----------------------------------------------------------------------------
Init ==
  /\ disk \in [Files -> Contents]
  /\ opts \in OptionSets
  /\ pc = "idle"
  /\ cur \in Files
  /\ view = <<>> /\ at = 0 /\ found_flag = FALSE /\ bname = cur
  /\ tmp = "file" /\ out = <<>> /\ written = 0 /\ tmp_eof = FALSE
  /\ streams = {}
  /\ failure_flag = FALSE /\ status = "running" /\ calls = 0 /\ runs = 1
  /\ faulted = {} /\ orig = disk[cur] /\ initial = disk

\* What read_line delivers of content c: its lines, and for an empty file one
\* line of whatever byte is in front of the buffer.
Views(c) == IF c = <<>> THEN {<<l>> : l \in Lines} ELSE {c}

\* process_file is called for a file of the list, or for an entry of a
\* directory, which may be a backup made a moment ago.
Begin(n) ==
  /\ pc = "idle" /\ calls < MaxCalls
  /\ n \in DOMAIN disk /\ Len(n.suffix) <= MaxDepth
  /\ calls' = calls + 1
  /\ UNCHANGED <<disk, opts, bname, tmp, tmp_eof, runs, initial>>
  /\ \/ /\ cur' = n /\ orig' = disk[n]
        /\ view' \in Views(disk[n])
        /\ at' = 0 /\ found_flag' = FALSE /\ out' = <<>> /\ written' = 0
        /\ streams' = {"fp"}
        /\ Goto("scan") /\ NoFault
     \/ /\ Fault("open")
        /\ Return(TRUE)
        /\ UNCHANGED <<cur, orig, view, at, found_flag, out, written, streams>>

-----------------------------------------------------------------------------
(* The search for the pattern.  It stops at the first match only if binary *)
(* files are processed: otherwise a null character may still follow.       *)

Scanning == pc = "scan" /\ ~(found_flag /\ opts.binary)

ScanLine ==
  LET line == view[at + 1] IN
  /\ Scanning /\ at < Len(view)
  /\ at' = at + 1
  /\ NoFault
  /\ UNCHANGED <<Fixed, disk, bname, tmp, out, written, tmp_eof>>
  /\ \/ /\ ~opts.binary /\ line \in NulLines
        /\ streams' = {}
        /\ Return(FALSE)
        /\ UNCHANGED found_flag
     \/ /\ opts.binary \/ line \notin NulLines
        /\ found_flag' = IF line \in Matching THEN TRUE ELSE found_flag
        /\ Goto("scan")
        /\ UNCHANGED streams

\* Mutant: the search always stops at the first match.
ScanEndAtMatch ==
  /\ pc = "scan"
  /\ found_flag \/ at = Len(view)
  /\ Goto(IF found_flag THEN "found" ELSE "close")
  /\ NoFault
  /\ UNCHANGED <<Fixed, disk, file_local, streams>>

ScanEnd ==
  /\ pc = "scan"
  /\ (found_flag /\ opts.binary) \/ at = Len(view)
  /\ Goto(IF found_flag THEN "found" ELSE "close")
  /\ NoFault
  /\ UNCHANGED <<Fixed, disk, file_local, streams>>

\* read_line fails, and has closed fp; or regexec fails.
ScanFail ==
  /\ Scanning
  /\ UNCHANGED <<Fixed, disk, file_local>>
  /\ \/ /\ Fault("read")
        /\ streams' = streams \ {"fp"}
        /\ Goto("again")
     \/ /\ at < Len(view) /\ Fault("regex")
        /\ streams' = {}
        /\ Return(TRUE)

\* fclose of the stream that read_line has closed, which is undefined: the C
\* library aborts, or process_file returns FAILURE as if nothing had happened.
CloseAgain ==
  /\ pc = "again"
  /\ NoFault
  /\ UNCHANGED <<Fixed, disk, file_local>>
  /\ \/ streams' = {} /\ Return(TRUE)
     \/ Terminate("aborted")

-----------------------------------------------------------------------------
(* The pattern was found: dry run, prompt, backup.  *)

DryRun ==
  /\ pc = "found" /\ opts.dry /\ ~opts.quiet
  /\ streams' = {}
  /\ Return(FALSE) /\ NoFault
  /\ UNCHANGED <<Fixed, disk, file_local>>

Decline ==
  /\ pc = "found" /\ ~(opts.dry /\ ~opts.quiet) /\ opts.prompt
  /\ streams' = {}
  /\ Return(FALSE) /\ NoFault
  /\ UNCHANGED <<Fixed, disk, file_local>>

\* Mutant: an answer of the user skips the backup.
AcceptSkipsBackup ==
  /\ pc = "found" /\ ~(opts.dry /\ ~opts.quiet)
  /\ Goto(IF opts.prompt THEN "rewind" ELSE "backup") /\ NoFault
  /\ UNCHANGED <<Fixed, disk, file_local, streams>>

\* The user accepts, or is not asked.
Accept ==
  /\ pc = "found" /\ ~(opts.dry /\ ~opts.quiet)
  /\ Goto("backup") /\ NoFault
  /\ UNCHANGED <<Fixed, disk, file_local, streams>>

Guarded == opts.backup \in {"simple", "numbered", "existing"}

NoBackup ==
  /\ pc = "backup" /\ ~Guarded
  /\ Goto("rewind") /\ NoFault
  /\ UNCHANGED <<Fixed, disk, file_local, streams>>

Versions(n) == {v \in 1 .. MaxVersion : Numbered(n, v) \in DOMAIN disk}

\* Mutant: the highest version is used again.
BackupNamesReused(n, vs) ==
  IF opts.backup = "simple" \/ (opts.backup = "existing" /\ vs = {})
  THEN {Simple(n)}
  ELSE {Numbered(n, v) : v \in {v \in 1 .. MaxVersion :
                                  /\ \A w \in vs : w <= v
                                  /\ v = 1 \/ v \in vs}}

\* The names find_backup_file_name may return for n when the directory shows
\* the versions vs: one more than the highest, or the simple name.
BackupNames(n, vs) ==
  IF opts.backup = "simple" \/ (opts.backup = "existing" /\ vs = {})
  THEN {Simple(n)}
  ELSE {Numbered(n, v) : v \in {v \in 1 .. MaxVersion :
                                  /\ \A w \in vs : w < v
                                  /\ v = 1 \/ v - 1 \in vs}}

\* copy_file_preserving opens the backup, which truncates an older one, or, if
\* the suffix is empty, the file itself.  A directory that cannot be listed looks
\* like one without numbered backups.  Failures end the program.
OpenBackup ==
  /\ pc = "backup" /\ Guarded
  /\ UNCHANGED <<Fixed, view, at, found_flag, tmp, out, written, tmp_eof>>
  /\ \/ /\ \/ NoFault /\ bname' \in BackupNames(cur, Versions(cur))
           \/ Fault("listdir") /\ bname' \in BackupNames(cur, {})
        /\ disk' = Stored(bname', <<>>)
        /\ Goto("copy")
        /\ UNCHANGED streams
     \/ /\ Fault("backup")
        /\ Terminate("failed")
        /\ UNCHANGED <<disk, bname>>

CopyBackup ==
  /\ pc = "copy"
  /\ \E k \in Len(disk[bname]) .. Len(disk[cur]) :
       /\ disk' = Stored(bname, Prefix(disk[cur], k))
       /\ \/ k > Len(disk[bname]) /\ Goto("copy") /\ NoFault /\ UNCHANGED streams
          \/ Fault("backup") /\ Terminate("failed")
  /\ UNCHANGED <<Fixed, file_local>>

\* Mutant: the copy is taken for complete as soon as it exists.
CopyEndEarly ==
  /\ pc = "copy"
  /\ Goto("rewind") /\ NoFault
  /\ UNCHANGED <<Fixed, disk, file_local, streams>>

CopyEnd ==
  /\ pc = "copy" /\ Len(disk[bname]) = Len(disk[cur])
  /\ Goto("rewind") /\ NoFault
  /\ UNCHANGED <<Fixed, disk, file_local, streams>>

-----------------------------------------------------------------------------
(* replace_string, from fp to the temporary file or to file_buffer.  *)

\* Mutant: fp is not rewound.
RewindNot ==
  /\ pc = "rewind"
  /\ \/ tmp' = "file" /\ streams' = streams \cup {"tmp"}
     \/ tmp' = "memory" /\ UNCHANGED streams
  /\ Goto("replace") /\ NoFault
  /\ UNCHANGED <<Fixed, disk, at, found_flag, bname, out, written, tmp_eof>>

\* Without a temporary file process_file uses memory and reports nothing.  If
\* the backup has truncated the file, fp delivers what it has buffered or what is
\* left of the file.
Rewind ==
  /\ pc = "rewind"
  /\ at' = 0
  /\ view' \in {view} \cup (IF disk[cur] = orig THEN {} ELSE Views(disk[cur]))
  /\ \/ tmp' = "file" /\ streams' = streams \cup {"tmp"}
     \/ tmp' = "memory" /\ UNCHANGED streams
  /\ Goto("replace") /\ NoFault
  /\ UNCHANGED <<opts, cur, calls, runs, orig, initial, disk, found_flag, bname, out,
                 written, tmp_eof>>

\* write_string: the result of fwrite is not looked at, so a full temporary file
\* loses what is written to it.
WriteString(l) ==
  \/ out' = Append(out, l) /\ NoFault
  \/ tmp = "file" /\ Fault("tmpfull") /\ UNCHANGED out

\* One line: what the pattern matches in it is written in replaced form.
ReplaceLine ==
  /\ pc = "replace" /\ at < Len(view)
  /\ at' = at + 1
  /\ WriteString(Subst[view[at + 1]])
  /\ Goto("replace")
  /\ UNCHANGED <<Fixed, disk, found_flag, bname, tmp, written, tmp_eof, streams>>

ReplaceEnd ==
  /\ pc = "replace" /\ at = Len(view)
  /\ Goto("reopen") /\ NoFault
  /\ UNCHANGED <<Fixed, disk, file_local, streams>>

\* Mutant: the temporary file stays open.
ReplaceFailLeaks ==
  /\ pc = "replace"
  /\ UNCHANGED <<Fixed, disk, file_local>>
  /\ \/ at < Len(view) /\ Fault("regex")
     \/ tmp = "memory" /\ Fault("realloc")
  /\ streams' = streams \ {"fp"}
  /\ Return(TRUE)

\* As in the search; file_buffer may also not be allocated or grow.
ReplaceFail ==
  /\ pc = "replace"
  /\ UNCHANGED <<Fixed, disk, file_local>>
  /\ \/ /\ Fault("read")
        /\ streams' = streams \ {"fp"}
        /\ Goto("again")
     \/ /\ \/ at < Len(view) /\ Fault("regex")
           \/ tmp = "memory" /\ Fault("realloc")
        /\ streams' = {}
        /\ Return(TRUE)

-----------------------------------------------------------------------------
(* The text goes back to the file.  What fwrite has accepted reaches the   *)
(* disk at some later time, with fclose at the latest.                     *)

Reopen ==
  /\ pc = "reopen"
  /\ UNCHANGED <<Fixed, view, at, found_flag, bname, tmp, out, written>>
  /\ \/ /\ disk' = Stored(cur, <<>>)
        /\ tmp_eof' = FALSE  \* rewind (tmp)
        /\ Goto("write") /\ NoFault
        /\ UNCHANGED streams
     \/ /\ Fault("reopen")
        /\ streams' = {}
        /\ Return(TRUE)
        /\ UNCHANGED <<disk, tmp_eof>>

\* The disk gets the first d lines of out, for some d up to k.
FlushUpTo(k) ==
  \E d \in Len(disk[cur]) .. k : disk' = Stored(cur, Prefix(out, d))

\* Mutant: the loop asks for the end of fp, which is not being read.
ReadTmpNoEnd(w) ==
  /\ w \in written .. Len(out)
  /\ UNCHANGED tmp_eof

\* fread takes what tmp holds up to line w: a full buffer, or less when it meets
\* the end of tmp.  Only the short read sets feof.
ReadTmp(w) ==
  \/ w > written /\ UNCHANGED tmp_eof
  \/ w = Len(out) /\ tmp_eof' = TRUE

\* The loop over tmp goes on until feof, also when everything was read before.
Pending == IF tmp = "file" THEN ~tmp_eof ELSE written < Len(out)

\* Mutant: a chunk is one line too long.
WriteChunkTooLong ==
  /\ pc = "write" /\ Pending
  /\ written' = Len(out) + 1 /\ tmp_eof' = TRUE
  /\ FlushUpTo(Len(out))
  /\ Goto("write") /\ NoFault
  /\ UNCHANGED <<Fixed, view, at, found_flag, bname, tmp, out, streams>>

\* One fwrite from the memory, or one chunk from the temporary file.
WriteChunk ==
  /\ pc = "write" /\ Pending
  /\ \E w \in written .. Len(out) :
       /\ \/ tmp = "file" /\ ReadTmp(w)
          \/ tmp = "memory" /\ w = Len(out) /\ UNCHANGED tmp_eof
       /\ written' = w
       /\ FlushUpTo(w)
  /\ Goto("write") /\ NoFault
  /\ UNCHANGED <<Fixed, view, at, found_flag, bname, tmp, out, streams>>

\* fwrite reports a failure, or the temporary file cannot be read.
WriteFail ==
  /\ pc = "write" /\ Pending
  /\ \/ written < Len(out) /\ Fault("write") /\ FlushUpTo(Len(out))
     \/ tmp = "file" /\ Fault("tempread") /\ FlushUpTo(written)
  /\ streams' = {}
  /\ Return(TRUE)
  /\ UNCHANGED <<Fixed, file_local>>

WriteEnd ==
  /\ pc = "write" /\ ~Pending
  /\ streams' = streams \ {"tmp"}
  /\ Goto("close") /\ NoFault
  /\ UNCHANGED <<Fixed, disk, file_local>>

\* The last fclose, whose result is not looked at.
Close ==
  /\ pc = "close"
  /\ \/ ~found_flag /\ NoFault /\ UNCHANGED disk
     \/ found_flag /\ NoFault /\ disk' = Stored(cur, out)
     \/ found_flag /\ Fault("flush") /\ FlushUpTo(Len(out))
  /\ streams' = {}
  /\ Return(FALSE)
  /\ UNCHANGED <<Fixed, file_local>>

-----------------------------------------------------------------------------
(* The end of the run, and another one.  *)

Exit ==
  /\ pc = "idle"
  /\ Terminate(IF failure_flag THEN "failed" ELSE "ok")
  /\ NoFault
  /\ UNCHANGED <<Fixed, disk, file_local>>

Crash ==
  /\ pc # "ended"
  /\ Fault("crash")
  /\ Terminate("killed")
  /\ UNCHANGED <<Fixed, disk, file_local>>

Rerun ==
  /\ pc = "ended" /\ runs < MaxRuns
  /\ pc' = "idle" /\ status' = "running" /\ failure_flag' = FALSE
  /\ calls' = 0 /\ runs' = runs + 1 /\ faulted' = {}
  /\ UNCHANGED <<disk, opts, cur, file_local, streams, orig, initial>>

Scan == ScanLine \/ ScanEnd \/ ScanFail \/ CloseAgain
Confirm == DryRun \/ Decline \/ Accept
Backup == NoBackup \/ OpenBackup \/ CopyBackup \/ CopyEnd
Replace == Rewind \/ ReplaceLine \/ ReplaceEnd \/ ReplaceFail
Overwrite == Reopen \/ WriteChunk \/ WriteFail \/ WriteEnd \/ Close

Next ==
  \/ \E n \in DOMAIN disk : Begin(n)
  \/ Scan \/ Confirm \/ Backup \/ Replace \/ Overwrite
  \/ Exit \/ Crash \/ Rerun

Spec == Init /\ [][Next]_vars

\* The program is sequential and goes on by itself; at a prompt the user
\* answers, or standard input ends.
FairSpec ==
  /\ Spec
  /\ WF_vars(Scan \/ Confirm \/ Backup \/ Replace \/ Overwrite \/ Exit)

-----------------------------------------------------------------------------
(* Correctness.  *)

Names == DOMAIN disk

\* Types; the files that exist are the ones at first and backups of them.
TypeOK ==
  /\ disk \in [Names -> Seq(Lines)]
  /\ Names \subseteq [base : {f.base : f \in Files}, suffix : Seq(Nat)]
  /\ opts \in Options
  /\ pc \in {"idle", "scan", "again", "found", "backup", "copy", "rewind",
             "replace", "reopen", "write", "close", "ended"}
  /\ cur \in Names /\ bname \in Names
  /\ view \in Seq(Lines) /\ at \in 0 .. Len(view)
  /\ found_flag \in BOOLEAN /\ failure_flag \in BOOLEAN
  /\ tmp \in {"file", "memory"}
  /\ out \in Seq(Lines) /\ written \in 0 .. Len(out) /\ tmp_eof \in BOOLEAN
  /\ streams \subseteq {"fp", "tmp"}
  /\ status \in {"running", "ok", "failed", "aborted", "killed"}
  /\ calls \in Nat /\ runs \in Nat /\ faulted \subseteq Faults
  /\ orig \in Seq(Lines)

\* Where process_file stands as seen from the disk: between files, before the
\* file is touched, after that.
Phase ==
  IF pc \in {"idle", "ended"} THEN "out"
  ELSE IF pc = "write" \/ (pc = "close" /\ found_flag) THEN "torn" ELSE "in"

\* With --backup, whatever goes wrong and whenever the program is killed: a
\* file that no longer has the content it had is one whose content can be
\* read in a backup.
TornHasBackup ==
  Guarded /\ disk[cur] # orig => bname # cur /\ disk[bname] = orig

\* The inductive invariant behind it: the file is intact until it is reopened,
\* and by then the backup is another file and complete.
SafeInv ==
  /\ Phase = "in" => disk[cur] = orig
  /\ pc \in {"found", "backup", "copy", "rewind", "replace", "reopen", "write"}
       => found_flag
  /\ pc = "copy" => /\ bname # cur /\ bname.base = cur.base
                    /\ disk[bname] = Prefix(disk[cur], Len(disk[bname]))
  /\ (Guarded /\ (pc \in {"rewind", "replace", "reopen"} \/ Phase = "torn"))
       => bname # cur /\ bname.base = cur.base /\ disk[bname] = orig
  /\ TornHasBackup

\* Numbered backups never lose what a file held at the very beginning, over
\* any number of runs, killed or not, and even if backups are processed
\* themselves: it is in the file or in one of the backups derived from it.
FirstContentKept ==
  opts.backup = "numbered" =>
    \A f \in DOMAIN initial :
      \E n \in Names : n.base = f.base /\ disk[n] = initial[f]

\* The failures the code does not look at: writes to the temporary file and
\* the last fclose, and a directory that find_backup_file_name cannot list.
Silent == {"tmpfull", "flush", "listdir"}

\* If every failure is one that the code looks at, the exit status is 1
\* exactly when one happened.  (A failed read may abort the program.)
ExitReportsError ==
  (faulted \cap Silent = {} /\ status \in {"ok", "failed"})
     => (status = "failed" <=> faulted # {})

\* No path through process_file leaves a stream open.
NoStreamLeft == pc \in {"idle", "ended"} => streams = {}

\* process_file returns SUCCESS for a file with a match only if the file has
\* its whole replaced content on the disk.
SuccessMeansReplaced ==
  [][(pc = "close" /\ found_flag /\ pc' = "idle" /\ orig # <<>>
        /\ faulted' \cap Silent = {}) => disk'[cur] = Replaced(orig)]_vars

\* Without --binary a file with a null character is left alone, also if the
\* pattern matches before the null character.
BinaryUntouched ==
  [][(~opts.binary /\ disk'[cur] # disk[cur] /\ orig # <<>>)
       => \A i \in DOMAIN orig : orig[i] \notin NulLines]_vars

\* What a caller may rely on: a file is read, then saved, then rewritten.
SR == INSTANCE SafeRewrite WITH phase <- Phase, guarded <- Guarded
ImplementsSafeRewrite == SR!Spec

\* Every run ends, whatever fails.
EveryRunEnds == status = "running" ~> status # "running"

\* doc/rrep.texi of --dry-run: "No file is actually modified."
DryRunReadsOnly == opts.dry => disk = initial

\* doc/rrep.texi: "Exit status is 1 if any error occurs, 0 otherwise."
ExitStatusAsDocumented ==
  pc = "ended" /\ status # "killed" =>
    status = IF faulted = {} THEN "ok" ELSE "failed"
=============================================================================
