# A TLA+ verification of rrep

rrep searches files for a pattern and replaces it in place.  It is a small
sequential C program, yet it does what is hard to get right and hard to test:
it truncates the user's files and writes them again, keeps its place in a
shared buffer in static variables, and calls a few dozen functions that may
fail, at any time, in the middle of it.  This directory holds models of its
parts (TLA+), small instances on which TLC checks them, and proofs of the most
important properties for all instances (TLAPS).

## Inventory

| part | state | operations | what makes it correct |
|---|---|---|---|
| line reader, `bufferio.c` | `buffer`, `buffer_size`, the static `start`, `search_pos`, `buffer_fill`, `null_replace`, the stream | `read_line` | inside the buffer; every byte once and in order; ends |
| file rewriting, `process_file`, `backup_file`, `replace_string` in `rrep.c` | the file, its backup, the temporary file or `file_buffer`, `found_flag`, the open streams | scan, prompt, backup, replace, reopen, copy back | no content is lost, whatever fails and whenever the process dies; a file is rewritten as a whole; every failure is reported |
| directory walk, `process_dir`, `process_file_list` in `rrep.c` | the working directory, the open directory streams, the path so far, saved file times, `failure_flag` | recursion, file list, name checks | every selected file exactly once, with the working directory it belongs to; times restored |
| line replacement, `replace_string`, `write_replacement`, `match_pattern`, `check_whole` | position in the line, `last_empty_flag`, match offsets | the loop over the matches of a line | each match replaced once, no character lost, ends |
| parsing, `pattern.c` | the parts of the replacement, their lengths and indices | `parse_pattern`, `parse_replace` | the parts denote the replacement text; nothing is written outside them |
| command line, `main` | the options, the pattern, the replacement, the suffix, the file list | the switch over the options, defaults, operands, exit status | the outcome depends on what is given, not on the order |
| messages, `messages.c` | none | `prompt_user`, error texts | |
| backups (gnulib, vendored): `backupfile.c`, `backup-find.c`, `copy-file.c` | the directory's backups | `find_backup_file_name`, `copy_file_preserving` | a new number for a new backup; a complete copy or the end of the program |
| option scanning (gnulib), `getopt.c` | `argv`, which it reorders, and its place in it | `getopt_long`, `exchange` | every option once and in order, the operands in order behind them |
| name filters (gnulib), `exclude.c`, with `check_name` | a list of segments of patterns | `add_exclude`, `excluded_file_name` | an entry qualifies whatever the order of the filters |
| regex, fnmatch, yesno (gnulib) | | `regexec`, `fnmatch`, `yesno` | |

Everything runs in one thread of one process.  The parts interact by calls:
`main` parses and calls `process_file_list`, which calls `process_file` and
`process_dir` (which recurses and calls `process_file`); `process_file` reads
through `read_line` twice, with `replace_string` the second time, and calls
`backup_file`.  They share state in three places: the line buffer with its
static position (used by every file, and by the copy from the temporary file),
the working directory of the process, and the `failure_flag`s that are or-ed on
the way up to the exit status.

What is hard: a failure of any call in the middle of a file; a kill between the
truncation and the last flush; runs that follow such a kill, on a disk with
partial backups; the static position that outlives a file; results that come
late (`fclose` writes what `fwrite` accepted); a working directory that is global;
matches of length zero and matches that `-w` and `-x` refuse, one after the other in one
line; three sweeps over one string that do not split it by the same rule; an `argv` that
is reordered while it is read.

## Modules

| module | models | theorems in |
|---|---|---|
| `LineStream` | the promise of `read_line`: a file handed out line by line | |
| `ReadLine` | `read_line` with its buffer, step by step; implements `LineStream` | `ReadLineProofs` |
| `SafeRewrite` | the promise of `process_file` about the disk | |
| `ProcessFile` | `process_file`, its callees and its calls over several runs; implements `SafeRewrite` | `ProcessFileProofs` |
| `NumberedBackup` | the version of the next backup, computed on strings of digits | `NumberedBackupProofs` |
| `DirWalk` | `process_file_list` and the recursion of `process_dir` | `DirWalkProofs` |
| `Substitution` | the promise of replacing in a line, and what a replacement string means | |
| `ParseStrings` | `parse_pattern` and `parse_replace` | `ParseStringsProofs` |
| `LineReplace` | `replace_string`, `write_replacement`, `match_pattern`, `check_whole` for one line, on top of `ParseStrings`; implements `Substitution` | `LineReplaceProofs` |
| `GetOpt` | `getopt_long` | `CommandLineProofs` |
| `Exclude` | the name filters | `CommandLineProofs` |
| `CommandLine` | `main` up to the call that processes files or standard input, on top of `GetOpt` and `Exclude` | `CommandLineProofs` |
| `SequenceLemmas` | lemmas on sequences, and induction over them | all of it |
| `MCReadLine`, `MCProcessFile`, `MCDirWalk`, `MCLineReplace`, `MCCommandLine` | the instances for TLC | |

The modules meet where the functions call each other.  `ProcessFile` uses what
`ReadLine` shows, that a file is a sequence of lines, and what `LineReplace` shows,
that a line has one form after replacement and that a line without a match keeps its own
(`Subst`, `LineAssumption`).  `NumberedBackup` shows what `ProcessFile` takes for granted
of a version, that it is one above the largest.  `DirWalk` uses of `ProcessFile` that a call
processes one file, or fails, and of `Exclude` that whether a name qualifies depends on
the name (`ArgsIn` and the accepted names).  `CommandLine` ends in one of the
combinations of options with which `ProcessFile` begins.

### ReadLine

The variables are the globals and static variables of the function under their
own names, the stream (`file`, `fpos`, `eof`) and the history `taken`, `text`.
The indices are natural numbers; that their unsigned differences never wrap is
part of `InBounds`.

| code in `bufferio.c` | definition |
|---|---|
| `*line == NULL`: first call for a file | `FirstCall` |
| `buffer_fill == search_pos` and `feof` | `EndReached` |
| the next line | `NextCall` |
| the search loop, one position | `Advance` |
| end of the buffer, the line does not start at 0 | `Slide` |
| end of the buffer, the line fills it: `realloc` | `Grow` |
| terminator put in, `SUCCESS` | `Return` |

A short `fread` sets `eof`, or is an error (`FreadError`, which closes the
stream).  The caller may start another file at any time between calls
(`OpenFile`), because `process_file` gives up files early.  Between two files it may
copy a temporary file back through the same buffer (`CopyBack`).

### ProcessFile

`pc` is where `process_file` stands: `scan` (search), `again` (the second
`fclose` after a failed read), `found` (dry run, prompt), `backup`, `copy`,
`rewind`, `replace`, `reopen`, `write`, `close`, `idle` between calls, `ended`
after the run.  One action is one call of a library function or one turn of a
loop, with its error path as a disjunct or an action of its own; `Crash` may
happen in between.  A file is a sequence of lines, and a line is what the code
tells apart: matching or not, with a null character or not, and its replaced form.

- A failed operation is a *fault* from the constant `Faults`; at most
  `MaxFaults` kinds happen in a run.  `tmpfull` and `flush` are the two
  failures the code does not look at (writes to the temporary file, the last
  `fclose`), `listdir` the one that the vendored library hides.
- After `freopen` the disk holds what the C library has flushed: any part of
  what was written (`FlushUpTo`), in whole lines.
- The loop that copies the temporary file back ends on `feof` of that file, which only a
  short read sets: `tmp_eof`, `ReadTmp`, `Pending`.
- `Crash` is the end of the process, not of the machine: what has been passed to the
  operating system stays.
- The temporary file or the memory is a free choice (`Rewind`), as `tmpfile`
  may fail.
- An empty file is delivered as one arbitrary line (`Views`), which is what
  `read_line` does with it; the properties about the content of a rewritten
  file leave out empty files (`orig # <<>>`), and the run `empty_file` is about them.
- The backup functions of gnulib are modelled, although vendored, as the
  safety of the files depends on them: the choice of the name
  (`BackupNames`), the copy in steps (`CopyBackup`), the end of the program if
  the copy fails (`OpenBackup`, `CopyBackup`).

### DirWalk

A path is a sequence of names.  Every active call of `process_dir` is a frame
on `stack` with its locals, so that the recursion of the code is the state of
the module.  The working directory is one variable, `cwd`, as in the process,
and every name is looked up in it: after a missing `chdir("..")` the module
handles the wrong files, as the program does.  The times of a file or
directory are either its own (the value is its path) or `Now`; that a path is its time
shows when one gets the times of another.

| code in `rrep.c` | definition |
|---|---|
| `lstat` or `chdir` of an argument fails; it is not selected | `ArgFails`; `ArgSkipped` |
| an argument that is a file; a directory | `ListFile`; `ListDir` |
| `fchdir`, `utime` after `process_dir` | `BackToList`, `BackToListFails` |
| `opendir`, `readdir` | `OpenDir`, `OpenDirFails`, `Delivers` |
| a file entry, between `lstat` and `utime` | `WalkFile` |
| an entry that is not selected or has no type | `WalkSkip` |
| `chdir`, `malloc`, the recursive call | `Descend`, `DescendFails`, `NoPath` |
| end of the loop | `EndDir` |
| back from the recursive call, `chdir("..")`, `utime` | `UpDir`, `UpDirFails` |

`readdir` delivers the entries in any order.  Name patterns are sets of
accepted names.  `FdLimit` bounds the open streams: `process_dir` never closes
one, and `process_file` needs one for its file.  The tree does not
change during the walk; backups that appear in it and are delivered by
`readdir` are a matter of `ProcessFile`, where any existing file, a backup
too, may be processed next; so `Ends` says nothing of a walk that goes on because of the
backups it makes.

### ParseStrings and LineReplace

An input of `ParseStrings` is a replacement string, character by character, as
the property is about what each character does; of the pattern only matters whether it is
empty and whether it compiles.  `pc` goes through `pattern`, `string` (the copy), `count`,
`arrays`, `measure` and `extract`, the three sweeps with the allocations in between, to
`parsed`, `failed`, or `undefined`: a sweep that leaves its array has no defined successor.
A part is a block of memory with the size it was allocated with (`Junk` before it is
written), because the second sweep decides sizes and the third writes by another rule.

`LineReplace` continues when the strings are parsed.  What `regexec` or `strstr` would find
from each position of the line is part of the input (`found`), so that the module is
about every pattern; `regexec` is given the rest of a line only, hence a function of the
position.  The offsets in `match` are relative to where a search started until they are
corrected, as in the code.

| code | definition |
|---|---|
| `parse_replace`, first sweep | `CountOne`, `UnknownEscape`, `CountEnds` |
| the arrays | `AllocArrays` |
| second sweep | `MeasureOne`, `MeasurePart`, `MeasureBeyond` |
| third sweep | `ExtractChar`, `ExtractReference`, `ExtractEnds` |
| `match_pattern`, one turn of its loop | `MatchWhole`, `MatchPart`, `MatchNone`, `MatchFails` |
| `replace_string`, the loop over the matches | `WritePrefix`, `WriteReplacement`, `SkipReplacement`, `Advance` |
| its two `break`s | `StopBehindNewline`; `break_flag` |
| the rest of the line | `Flush` |
| `realloc` of `file_buffer` fails | `WriteFails` |

`Substitution` has no parts, offsets or restarts: a line is gone through from left to right, every
character is copied or is part of one replaced match, the text written for a match
is what the string means (`Meaning`), and an empty match is not replaced where the
last one ended.

### GetOpt, Exclude and CommandLine

An element of `argv` is a sequence of pieces, a letter or a part of a name, cut where
an abbreviation of an option can end.  `gpc` is where `getopt_long` stands; one turn of the loop of
`exchange` is an action (`Exchange`), so that `argv` is seen between them.  `GetOpt` has
what rrep uses of the library: `RETURN_IN_ORDER`, `getopt_long_only` and `W;` are left out.

`Exclude` has the list of segments as a sequence, the newest first.  `fnmatch` and what counts as
a wildcard are parameters.  Backslashes in the patterns are not modelled.

`CommandLine` is `main`: `Switch` is its `switch`, `Usage`, `Information`,
`ChooseBackups`, `TakeOperand` and `Dispatch` are what follows.  Its tables of options and words are
those of the program, cut into pieces.

## Runs

| run | bounds | question |
|---|---|---|
| `read_line` | files of 1 to 4 bytes over a letter, newline and NUL, first buffer of 2 bytes, two files read, chunks copied back between them, faults in `fread` and `realloc` | indices, every byte once, end |
| `process_file` | one file of up to two lines, all 5 backup settings and 16 combinations of the other options, one kind of fault out of eleven, two calls | disk, exit status, streams, end |
| `process_reruns` | numbered backups, two runs of two calls, two kinds of fault (a kill is one), backups processed too, also one the first call has made, a replacement that matches again; versions to the base 2 | no content is ever lost; a new version is above all others |
| `dir_walk` | all trees of depth 2 over two names, and an excluded name; three argument lists, six streams, one kind of fault out of ten | working directory, exactly once, failures, times, end |
| `empty_file` | a second file that is empty | violated, see Findings |
| `replace` | all replacement strings of up to 4 of `&`, a backslash, `n`, `1`, `x`; lines of up to 2 characters and what ends them, with every function `found` for C strings of up to 2 characters and, for 3, those of patterns without context operators; `-F` with patterns of 1 and 2 characters, `-w`, `-x`; every failing call | memory, text, each match once, end |
| `command_line` | up to 3 of 14 elements, the empty one among them, up to 5 operands and options of two kinds, up to 3 of 6 filters; both orders, two environments | order, outcome, names, end |
| `dry_quiet`, `exit_status`, `empty_suffix` | one line, one call | violated |
| `parts` | one escape sequence | violated |
| `many_dirs` | trees of depth 2, three streams, no faults | violated |

Why the bounds are enough.  `read_line`: with two bytes of buffer, lines of
two bytes already grow it, and shorter ones slide it; four bytes hold a grown
line followed by a slid one and the reverse, and a second file meets whatever
the first left in the static variables, wherever it was given up.
`process_file`: two lines are the least with a beginning, an end and a partial write
between; a second call meets what the first left (flags, streams, backups).
`process_reruns`: a kill, a run over its remains, and in each of them a call
for a backup that the first call has made; three versions, one more than the
runs, and a file that would get a fourth is not processed further.  `dir_walk`: in the starting
directory two siblings with their own entries and the same names at both
levels, so that a lookup in a wrong directory finds something; six streams
are fewer than the directories of the largest trees.  `replace`: with four
characters each sweep meets an escape before, between and after references, and an
escaped backslash before a digit; two characters and a newline are enough for a match behind a
refused one, behind a replaced one and behind one of length zero.  `command_line`: with five
elements `exchange` meets segments of every two lengths, and a second exchange for
one command line; three filters are two segments and a return to the first kind.  To the base 2 the versions 1 to 4
have all nines (1, 11), a carry and a digit more.

What holds, in words:

- `InBounds`, `ImplementsLineStream`, `AlwaysEnds`: whatever mixture of slides,
  growth and failures, `read_line` stays in its buffer, delivers each byte of
  a file that is not empty exactly once, and comes to the end.
- `TornHasBackup`, `ImplementsSafeRewrite`: a file keeps its content until the
  rewriting starts, and with `--backup` a complete copy exists from then on,
  whatever fails and even if the process dies.  Without `--backup` a kill
  during the copy back loses content; this is how the program is built.
- `FirstContentKept`: numbered backups keep the first content over any sequence of runs.
- `ExitReportsError`: apart from the failures nobody looks at, the exit
  status is 1 exactly if something failed.
- `NoStreamLeft`, `SuccessMeansReplaced`, `BinaryUntouched`, `EveryRunEnds`:
  what their names say.
- `InPlace`, `SuccessMeansAllVisited`, `NeverTooOften`, `FailuresReach`,
  `TimesKept`, `Ends`: the walk is in the directory whose names it handles; it
  processes each selected file as often as the arguments select it or reports a
  failure; with `--keep-times` it leaves the times alone.  `InPlace` and
  `NeverTooOften` do not hold, and are not claimed, after a failure of `malloc` or of
  `chdir("..")` (`Stranding`), which leave the process in a wrong directory.

- `NextIsAboveAll`: in whatever order a directory is listed, the next version is
  one above the largest.
- `WritesInParts`, `UndefinedExactly`, `TextsMeanString`, `RejectsMeaningless`:
  although the second sweep of `parse_replace` measures by another rule than the third,
  the third writes only where memory was allocated, except for the strings in which an
  escaped `&`, or an escaped backslash before a digit, is taken for a reference; for these
  the arrays are left and nothing is defined.  For all others the text of the parts up to their
  terminators is right, and their lengths are too large by one for each simple escape.
- `ImplementsSubstitution`, `NoneMissed`, `Ends`: a line is replaced once through, with
  every match that could be replaced, or an overlapping one, and the loop ends.
- `ScansInOrder`, `OutcomeRight`, `NamesQualify`, `Decides`: the meaning of a command line
  can be read off it element by element (`Scan`), which is what the reordering delivers, and the
  order of options and filters does not matter where the manual does not say it does.

Every property has a mutant, an operator beside the action it changes, with
which TLC finds the property violated.

### Fairness

The program is one thread that never waits for anything but its user, so the
fair specifications assume weak fairness of its own steps, and nothing of
faults, kills or reruns.  In `LineReplace` and `CommandLine` it is the steps in which no
call fails that are fair (`Works`), so that the end does not rest on a failure.  At a prompt the user answers, or standard input ends, which counts as no.
Calls are bounded, so `EveryRunEnds` does not assume that callers stop.

Deadlock is not checked: each system stops when its run has ended.

## Findings

| run | the code | what it contradicts |
|---|---|---|
| `empty_file` | `read_line` returns for an empty file a line of one byte, whatever is in front of the buffer: of an earlier file, or memory never written | the comment at `bufferio.c:40` |
| `dry_quiet` | `--dry-run --quiet` modifies files | `doc/rrep.texi:203` |
| `exit_status` | the result of the last `fclose` (and of writes to the temporary file) is ignored | `doc/rrep.texi:266` |
| `many_dirs` | directory streams are never closed, so that a wide tree cannot be processed completely | the comment at `rrep.c:479` |
| `parts` | the parts of a replacement with an escape are longer than their text, so that bytes are written that are not in it (NULs for two escapes in a row) | the comment at `pattern.c:248` |
| `empty_suffix` | an empty suffix makes a file its own simple backup, which truncates it | `doc/rrep.texi:171` |

Disagreements that are part of the models.  The runs named take them as they are in the
code, so that what these show is relative to them (the last one is assumed away), and no run
shows the disagreement itself:

- `--replace-with` is declared without an argument (`rrep.c:77`): `--replace-with=x` is
  refused, and in `rrep --replace-with bar foo` the option counts as absent, so that `bar` is
  the pattern (`doc/rrep.texi:228`).  `command_line`: `OutcomeRight` compares with the
  tables of the program (`long_options`).
- Files and directories named on the command line are filtered too (`rrep.c:645`,
  `rrep.c:680`), which `doc/rrep.texi:134-152` excludes.  `dir_walk`:
  `SuccessMeansAllVisited` and `NeverTooOften` count the arguments that pass (`ArgsIn`).
- After a read error a stream is closed twice (`bufferio.c:68`, `rrep.c:346`), which is undefined:
  the C library may abort the program, against `doc/rrep.texi:266`.  `process_file`:
  `ExitReportsError` allows for the abort (`CloseAgain`).  With `Faults = {"read"}` in
  `MCExitStatus.cfg` TLC ends in it.
- `-x` refuses a match in a last line without a newline, and one that includes its
  newline.  `replace`: the acceptance of a match is that of `CheckWhole`.
- Where a name is too long for the extension of its backup the library shortens it
  (`backupfile.c:161`), so that two files, or a file and its own backup, may share a name.

## Proofs

The theorems hold for every value of the constants that satisfies the named
`ASSUME`s of the modules.

**read_line** (`ReadLineProofs`).  `InBounds` is not inductive: that the
terminator fits follows from how the buffer was filled.  `IInv` adds `Window`
(the buffer is a window of the file, except for the byte under the
terminator), `LineBegun` (the line starts at the first byte not handed out, and
no delimiter was passed over) and `Filled` (before the end of the file the
buffer is full).  `ReadLineInv` proves it inductive; `ReadLineInBounds` and `ReadLineRefines` follow.
The refinement assumes that no file is empty; the run `empty_file` shows that this is needed.
`ReadLineTypeCorrect` is a part of `IInv`.

**process_file** (`ProcessFileProofs`).  `TypeCorrect` also bounds which names come to
exist.  `SafeInv` says that the file is intact until `reopen`, that a copy in progress
is a prefix of the file under another name, and that it is complete from `rewind`
on; `TornHasBackupAlways` and `ProcessFileRefines` (every step maps to a step of
`SafeRewrite` or a stutter, with `Phase` for its phase) follow.
`FirstContentAlwaysKept` has an invariant of its own (`KeptInv`): the first content is
under some name of the family, and that name is neither the file while it is torn nor the
backup while it is being copied.  It assumes that directories can be listed: otherwise version 1 is
used again, see the hazards.

`ExitAlwaysReports` needs `Reported`: during the run `failure_flag` says whether something
failed, but for the one step between a failed read and the second `fclose` (`again`).
`SuccessAlwaysMeansReplaced` needs `OutInv`, the output line by line from the first replaced line to
the last write, and `BinaryAlwaysUntouched` needs `Looked`: beyond the search every line has been
looked at.  `NoStreamLeftOpen` is inductive as it stands.  Where a backup is in play, that is in
`TornHasBackupAlways`, `ProcessFileRefines`, `FirstContentAlwaysKept` and
`SuccessAlwaysMeansReplaced`, the suffix of simple backups is assumed not to be empty; the run
`empty_suffix` shows that this is needed.

**The walk** (`DirWalkProofs`).  `WalkTypeCorrect`, and `WalkInPlace`: `InPlace`
alone is not inductive, as after `chdir("..")` one must know where the process was.
`Placed` says that the frames form a path (`Sound`: each reads
the directory its caller recursed into) and that the working directory is that of the
top frame in its loop, and one level below it when a call begins or returns.  It holds
as long as no call returned from a directory without going up.

The other theorems rest on what the calls on `stack` will still do.  `FInv`: a fault is noted in
`failure_flag`, in a frame, or in the value about to be returned.  `CInv`: a file has been
processed as often as the arguments done select it (`Before`), and once more if the walk of the
present one has passed it, that is, if no frame has the way to it `left` (`Pending`); up to a
stranding no more often (`NeverMoreOften`), and without a failure exactly so
(`SuccessVisitsAll`).  `TInv` ties this to the argument: the frames lead from it down to the
working directory.  `KInv`: the only times that are not their own are those of the directories being
read, and the caller of each has its own saved (`TimesAlwaysKept`).  They need that the parent of
whatever exists is a directory (`TreeAssumption`).

**The parser** (`ParseStringsProofs`).  The theorems are about `ParseSpec`, for strings of any
length, and `LineParses` carries them over to `LineReplace`.  `ParseInv` has what each sweep
has established: the first counts the references behind it and stands at the boundary of a
character or escape; the second stands in the part whose number is that of the splitters behind it, and each
block has the size from one splitter to the next; the third stands at a boundary, and for a
string without a split escape its part is the second's (`WritesStayInParts`).  That the sweeps agree
outside `Oversplit` is a fact about counting the splitters up to a position (`Count`).
`TextInv` adds what the blocks hold: up to the write position, the characters and references say
the meaning of what is behind (`PartsTellMeaning`), and the second sweep's length is larger by
the simple escapes in the part.

**A line** (`LineReplaceProofs`).  `LInv` has where the line has been gone through up to, that the search
goes on behind it, and to what `match` is relative: the rest of the line before `Corrected`,
`start` afterwards.  With it every step maps to a step of `Substitution` or a stutter
(`LineIsSubstitution`).  The theorem assumes `SimpleEscapesUnused`: where a simple escape is in a
string that is used, more is written than the string means, which is the finding of the run `parts`.
TLC evaluates the assumption for the inputs of the run `replace` (`NoneWithSimpleEscapes`).  `NoneIsMissed` needs
`MInv`: what is found before the place where the search goes on is replaced, refused or
overlapped (`HandledTo`); a match that is empty may touch the end of a replaced one.

**Versions** (`NumberedBackupProofs`).  By induction over the digits: comparing two versions
without leading zeros by length and then digit by digit compares their numbers (`SupersedesIs`), and
incrementing one, with its carries and the digit that nines get in front, adds one
(`IncrementIs`).  By induction over the entries: the name that is built is one above the largest version
seen (`NextVersionAbove`), for any listing, of which `NextAlwaysAbove` is the case
of the backups of a file.  It assumes that a directory is finite.

**The command line** (`CommandLineProofs`).  `CommandLineTypeCorrect` holds for every table of
options and every command line.  `CommandLineScansInOrder` says what `getopt_long` promises: however
options, their arguments and operands are mixed, the options are delivered in order and the operands are left
in order behind them, although they are read in one pass that reorders `argv`.  It rests on two
invariants.  `GInv` orders the indices: the skipped operands (`first_nonopt` to `last_nonopt`) lie before the
options read since, these before `optind`, and in `exchange` the two segments that change places
shrink within them.  `SInv` says that what was delivered and skipped, followed by what is
to come (`ToCome`: what is left of a cluster, and the elements from `optind` on, which are where
they were), is the meaning of the command line as it was given.  Two arguments carry
it.  In the middle of `exchange` the skipped operands are scattered; `Origin` says
where the element comes from that will be at a place once the exchange is through, and one turn of the loop, which
swaps the elements as `Changed` says, leaves a shorter exchange with the same `Origin`: so
`Skipped`, which names the operands by where they will be, does not change, turn by turn.  A cluster
of letters means its first letter, then the rest of the cluster (`ShortMeaning`, taken apart letter by letter
while `nextchar` walks through it), whichever letter takes what is behind it as its argument.
`Scan`, the meaning, is a recursive function from the last element down; that such a
function exists for a command line of any length is `RecursionExists`.  Assumed
are of the tables that an option takes no, an optional or a required argument
(`ShortAssumption`, `LongAssumption`) and that the table is a list, of command lines that
they are lists of elements (`ArgAssumption`), and of the words of `--backup` and the environment
what `main` uses of them (`TypesAssumption`, `EnvironmentAssumption`).  For these theorems it does not matter
which options there are.

What `main` makes of them is `CommandLineOutcomeRight`: it ends as a reading of the
whole command line says (`OutcomeFor`).  It fails only for a mistake, an option given twice, or missing
words; it prints help or version only if no mistake forbids it; and if it goes on, it
does so with the pattern, replacement, files and kind of backups that were asked for.  `main` never sees the command line as a whole; it
gets one option at a time and keeps a few variables.  `WInv` says what these hold at each point:
a flag, that such an option is among those delivered; pattern and replacement, the argument of the
first option that gives one (a second one is refused); suffix and type of backups, that of the last;
a filter, the patterns given (`Arguments`).  It carries over when an option is
appended to those delivered, which is shown for each case of the `switch`.  `OInv` does the same for the operands:
pattern and replacement from `-e` and `-p`, then those taken from the operands,
the files taken and the operands left are together the words that
the command line means (`Combined`), so that a loop that takes one word at a time into whichever place is
still empty ends with the first two and the rest.  A program that went on where the command line says
it should stop would contradict one of the two.

`CommandLineNamesQualify` says the same of the filters: a name is accepted or
passed over as the patterns given say, for any number of patterns.  A filter is
a list of segments, each a table of names or an array of wildcards, and a new pattern goes into the first segment if
that has its type, else into a new one in front.  `Filter` says that each pattern given is in a
segment of its type and no other one is in any, so that what the segments say, taken from the
front, does not depend on how the patterns are spread over them (`FilterSays`).  These two
theorems assume in addition that the options whose argument `main` uses without a check require one in the tables
(`TablesAssumption`), which are those of `rrep.c:57`, and that names are
strings of characters (`NamesAssumption`).

`SequenceLemmas` has the induction these need (`NatInd`, `SeqInd`: a set of numbers or of sequences that
is closed is all of them, from the well-foundedness of the natural numbers), what
`FlattenSeq` of the community modules computes, and that functions defined by recursion from 0 on exist (`RecursionExists`), which the
definition of `Scan` takes for granted.

Every invariant and every action property of the runs that pass has a theorem.  Only
model-checked are the liveness properties (`AlwaysEnds`, `EveryRunEnds`, `Ends`, `Decides`), which are
out of the prover's reach.

## Not modelled

- The matching of regular expressions and of wildcards, and `yesno` (vendored
  libraries): parameters or free choices of the models.  They and the replacement headers and
  functions of gnulib are most of the lines in the repository, which is why the models stand for a small
  part of these: rrep itself is about 2,000 lines, and of its functions only those that
  print, and those that free memory, have no definition.
- Backslashes in the patterns of `--include` and its like; context operators (`\b`, `\<`),
  which see only the rest of a line after a match.
- What the bytes are that are written from behind a part's terminator, and anything after
  the arrays of the parts were left: undefined.
- Formatting of messages, translations, the build.
- Other processes that change files while rrep runs: it takes no locks and promises nothing.
- File times finer than a second, which `utime` cannot restore, and the modification
  time that a new backup gives the directory of a file named as an argument, which
  `--keep-times` does not restore: `DirWalk` has the times of what is processed.
- A power failure (order of writes to the disk): rrep never calls `fsync` and promises nothing.

## Plan

Nothing of the plan is left: the models are complete with respect to the inventory, and what the prover can
reach of their properties is proved.  Should the code change, the
place to begin is the `map` of `PROJECT.json`, which names the lines each definition stands for.
