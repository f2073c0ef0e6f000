------------------------------ MODULE DirWalk ------------------------------
(***************************************************************************)
(* process_file_list and process_dir of src/rrep.c: the arguments one by   *)
(* one, and below a directory its entries in the order readdir delivers    *)
(* them.  The recursion moves the working directory of the process down    *)
(* and up again, and every name is looked up in the working directory.     *)
(*                                                                         *)
(* A path is a sequence of names, relative to the directory the program    *)
(* was started in.                                                         *)
(***************************************************************************)
EXTENDS Naturals, Sequences, FiniteSets, SequencesExt

CONSTANTS
  Names,       \* names of files and directories
  Trees,       \* the file trees, records of a set of dirs and a set of files
  ArgLists,    \* the argument lists, sequences of paths
  FileNames,   \* names that check_name accepts for a file
  DirNames,    \* and for a directory, none without --recursive
  ArgsIn,      \* the arguments that check_include_name accepts
  FdLimit,     \* how many streams may be open at a time
  Faults,      \* what may go wrong in the environment
  MaxFaults,   \* bound: how many of the faults happen in a behaviour
  Now          \* a time that no file has at first, see TypeOK

\* What is in a directory has that directory above it.
ASSUME TreeAssumption ==
  \A t \in Trees : /\ t.dirs \cup t.files \subseteq Seq(Names)
                   /\ t.dirs \cap t.files = {}
                   /\ \A n \in t.dirs \cup t.files : \A k \in 1..Len(n) - 1 :
                        SubSeq(n, 1, k) \in t.dirs
                   /\ Now \notin t.dirs \cup t.files
ASSUME WalkAssumption ==
  /\ ArgLists \subseteq Seq(Seq(Names))
  /\ Names # {} /\ FdLimit \in Nat /\ MaxFaults \in Nat

VARIABLES
  tree,          \* the files and directories that exist
  args,          \* file_list
  keep,          \* whether --keep-times is given
  omit_dir_flag, \* the working directory could not be opened
  time,          \* access and modification time of each file and directory
  cwd,           \* the working directory
  stack,         \* the calls of process_dir that are active, a frame for each
  pc,            \* "list", "open" (process_dir called), "dir" (in its loop),
                 \* "return" (process_dir returns), "done"
  arg,           \* which argument is next or being walked
  relative_path, \* argument of the call of process_dir that opens
  ret,           \* whether the call of process_dir that returns has failed
  failure_flag,  \* of process_file_list
  saved,         \* the times process_file_list has saved
  streams,       \* how many directory streams are open
  count,         \* history: calls of process_file for each file
  faulted        \* history: the faults that happened

fixed == <<tree, args, keep, omit_dir_flag>>
walk == <<cwd, stack, pc, relative_path, ret, streams>>
list == <<arg, failure_flag, saved>>
vars == <<fixed, walk, list, time, count, faulted>>

Nodes == tree.dirs \cup tree.files
Entries(d) == {n \in Names : Append(d, n) \in Nodes}

\* Locals of process_dir: its relative_path, the directory it reads, the entries
\* that readdir has not delivered, failure_flag, the entry it has recursed into
\* (any at first) and the times saved for that, {} if they are not.
Times == SUBSET (Nodes \cup {Now})
Frames == [path : Seq(Names), dir : Seq(Names), left : SUBSET Names,
           failed : BOOLEAN, entry : Names, saved : Times]

Top == Last(stack)
SetTop(f) == stack' = Append(Front(stack), f)

\* The faults in S happen.
Strikes(S) ==
  /\ S \subseteq Faults
  /\ Cardinality(faulted \cup S) <= MaxFaults
  /\ faulted' = faulted \cup S

FreeStream == streams < FdLimit

\* Of the faults that concern saved times only those that can happen.
IfKept(S) == IF keep THEN S ELSE {}

Init ==
  /\ tree \in Trees /\ args \in ArgLists /\ keep \in BOOLEAN
  /\ omit_dir_flag \in BOOLEAN
  /\ omit_dir_flag => "savedir" \in Faults /\ MaxFaults > 0
  /\ faulted = IF omit_dir_flag THEN {"savedir"} ELSE {}
  /\ failure_flag = omit_dir_flag
  /\ time = [n \in Nodes |-> n]
  /\ cwd = <<>> /\ stack = <<>> /\ pc = "list" /\ arg = 1
  /\ relative_path = <<>> /\ ret = FALSE /\ saved = {} /\ streams = 0
  /\ count = [f \in tree.files |-> 0]

-----------------------------------------------------------------------------
(* process_file for the file p, between saving and restoring its times.  It *)
(* needs a stream, and cannot open what is not there.  The backup it makes  *)
(* is left out, also that it touches the directory of p.                    *)

HandleFile(p, S, failed) ==
  LET opened == p \in tree.files /\ FreeStream IN
  /\ Strikes(S)
  /\ failed = (S # {} \/ ~opened)
  /\ count' = IF opened THEN [count EXCEPT ![p] = @ + 1] ELSE count
  /\ time' = IF opened /\ ~(keep /\ S \subseteq {"file"})
             THEN [time EXCEPT ![p] = Now] ELSE time

\* utime for p with the times in t, if there are any.
Restore(p, t, failed) ==
  \/ t = {} /\ failed = FALSE /\ UNCHANGED time /\ Strikes({})
  \/ /\ p \in Nodes
     /\ \E s \in t : time' = [time EXCEPT ![p] = s]
     /\ failed = FALSE /\ Strikes({})
  \/ /\ t # {} /\ failed = TRUE
     /\ Strikes(IF p \in Nodes THEN {"utime"} ELSE {})
     /\ UNCHANGED time

-----------------------------------------------------------------------------
(* process_file_list                                                        *)

Arg == args[arg]
Listing == pc = "list" /\ arg <= Len(args)

\* Goes on with the next argument.
NextArg(failed) ==
  /\ arg' = arg + 1
  /\ failure_flag' = (failure_flag \/ failed)

\* lstat fails, or chdir does.
ArgFails ==
  /\ Listing
  /\ \/ Arg \notin Nodes /\ Strikes({})
     \/ Strikes({"lstat"})
     \/ Arg \in tree.dirs \cap ArgsIn /\ ~omit_dir_flag /\ Strikes({"chdir"})
  /\ NextArg(TRUE)
  /\ UNCHANGED <<fixed, walk, saved, time, count>>

\* Without a failure: not included, or a directory with no way back from it.
ArgSkipped ==
  /\ Listing /\ Arg \in Nodes
  /\ Arg \notin ArgsIn \/ (Arg \in tree.dirs /\ omit_dir_flag)
  /\ Strikes({}) /\ NextArg(FALSE)
  /\ UNCHANGED <<fixed, walk, saved, time, count>>

ListFile ==
  /\ Listing /\ Arg \in tree.files \cap ArgsIn
  /\ \E S \in SUBSET ({"file"} \cup IfKept({"utime"})), failed \in BOOLEAN :
       HandleFile(Arg, S, failed) /\ NextArg(failed)
  /\ UNCHANGED <<fixed, walk, saved>>

\* chdir; process_dir is called.
ListDir ==
  /\ Listing /\ Arg \in tree.dirs \cap ArgsIn /\ ~omit_dir_flag
  /\ Strikes({})
  /\ cwd' = Arg /\ relative_path' = Arg /\ saved' = IfKept({time[Arg]})
  /\ pc' = "open"
  /\ UNCHANGED <<fixed, stack, ret, streams, arg, failure_flag, time, count>>

\* process_dir has returned: fchdir to where the program started, utime.
BackToList ==
  /\ pc = "return" /\ stack = <<>>
  /\ cwd' = <<>> /\ pc' = "list"
  /\ \E failed \in BOOLEAN : Restore(Arg, saved, failed) /\ NextArg(ret \/ failed)
  /\ UNCHANGED <<fixed, stack, relative_path, ret, streams, saved, count>>

BackToListFails ==
  /\ pc = "return" /\ stack = <<>>
  /\ Strikes({"fchdir"})
  /\ failure_flag' = TRUE /\ pc' = "done"
  /\ UNCHANGED <<fixed, cwd, stack, relative_path, ret, streams, arg, saved, time, count>>

Finish ==
  /\ pc = "list" /\ arg > Len(args)
  /\ pc' = "done"
  /\ UNCHANGED <<fixed, cwd, stack, relative_path, ret, streams, list, time, count, faulted>>

-----------------------------------------------------------------------------
(* process_dir                                                              *)

\* Mutant: does not look at the result of opendir.
OpenDirUnchecked ==
  /\ pc = "open"
  /\ Strikes({})
  /\ streams' = streams + 1
  /\ stack' = Append(stack, [path |-> relative_path, dir |-> cwd,
                             left |-> Entries(cwd), failed |-> FALSE,
                             entry |-> CHOOSE n \in Names : TRUE, saved |-> {}])
  /\ time' = [time EXCEPT ![cwd] = Now]
  /\ pc' = "dir"
  /\ UNCHANGED <<fixed, cwd, relative_path, ret, list, count>>

\* opendir(".").  What happens in a directory changes its times.
OpenDir ==
  /\ pc = "open" /\ FreeStream
  /\ Strikes({})
  /\ streams' = streams + 1
  /\ stack' = Append(stack, [path |-> relative_path, dir |-> cwd,
                             left |-> Entries(cwd), failed |-> FALSE,
                             entry |-> CHOOSE n \in Names : TRUE, saved |-> {}])
  /\ time' = [time EXCEPT ![cwd] = Now]
  /\ pc' = "dir"
  /\ UNCHANGED <<fixed, cwd, relative_path, ret, list, count>>

OpenDirFails ==
  /\ pc = "open"
  /\ Strikes(IF FreeStream THEN {"opendir"} ELSE {})
  /\ ret' = TRUE /\ pc' = "return"
  /\ UNCHANGED <<fixed, cwd, stack, relative_path, streams, list, time, count>>

\* readdir delivers the entry e.  The type is in the entry, whatever the working
\* directory has under this name.
Delivers(e, nodes) ==
  /\ pc = "dir" /\ e \in Top.left /\ Append(Top.dir, e) \in nodes

\* e is dealt with, and the loop goes on.
Consumed(e, failed) ==
  SetTop([Top EXCEPT !.left = @ \ {e}, !.failed = @ \/ failed])

WalkFile(e) ==
  /\ Delivers(e, tree.files) /\ e \in FileNames
  /\ \E S \in SUBSET ({"file"} \cup IfKept({"lstat", "utime"})), failed \in BOOLEAN :
       HandleFile(Append(cwd, e), S, failed) /\ Consumed(e, failed)
  /\ UNCHANGED <<fixed, cwd, pc, relative_path, ret, streams, list>>

\* Mutant: goes on without reading the next entry.
WalkSkipNothing(e) ==
  /\ Delivers(e, Nodes)
  /\ ~(Delivers(e, tree.files) /\ e \in FileNames)
  /\ ~(Delivers(e, tree.dirs) /\ e \in DirNames)
  /\ UNCHANGED vars

\* Not selected, or of DT_UNKNOWN in a file system that does not tell types.
WalkSkip(e) ==
  /\ Delivers(e, Nodes)
  /\ \/ /\ ~(Delivers(e, tree.files) /\ e \in FileNames)
        /\ ~(Delivers(e, tree.dirs) /\ e \in DirNames)
        /\ Strikes({})
     \/ Strikes({"unknown"})
  /\ Consumed(e, FALSE)
  /\ UNCHANGED <<fixed, cwd, pc, relative_path, ret, streams, list, time, count>>

\* Into a directory: lstat, chdir, and process_dir is called.
Descend(e) ==
  LET there == Append(cwd, e) IN
  /\ Delivers(e, tree.dirs) /\ e \in DirNames /\ there \in tree.dirs
  /\ \E S \in SUBSET IfKept({"lstat"}) :
       /\ Strikes(S)
       /\ SetTop([Top EXCEPT !.left = @ \ {e}, !.failed = @ \/ S # {}, !.entry = e,
                             !.saved = IF S = {} THEN IfKept({time[there]}) ELSE {}])
  /\ cwd' = there /\ relative_path' = Append(Top.path, e)
  /\ pc' = "open"
  /\ UNCHANGED <<fixed, ret, streams, list, time, count>>

\* Mutant: does not look at the result of chdir.
DescendUnchecked(e) ==
  /\ Delivers(e, tree.dirs) /\ e \in DirNames
  /\ Strikes({"chdir"})
  /\ SetTop([Top EXCEPT !.left = @ \ {e}, !.failed = TRUE, !.entry = e, !.saved = {}])
  /\ relative_path' = Append(Top.path, e)
  /\ pc' = "open"
  /\ UNCHANGED <<fixed, cwd, ret, streams, list, time, count>>

DescendFails(e) ==
  /\ Delivers(e, tree.dirs) /\ e \in DirNames
  /\ Strikes(IF Append(cwd, e) \in tree.dirs THEN {"chdir"} ELSE {})
  /\ Consumed(e, TRUE)
  /\ UNCHANGED <<fixed, cwd, pc, relative_path, ret, streams, list, time, count>>

\* process_dir returns to its caller; the directory stream stays open.
ReturnFromDir(failed) ==
  stack' = Front(stack) /\ ret' = failed /\ pc' = "return"

\* chdir succeeded but malloc fails: returns from inside the directory e.
NoPath(e) ==
  /\ Delivers(e, tree.dirs) /\ e \in DirNames /\ Append(cwd, e) \in tree.dirs
  /\ Strikes({"malloc"})
  /\ cwd' = Append(cwd, e)
  /\ ReturnFromDir(TRUE)
  /\ UNCHANGED <<fixed, relative_path, streams, list, time, count>>

\* Mutant: forgets the failures in the directory.
EndDirSuccess ==
  /\ pc = "dir" /\ Top.left = {}
  /\ ReturnFromDir(FALSE)
  /\ UNCHANGED <<fixed, cwd, relative_path, streams, list, time, count, faulted>>

EndDir ==
  /\ pc = "dir" /\ Top.left = {}
  /\ ReturnFromDir(Top.failed)
  /\ UNCHANGED <<fixed, cwd, relative_path, streams, list, time, count, faulted>>

\* Mutant: does not go up.
UpDirStays ==
  /\ pc = "return" /\ stack # <<>>
  /\ pc' = "dir"
  /\ Strikes({})
  /\ SetTop([Top EXCEPT !.failed = @ \/ ret])
  /\ UNCHANGED <<fixed, cwd, relative_path, ret, streams, list, time, count>>

\* Mutant: the last failure counts, = instead of |=.
UpDirAssigns ==
  /\ pc = "return" /\ stack # <<>>
  /\ cwd' = Front(cwd) /\ pc' = "dir"
  /\ \E failed \in BOOLEAN :
       /\ Restore(Append(Front(cwd), Top.entry), Top.saved, failed)
       /\ SetTop([Top EXCEPT !.failed = ret \/ failed])
  /\ UNCHANGED <<fixed, relative_path, ret, streams, list, count>>

\* Mutant: utime before chdir("..").
UpDirLate ==
  /\ pc = "return" /\ stack # <<>>
  /\ cwd' = Front(cwd) /\ pc' = "dir"
  /\ \E failed \in BOOLEAN :
       /\ Restore(Append(cwd, Top.entry), Top.saved, failed)
       /\ SetTop([Top EXCEPT !.failed = @ \/ ret \/ failed])
  /\ UNCHANGED <<fixed, relative_path, ret, streams, list, count>>

\* The call of process_dir for Top.entry has returned: chdir("..") and utime.
UpDir ==
  /\ pc = "return" /\ stack # <<>>
  /\ cwd' = Front(cwd) /\ pc' = "dir"
  /\ \E failed \in BOOLEAN :
       /\ Restore(Append(Front(cwd), Top.entry), Top.saved, failed)
       /\ SetTop([Top EXCEPT !.failed = @ \/ ret \/ failed])
  /\ UNCHANGED <<fixed, relative_path, ret, streams, list, count>>

UpDirFails ==
  /\ pc = "return" /\ stack # <<>>
  /\ Strikes({"dotdot"})
  /\ ReturnFromDir(TRUE)
  /\ UNCHANGED <<fixed, cwd, relative_path, streams, list, time, count>>

-----------------------------------------------------------------------------
Walk(e) ==
  WalkFile(e) \/ WalkSkip(e) \/ Descend(e) \/ DescendFails(e) \/ NoPath(e)

Next ==
  \/ ArgFails \/ ArgSkipped \/ ListFile \/ ListDir
  \/ BackToList \/ BackToListFails \/ Finish
  \/ OpenDir \/ OpenDirFails \/ EndDir \/ UpDir \/ UpDirFails
  \/ \E e \in Names : Walk(e)

Spec == Init /\ [][Next]_vars

\* The program is sequential and its tree finite: it runs until it is done.
FairSpec == Spec /\ WF_vars(Next)

-----------------------------------------------------------------------------
\* The variables keep their types.
TypeOK ==
  /\ tree \in Trees /\ args \in ArgLists /\ keep \in BOOLEAN /\ omit_dir_flag \in BOOLEAN
  /\ time \in [Nodes -> Nodes \cup {Now}]
  /\ cwd \in Seq(Names) /\ relative_path \in Seq(Names) /\ stack \in Seq(Frames)
  /\ pc \in {"list", "open", "dir", "return", "done"}
  /\ arg \in 1..Len(args) + 1
  /\ ret \in BOOLEAN /\ failure_flag \in BOOLEAN /\ saved \in Times
  /\ streams \in 0..FdLimit /\ count \in [tree.files -> Nat]
  /\ faulted \subseteq Faults /\ Cardinality(faulted) <= MaxFaults

\* How often an argument list selects the file f: as an argument, or below one
\* along directories and a file name that are accepted.
Selects(a, f) ==
  /\ a \in ArgsIn
  /\ \/ a = f
     \/ /\ a \in tree.dirs /\ IsStrictPrefix(a, f)
        /\ \A i \in Len(a) + 1 .. Len(f) - 1 : f[i] \in DirNames
        /\ f[Len(f)] \in FileNames
Selected(f) == Cardinality({i \in DOMAIN args : Selects(args[i], f)})

\* The faults after which process_dir returns without having gone back up.
Stranding == {"malloc", "dotdot"}

\* While entries of a directory are handled it is the working directory, and the
\* path that is printed for them is its own.  This is what makes the bare entry
\* names mean the right files.
InPlace ==
  pc = "dir" /\ faulted \cap Stranding = {} => Top.dir = cwd /\ Top.path = cwd

\* An exit without a failure means that each file was processed as often as the
\* arguments select it: no file is left out, none is reached by accident.
SuccessMeansAllVisited ==
  pc = "done" /\ ~failure_flag /\ "unknown" \notin faulted
    => \A f \in tree.files : count[f] = Selected(f)

\* No file is processed more often than it is selected: a second replacement in
\* the same run could match its own result.
NeverTooOften ==
  faulted \cap Stranding = {} => \A f \in tree.files : count[f] <= Selected(f)

\* Every failure in the recursion is or-ed up to the exit status.
FailuresReach ==
  pc = "done" /\ faulted \ {"unknown"} # {} => failure_flag

\* With --keep-times a run without failures leaves all times as they were.
TimesKept ==
  pc = "done" /\ keep /\ ~failure_flag => \A n \in Nodes : time[n] = n

\* The run comes to an end.
Ends == <>(pc = "done")

\* What the comment of process_dir says, "processes the current directory and
\* all subdirectories": if nothing fails every selected file is processed.
AllVisited ==
  pc = "done" /\ faulted = {} => \A f \in tree.files : count[f] = Selected(f)
=============================================================================
