------------------------- MODULE ProcessFileProofs -------------------------
(***************************************************************************)
(* For every set of files, every combination of options, any number of     *)
(* calls and runs and any failures: the types of ProcessFile; that a file  *)
(* under --backup is never without its old content; that process_file      *)
(* implements SafeRewrite; that numbered backups keep the first content of *)
(* every file; that no stream is left open and the exit status is right;   *)
(* and what success and a null character mean for a file.                  *)
(***************************************************************************)
EXTENDS ProcessFile, TLAPS

\* The names a file and its backups may have.
NameSet == [base : {f.base : f \in Files}, suffix : Seq(Nat)]

-----------------------------------------------------------------------------
(* Helpers.  *)

\* A prefix is a sequence of the length asked for; the longest is the whole.
LEMMA PrefixIs ==
  ASSUME NEW S, NEW s \in Seq(S), NEW k \in 0 .. Len(s)
  PROVE  /\ Prefix(s, k) \in Seq(S) /\ Len(Prefix(s, k)) = k
         /\ Prefix(s, Len(s)) = s
BY DEF Prefix

\* The disk after a write: one more name, and one content changed.
LEMMA StoredIs ==
  ASSUME disk \in [Names -> Seq(Lines)], NEW n, NEW c \in Seq(Lines)
  PROVE  /\ DOMAIN Stored(n, c) = Names \cup {n}
         /\ Stored(n, c) \in [Names \cup {n} -> Seq(Lines)]
         /\ Stored(n, c)[n] = c
         /\ \A m \in Names \ {n} : Stored(n, c)[m] = disk[m]
BY DEF Stored, Names

\* A write to one name leaves the content of another name.
LEMMA StoredElsewhere ==
  ASSUME disk \in [Names -> Seq(Lines)], NEW n, NEW c \in Seq(Lines),
         NEW m \in Names, m # n
  PROVE  Stored(n, c)[m] = disk[m]
BY DEF Stored, Names

\* A backup name is derived from the name of the file, and is another name
\* unless the suffix is empty.
LEMMA BackupNameIs ==
  ASSUME NEW n \in NameSet, NEW vs \in SUBSET Nat, NEW b \in BackupNames(n, vs)
  PROVE  b \in NameSet /\ b.base = n.base /\ (SimpleSuffix # <<>> => b # n)
<1>0. n.suffix \in Seq(Nat) /\ n.base \in {f.base : f \in Files}
      /\ n = [base |-> n.base, suffix |-> n.suffix]
  BY DEF NameSet
<1>1. ASSUME NEW s \in Seq(Nat), b = [base |-> n.base, suffix |-> s],
             SimpleSuffix # <<>> => s # n.suffix
      PROVE  b \in NameSet /\ b.base = n.base /\ (SimpleSuffix # <<>> => b # n)
  BY <1>0, <1>1 DEF NameSet
<1>2. CASE b = Simple(n)
  <2>1. b = [base |-> n.base, suffix |-> n.suffix \o SimpleSuffix]
    BY <1>0, <1>2 DEF Simple
  <2>2. CASE SimpleSuffix = <<>>
    <3>1. n.suffix \o SimpleSuffix \in Seq(Nat)
      BY <1>0, <2>2
    <3> QED
      BY <1>1, <2>1, <2>2, <3>1
  <2>3. CASE SimpleSuffix = <<0>>
    <3>1. n.suffix \o <<0>> \in Seq(Nat) /\ n.suffix \o <<0>> # n.suffix
      BY <1>0
    <3> QED
      BY <1>1, <2>1, <2>3, <3>1
  <2> QED
    BY <2>2, <2>3, SuffixAssumption
<1>3. ASSUME NEW v \in Nat, b = Numbered(n, v)
      PROVE  b \in NameSet /\ b.base = n.base /\ (SimpleSuffix # <<>> => b # n)
  <2>1. b = [base |-> n.base, suffix |-> Append(n.suffix, v)]
    BY <1>0, <1>3 DEF Numbered
  <2>2. Append(n.suffix, v) \in Seq(Nat) /\ Append(n.suffix, v) # n.suffix
    BY <1>0
  <2> QED
    BY <1>1, <2>1, <2>2
<1>4. b = Simple(n) \/ \E v \in 1 .. MaxVersion : b = Numbered(n, v)
  BY DEF BackupNames
<1> QED
  BY <1>2, <1>3, <1>4, BoundAssumption

-----------------------------------------------------------------------------
(* Types.  *)

\* At first the variables have their types.
LEMMA InitType == Init => TypeOK
<1> SUFFICES ASSUME Init PROVE TypeOK
  OBVIOUS
<1>1. /\ disk \in [Files -> Seq(Lines)] /\ Names = Files
      /\ cur \in Files /\ orig \in Seq(Lines)
  BY FileAssumption DEF Init, Names
<1>2. Files \subseteq NameSet
  <2> SUFFICES ASSUME NEW f \in Files PROVE f \in NameSet
    OBVIOUS
  <2>1. f = [base |-> f.base, suffix |-> <<>>] /\ <<>> \in Seq(Nat)
    BY FileAssumption
  <2>2. f.base \in {g.base : g \in Files}
    OBVIOUS
  <2>3. [base |-> f.base, suffix |-> <<>>] \in NameSet
    BY <2>1, <2>2 DEF NameSet
  <2> QED
    BY <2>1, <2>3
<1>3. opts \in Options
  BY OptionAssumption DEF Init
<1>4. /\ view = <<>> /\ at = 0 /\ out = <<>> /\ written = 0
      /\ found_flag = FALSE /\ failure_flag = FALSE /\ bname = cur
      /\ pc = "idle" /\ tmp = "file" /\ streams = {} /\ status = "running"
      /\ calls = 0 /\ runs = 1 /\ faulted = {}
  BY DEF Init
<1>5. view \in Seq(Lines) /\ out \in Seq(Lines)
      /\ at \in 0 .. Len(view) /\ written \in 0 .. Len(out)
  BY <1>4
<1>6. tmp_eof \in BOOLEAN
  BY Zenon DEF Init
<1> QED
  BY <1>1, <1>2, <1>3, <1>4, <1>5, <1>6 DEF TypeOK, NameSet

\* The beginning of a call keeps them.
LEMMA BeginType ==
  ASSUME TypeOK, NEW n \in Names, Begin(n)
  PROVE  TypeOK'
<1>1. CASE view' \in Views(disk[n]) /\ at' = 0 /\ out' = <<>> /\ written' = 0
           /\ cur' = n /\ orig' = disk[n] /\ found_flag' = FALSE
           /\ streams' = {"fp"} /\ Goto("scan") /\ NoFault
  <2>1. disk[n] \in Seq(Lines)
    BY DEF TypeOK
  <2>2. view' \in Seq(Lines) /\ at' \in 0 .. Len(view')
    <3>1. CASE disk[n] = <<>>
      <4>1. PICK l \in Lines : view' = <<l>>
        BY <1>1, <3>1 DEF Views
      <4> QED
        BY <1>1, <4>1
    <3>2. CASE disk[n] # <<>>
      BY <1>1, <2>1, <3>2 DEF Views
    <3> QED
      BY <3>1, <3>2
  <2>3. /\ UNCHANGED <<disk, opts, bname, tmp, tmp_eof, runs>> /\ calls' = calls + 1
        /\ pc' = "scan" /\ UNCHANGED <<failure_flag, status, faulted>>
    BY <1>1 DEF Begin, Goto, NoFault
  <2>4. out' \in Seq(Lines) /\ written' \in 0 .. Len(out')
    BY <1>1
  <2> QED
    <3>1. /\ cur' \in Names' /\ bname' \in Names' /\ orig' \in Seq(Lines)
          /\ disk' \in [Names' -> Seq(Lines)]
          /\ Names' \subseteq [base : {f.base : f \in Files}, suffix : Seq(Nat)]
      BY <1>1, <2>1, <2>3 DEF TypeOK, Names
    <3>2. found_flag' \in BOOLEAN /\ failure_flag' \in BOOLEAN /\ tmp_eof' \in BOOLEAN
      BY <1>1, <2>3, Zenon DEF TypeOK
    <3>3. streams' \subseteq {"fp", "tmp"} /\ calls' \in Nat
      BY <1>1, <2>3 DEF TypeOK
    <3> QED
      BY <2>2, <2>3, <2>4, <3>1, <3>2, <3>3 DEF TypeOK
<1>2. CASE Fault("open") /\ Return(TRUE)
           /\ UNCHANGED <<cur, orig, view, at, found_flag, out, written, streams>>
  BY <1>2 DEF Begin, TypeOK, Names, Fault, Return
<1> QED
  BY <1>1, <1>2 DEF Begin

\* So does the search.
LEMMA ScanType ==
  ASSUME TypeOK, Scan
  PROVE  TypeOK'
<1>1. CASE ScanLine
  <2>1. at' \in 0 .. Len(view)
    BY <1>1 DEF ScanLine, TypeOK
  <2>2. found_flag' \in BOOLEAN /\ failure_flag' \in BOOLEAN /\ tmp_eof' \in BOOLEAN
    BY <1>1, Zenon DEF ScanLine, TypeOK, Goto, Return
  <2>3. /\ UNCHANGED <<disk, opts, cur, view, bname, tmp, out, written, status,
                       calls, runs, faulted, orig>>
        /\ pc' \in {"scan", "idle"} /\ streams' \in {streams, {}}
    BY <1>1 DEF ScanLine, Fixed, NoFault, Goto, Return
  <2> QED
    BY <2>1, <2>2, <2>3 DEF TypeOK, Names
<1>2. CASE ScanEnd
  BY <1>2 DEF ScanEnd, TypeOK, Names, Fixed, file_local, NoFault, Goto
<1>3. CASE ScanFail
  BY <1>3 DEF ScanFail, TypeOK, Names, Fixed, file_local, Fault, Goto, Return
<1>4. CASE CloseAgain
  BY <1>4 DEF CloseAgain, TypeOK, Names, Fixed, file_local, NoFault, Return,
              Terminate
<1> QED
  BY <1>1, <1>2, <1>3, <1>4 DEF Scan

\* So does the prompt.
LEMMA ConfirmType ==
  ASSUME TypeOK, Confirm
  PROVE  TypeOK'
BY DEF Confirm, DryRun, Decline, Accept, TypeOK, Names, Fixed, file_local,
       NoFault, Goto, Return

\* So does the backup.
LEMMA BackupType ==
  ASSUME TypeOK, Backup
  PROVE  TypeOK'
<1>1. CASE NoBackup
  BY <1>1 DEF NoBackup, TypeOK, Names, Fixed, file_local, NoFault, Goto
<1>2. CASE OpenBackup
  <2>1. CASE Terminate("failed") /\ Fault("backup") /\ UNCHANGED <<disk, bname>>
    BY <1>2, <2>1 DEF OpenBackup, TypeOK, Names, Fixed, Terminate, Fault
  <2>2. CASE /\ bname' \in BackupNames(cur, Versions(cur)) \cup BackupNames(cur, {})
             /\ disk' = Stored(bname', <<>>) /\ Goto("copy") /\ UNCHANGED streams
             /\ NoFault \/ Fault("listdir")
    <3>1. cur \in NameSet /\ Versions(cur) \in SUBSET Nat
      BY BoundAssumption DEF TypeOK, NameSet, Versions
    <3>2. bname' \in NameSet
      BY <2>2, <3>1, BackupNameIs
    <3>3. DOMAIN disk' = Names \cup {bname'}
          /\ disk' \in [Names \cup {bname'} -> Seq(Lines)]
      <4>1. disk \in [Names -> Seq(Lines)] /\ <<>> \in Seq(Lines)
        BY DEF TypeOK
      <4> QED
        BY <2>2, <4>1, StoredIs
    <3>4. faulted' \subseteq Faults
      BY <2>2 DEF TypeOK, NoFault, Fault
    <3> QED
      BY <1>2, <2>2, <3>2, <3>3, <3>4
         DEF OpenBackup, TypeOK, NameSet, Names, Fixed, Goto
  <2> QED
    BY <1>2, <2>1, <2>2 DEF OpenBackup
<1>3. CASE CopyBackup
  <2>1. disk \in [Names -> Seq(Lines)] /\ bname \in Names /\ cur \in Names
        /\ disk[cur] \in Seq(Lines) /\ Len(disk[bname]) \in Nat
    BY DEF TypeOK
  <2>2. PICK k \in Len(disk[bname]) .. Len(disk[cur]) :
          /\ disk' = Stored(bname, Prefix(disk[cur], k))
          /\ \/ Goto("copy") /\ NoFault /\ UNCHANGED streams
             \/ Fault("backup") /\ Terminate("failed")
    BY <1>3 DEF CopyBackup
  <2>3. Prefix(disk[cur], k) \in Seq(Lines)
    BY <2>1, PrefixIs
  <2>4. DOMAIN disk' = Names /\ disk' \in [Names -> Seq(Lines)]
    <3>1. Names \cup {bname} = Names
      BY <2>1
    <3>2. /\ DOMAIN disk' = Names \cup {bname}
          /\ disk' \in [Names \cup {bname} -> Seq(Lines)]
      BY <2>1, <2>2, <2>3, StoredIs
    <3> QED
      BY <3>1, <3>2
  <2> QED
    BY <1>3, <2>2, <2>4 DEF CopyBackup, TypeOK, Names, Fixed, file_local,
                            NoFault, Fault, Goto, Terminate
<1>4. CASE CopyEnd
  BY <1>4 DEF CopyEnd, TypeOK, Names, Fixed, file_local, NoFault, Goto
<1> QED
  BY <1>1, <1>2, <1>3, <1>4 DEF Backup

\* So does the replacement.
LEMMA ReplaceType ==
  ASSUME TypeOK, Replace
  PROVE  TypeOK'
<1>1. CASE Rewind
  <2>1. disk[cur] \in Seq(Lines) /\ view \in Seq(Lines)
    BY DEF TypeOK
  <2>2. view' \in Seq(Lines) /\ at' \in 0 .. Len(view')
    <3>1. view' \in {view} \cup Views(disk[cur]) /\ at' = 0
      BY <1>1 DEF Rewind
    <3> QED
      BY <2>1, <3>1 DEF Views
  <2> QED
    BY <1>1, <2>2 DEF Rewind, TypeOK, Names, NoFault, Goto
<1>2. CASE ReplaceLine
  <2>1. view[at + 1] \in Lines /\ Subst[view[at + 1]] \in Lines
    BY <1>2, LineAssumption DEF ReplaceLine, TypeOK
  <2>2. out' \in Seq(Lines) /\ written \in 0 .. Len(out')
    <3>1. out \in Seq(Lines) /\ written \in 0 .. Len(out)
      BY DEF TypeOK
    <3>2. out' = Append(out, Subst[view[at + 1]]) \/ out' = out
      BY <1>2 DEF ReplaceLine, WriteString
    <3> QED
      BY <2>1, <3>1, <3>2
  <2>3. at' \in 0 .. Len(view)
    BY <1>2 DEF ReplaceLine, TypeOK
  <2> QED
    BY <1>2, <2>2, <2>3 DEF ReplaceLine, WriteString, TypeOK, Names, Fixed, NoFault,
                            Fault, Goto
<1>3. CASE ReplaceEnd
  BY <1>3 DEF ReplaceEnd, TypeOK, Names, Fixed, file_local, NoFault, Goto
<1>4. CASE ReplaceFail
  BY <1>4 DEF ReplaceFail, TypeOK, Names, Fixed, file_local, Fault, Goto, Return
<1> QED
  BY <1>1, <1>2, <1>3, <1>4 DEF Replace

\* Part of the output reaches the file.
LEMMA FlushType ==
  ASSUME TypeOK, NEW k \in 0 .. Len(out), FlushUpTo(k)
  PROVE  DOMAIN disk' = Names /\ disk' \in [Names -> Seq(Lines)]
<1>1. PICK d \in Len(disk[cur]) .. k : disk' = Stored(cur, Prefix(out, d))
  BY DEF FlushUpTo
<1>2. disk \in [Names -> Seq(Lines)] /\ cur \in Names /\ out \in Seq(Lines)
      /\ Len(disk[cur]) \in Nat
  BY DEF TypeOK
<1>3. d \in 0 .. Len(out)
  BY <1>2
<1>4. Prefix(out, d) \in Seq(Lines)
  BY <1>2, <1>3, PrefixIs
<1>5. Names \cup {cur} = Names
  BY <1>2
<1>6. /\ DOMAIN disk' = Names \cup {cur}
      /\ disk' \in [Names \cup {cur} -> Seq(Lines)]
  BY <1>1, <1>2, <1>4, StoredIs
<1> QED
  BY <1>5, <1>6

\* What is stored under the name of the file keeps the types.
LEMMA StoreCurType ==
  ASSUME TypeOK, NEW c \in Seq(Lines), disk' = Stored(cur, c)
  PROVE  DOMAIN disk' = Names /\ disk' \in [Names -> Seq(Lines)]
<1>1. disk \in [Names -> Seq(Lines)] /\ Names \cup {cur} = Names
  BY DEF TypeOK
<1>2. /\ DOMAIN disk' = Names \cup {cur}
      /\ disk' \in [Names \cup {cur} -> Seq(Lines)]
  BY <1>1, StoredIs
<1> QED
  BY <1>1, <1>2

\* So does the copying back.
LEMMA OverwriteType ==
  ASSUME TypeOK, Overwrite
  PROVE  TypeOK'
<1>0. out \in Seq(Lines) /\ written \in 0 .. Len(out) /\ Len(out) \in Nat
  BY DEF TypeOK
<1>1. CASE Reopen
  <2>1. DOMAIN disk' = Names /\ disk' \in [Names -> Seq(Lines)]
    <3>1. CASE UNCHANGED disk
      BY <3>1 DEF TypeOK, Names
    <3>2. CASE disk' = Stored(cur, <<>>)
      <4>1. <<>> \in Seq(Lines)
        OBVIOUS
      <4> QED
        BY <3>2, <4>1, StoreCurType
    <3> QED
      BY <1>1, <3>1, <3>2 DEF Reopen
  <2> QED
    BY <1>1, <2>1 DEF Reopen, TypeOK, Names, Fixed, file_local, NoFault, Fault,
                      Goto, Return
<1>2. CASE WriteChunk
  <2>1. written' \in 0 .. Len(out)
    BY <1>0, <1>2 DEF WriteChunk
  <2>2. DOMAIN disk' = Names /\ disk' \in [Names -> Seq(Lines)]
    BY <1>2, <2>1, FlushType DEF WriteChunk
  <2>3. tmp_eof' \in BOOLEAN
    BY <1>2, Zenon DEF WriteChunk, ReadTmp, TypeOK
  <2> QED
    BY <1>2, <2>1, <2>2, <2>3 DEF WriteChunk, TypeOK, Names, Fixed, NoFault, Goto
<1>3. CASE WriteFail
  <2>1. DOMAIN disk' = Names /\ disk' \in [Names -> Seq(Lines)]
    <3>1. CASE FlushUpTo(Len(out))
      <4>1. Len(out) \in 0 .. Len(out)
        BY <1>0
      <4> QED
        BY <3>1, <4>1, FlushType
    <3>2. CASE FlushUpTo(written)
      BY <1>0, <3>2, FlushType
    <3> QED
      BY <1>3, <3>1, <3>2 DEF WriteFail
  <2> QED
    BY <1>3, <2>1 DEF WriteFail, TypeOK, Names, Fixed, file_local, Fault, Return
<1>4. CASE WriteEnd
  BY <1>4 DEF WriteEnd, TypeOK, Names, Fixed, file_local, NoFault, Goto
<1>5. CASE Close
  <2>1. DOMAIN disk' = Names /\ disk' \in [Names -> Seq(Lines)]
    <3>1. CASE UNCHANGED disk
      BY <3>1 DEF TypeOK, Names
    <3>2. CASE disk' = Stored(cur, out)
      BY <1>0, <3>2, StoreCurType
    <3>3. CASE FlushUpTo(Len(out))
      <4>1. Len(out) \in 0 .. Len(out)
        BY <1>0
      <4> QED
        BY <3>3, <4>1, FlushType
    <3> QED
      BY <1>5, <3>1, <3>2, <3>3 DEF Close
  <2> QED
    BY <1>5, <2>1 DEF Close, TypeOK, Names, Fixed, file_local, NoFault, Fault,
                      Return
<1> QED
  BY <1>1, <1>2, <1>3, <1>4, <1>5 DEF Overwrite

\* So do the end of a run, a kill and another run.
LEMMA RunType ==
  ASSUME TypeOK, Exit \/ Crash \/ Rerun
  PROVE  TypeOK'
<1>1. CASE Exit
  BY <1>1 DEF Exit, TypeOK, Names, Fixed, file_local, NoFault, Terminate
<1>2. CASE Crash
  BY <1>2 DEF Crash, TypeOK, Names, Fixed, file_local, Fault, Terminate
<1>3. CASE Rerun
  <2>1. failure_flag' = FALSE /\ failure_flag' \in BOOLEAN
    BY <1>3 DEF Rerun
  <2>2. calls' \in Nat /\ runs' \in Nat /\ faulted' \subseteq Faults
    BY <1>3 DEF Rerun, TypeOK
  <2> QED
    BY <1>3, <2>1, <2>2 DEF Rerun, TypeOK, Names, file_local
<1> QED
  BY <1>1, <1>2, <1>3

\* The variables always have their types, and every file that exists is one of
\* the files at first or a backup derived from it.
THEOREM TypeCorrect == Spec => []TypeOK
<1>1. TypeOK /\ [Next]_vars => TypeOK'
  <2> SUFFICES ASSUME TypeOK, [Next]_vars PROVE TypeOK'
    OBVIOUS
  <2>1. ASSUME NEW n \in DOMAIN disk, Begin(n) PROVE TypeOK'
    BY <2>1, BeginType DEF Names
  <2>2. CASE UNCHANGED vars
    BY <2>2 DEF vars, file_local, program, history, TypeOK, Names
  <2> QED
    BY <2>1, <2>2, ScanType, ConfirmType, BackupType, ReplaceType,
       OverwriteType, RunType DEF Next
<1> QED
  BY <1>1, InitType, PTL DEF Spec

-----------------------------------------------------------------------------
(* The backup.  Most steps leave the disk alone; those that write it are   *)
(* treated one by one.                                                     *)

\* What a step leaves alone that writes nothing.
Frame == UNCHANGED <<disk, cur, orig, opts>>

\* At first no file is being processed.
LEMMA InitSafe == Init => SafeInv
BY DEF Init, SafeInv, TornHasBackup, Phase

\* A call begins with the file intact.
LEMMA BeginSafe ==
  ASSUME TypeOK, SafeInv, NEW n \in Names, Begin(n)
  PROVE  SafeInv'
<1>1. CASE /\ cur' = n /\ orig' = disk[n] /\ Goto("scan")
  BY <1>1 DEF Begin, Goto, SafeInv, TornHasBackup, Phase
<1>2. CASE Return(TRUE) /\ UNCHANGED <<cur, orig>>
  BY <1>2 DEF Begin, Return, SafeInv, TornHasBackup, Phase, Guarded
<1> QED
  BY <1>1, <1>2 DEF Begin

\* Where the search goes.
LEMMA ScanNext ==
  ASSUME Scan
  PROVE  \/ pc' \in {"idle", "ended", "scan", "again"}
         \/ pc' = "found" /\ found_flag'
         \/ pc' = "close" /\ ~found_flag'
<1>1. CASE ScanLine
  BY <1>1 DEF ScanLine, Goto, Return
<1>2. CASE ScanEnd
  <2>1. pc' = (IF found_flag THEN "found" ELSE "close") /\ found_flag' = found_flag
    BY <1>2 DEF ScanEnd, Goto, file_local
  <2>2. CASE found_flag
    BY <2>1, <2>2, Zenon
  <2>3. CASE ~found_flag
    BY <2>1, <2>3, Zenon
  <2> QED
    BY <2>2, <2>3
<1>3. CASE ScanFail
  BY <1>3 DEF ScanFail, Goto, Return
<1>4. CASE CloseAgain
  BY <1>4 DEF CloseAgain, Return, Terminate
<1> QED
  BY <1>1, <1>2, <1>3, <1>4 DEF Scan

\* The search leaves it so.
LEMMA ScanSafe ==
  ASSUME TypeOK, SafeInv, Scan
  PROVE  SafeInv'
<1>1. Frame /\ UNCHANGED bname /\ disk[cur] = orig
  BY DEF Scan, ScanLine, ScanEnd, ScanFail, CloseAgain, Fixed, file_local,
         Frame, Scanning, SafeInv, Phase
<1> QED
  BY <1>1, ScanNext DEF Frame, SafeInv, TornHasBackup, Phase

\* So does the prompt.
LEMMA ConfirmSafe ==
  ASSUME TypeOK, SafeInv, Confirm
  PROVE  SafeInv'
<1>1. /\ Frame /\ UNCHANGED <<bname, found_flag>> /\ disk[cur] = orig /\ found_flag
      /\ pc' \in {"idle", "backup"}
  BY DEF Confirm, DryRun, Decline, Accept, Fixed, file_local, Frame, Goto,
         Return, SafeInv, Phase
<1> QED
  BY <1>1 DEF Frame, SafeInv, TornHasBackup, Phase

\* The backup is written under another name.
LEMMA BackupSafe ==
  ASSUME SimpleSuffix # <<>>, TypeOK, SafeInv, Backup
  PROVE  SafeInv'
<1>0. /\ pc \in {"backup", "copy"} /\ disk[cur] = orig /\ found_flag
      /\ cur \in Names /\ bname \in Names /\ disk \in [Names -> Seq(Lines)]
      /\ cur \in NameSet /\ disk[cur] \in Seq(Lines)
  BY DEF Backup, NoBackup, OpenBackup, CopyBackup, CopyEnd, SafeInv, Phase, TypeOK,
         NameSet
<1>1. CASE NoBackup
  BY <1>0, <1>1 DEF NoBackup, Fixed, file_local, Goto, SafeInv, TornHasBackup,
                    Phase, Guarded
<1>2. CASE OpenBackup
  <2>1. UNCHANGED <<cur, orig, opts, found_flag>>
    BY <1>2 DEF OpenBackup, Fixed
  <2>2. CASE Terminate("failed") /\ UNCHANGED <<disk, bname>>
    BY <1>0, <2>1, <2>2 DEF Terminate, SafeInv, TornHasBackup, Phase
  <2>3. CASE /\ bname' \in BackupNames(cur, Versions(cur)) \cup BackupNames(cur, {})
             /\ disk' = Stored(bname', <<>>) /\ Goto("copy")
    <3>1. Versions(cur) \in SUBSET Nat /\ {} \in SUBSET Nat
      BY BoundAssumption DEF Versions
    <3>2. bname' # cur /\ bname'.base = cur.base
      BY <1>0, <2>3, <3>1, BackupNameIs
    <3>3. <<>> \in Seq(Lines)
      OBVIOUS
    <3>4. disk'[bname'] = <<>> /\ disk'[cur] = orig
      <4>1. Stored(bname', <<>>)[bname'] = <<>>
        BY <1>0, <3>3, StoredIs
      <4>2. Stored(bname', <<>>)[cur] = disk[cur]
        BY <1>0, <3>2, <3>3, StoredElsewhere
      <4> QED
        BY <1>0, <2>1, <2>3, <4>1, <4>2
    <3>5. disk'[bname'] = Prefix(disk'[cur], Len(disk'[bname']))
      BY <1>0, <3>4 DEF Prefix
    <3> QED
      BY <1>0, <2>1, <2>3, <3>2, <3>4, <3>5
         DEF Goto, SafeInv, TornHasBackup, Phase
  <2> QED
    BY <1>2, <2>2, <2>3 DEF OpenBackup
<1>3. CASE CopyBackup
  <2>1. UNCHANGED <<cur, orig, opts, found_flag, bname>> /\ pc = "copy"
    BY <1>3 DEF CopyBackup, Fixed, file_local
  <2>2. bname # cur /\ bname.base = cur.base
    BY <2>1 DEF SafeInv
  <2>3. PICK k \in Len(disk[bname]) .. Len(disk[cur]) :
          /\ disk' = Stored(bname, Prefix(disk[cur], k))
          /\ pc' \in {"copy", "ended"}
    BY <1>3 DEF CopyBackup, Goto, Terminate
  <2>4. k \in 0 .. Len(disk[cur])
    BY <1>0, <2>3
  <2>5. Prefix(disk[cur], k) \in Seq(Lines) /\ Len(Prefix(disk[cur], k)) = k
    BY <1>0, <2>4, PrefixIs
  <2>6. disk'[bname] = Prefix(disk[cur], k) /\ disk'[cur] = disk[cur]
    <3>1. Stored(bname, Prefix(disk[cur], k))[bname] = Prefix(disk[cur], k)
      BY <1>0, <2>5, StoredIs
    <3>2. Stored(bname, Prefix(disk[cur], k))[cur] = disk[cur]
      BY <1>0, <2>2, <2>5, StoredElsewhere
    <3> QED
      BY <2>3, <3>1, <3>2
  <2> QED
    BY <1>0, <2>1, <2>2, <2>3, <2>5, <2>6 DEF SafeInv, TornHasBackup, Phase
<1>4. CASE CopyEnd
  <2>1. /\ UNCHANGED <<disk, cur, orig, opts, found_flag, bname>>
        /\ pc = "copy" /\ pc' = "rewind" /\ Len(disk[bname]) = Len(disk[cur])
    BY <1>4 DEF CopyEnd, Fixed, file_local, Goto
  <2>2. Prefix(disk[cur], Len(disk[cur])) = disk[cur]
    <3>1. Len(disk[cur]) \in 0 .. Len(disk[cur])
      BY <1>0
    <3> QED
      BY <1>0, <3>1, PrefixIs
  <2>3. bname # cur /\ bname.base = cur.base /\ disk[bname] = orig
    BY <1>0, <2>1, <2>2 DEF SafeInv
  <2> QED
    BY <1>0, <2>1, <2>3 DEF SafeInv, TornHasBackup, Phase
<1> QED
  BY <1>1, <1>2, <1>3, <1>4 DEF Backup

\* The replacement goes to the temporary file.
LEMMA ReplaceSafe ==
  ASSUME TypeOK, SafeInv, Replace
  PROVE  SafeInv'
<1>1. Frame /\ UNCHANGED <<bname, found_flag>> /\ disk[cur] = orig /\ found_flag
  BY DEF Replace, Rewind, ReplaceLine, ReplaceEnd, ReplaceFail, Fixed, file_local,
         Frame, SafeInv, Phase
<1>2. pc \in {"rewind", "replace"} /\ pc' \in {"replace", "reopen", "again", "idle"}
  BY DEF Replace, Rewind, ReplaceLine, ReplaceEnd, ReplaceFail, Goto, Return
<1> QED
  BY <1>1, <1>2 DEF Frame, SafeInv, TornHasBackup, Phase, Guarded

\* Part of the output reaches the file, as a content written to cur.
LEMMA FlushStores ==
  ASSUME TypeOK, NEW k \in 0 .. Len(out), FlushUpTo(k)
  PROVE  \E c \in Seq(Lines) : disk' = Stored(cur, c)
<1>1. PICK d \in Len(disk[cur]) .. k : disk' = Stored(cur, Prefix(out, d))
  BY DEF FlushUpTo
<1>2. d \in 0 .. Len(out) /\ out \in Seq(Lines)
  BY DEF TypeOK
<1> QED
  BY <1>1, <1>2, PrefixIs

\* Writing the file keeps the backup.
LEMMA OverwriteSafe ==
  ASSUME TypeOK, SafeInv, Overwrite
  PROVE  SafeInv'
<1>1. UNCHANGED <<cur, orig, opts, bname, found_flag>>
  BY DEF Overwrite, Reopen, WriteChunk, WriteFail, WriteEnd, Close, Fixed, file_local
<1>2. CASE Overwrite /\ UNCHANGED disk
  BY <1>1, <1>2 DEF Overwrite, Reopen, WriteChunk, WriteFail, WriteEnd, Close, Goto,
                    Return, SafeInv, TornHasBackup, Phase, Guarded
<1>3. ASSUME NEW c \in Seq(Lines), disk' = Stored(cur, c),
             pc = "reopen" \/ Phase = "torn", pc' \in {"write", "idle"}
      PROVE  SafeInv'
  <2>1. found_flag
    BY <1>3 DEF SafeInv, Phase
  <2>2. Guarded => bname # cur /\ bname.base = cur.base /\ disk[bname] = orig
    BY <1>3 DEF SafeInv
  <2>3. disk \in [Names -> Seq(Lines)] /\ cur \in Names /\ bname \in Names
    BY DEF TypeOK
  <2>4. Guarded => disk'[bname] = orig
    <3> SUFFICES ASSUME Guarded PROVE disk'[bname] = orig
      OBVIOUS
    <3>1. Stored(cur, c)[bname] = disk[bname]
      BY <2>2, <2>3, StoredElsewhere
    <3> QED
      BY <1>3, <2>2, <3>1
  <2> QED
    BY <1>1, <1>3, <2>1, <2>2, <2>4 DEF SafeInv, TornHasBackup, Phase, Guarded
<1>4. \/ UNCHANGED disk
      \/ /\ \E c \in Seq(Lines) : disk' = Stored(cur, c)
         /\ pc = "reopen" \/ Phase = "torn"
         /\ pc' \in {"write", "idle"}
  <2>0. /\ out \in Seq(Lines) /\ <<>> \in Seq(Lines)
        /\ written \in 0 .. Len(out) /\ Len(out) \in 0 .. Len(out)
    BY DEF TypeOK
  <2>1. CASE Reopen
    BY <2>0, <2>1 DEF Reopen, Goto
  <2>2. CASE WriteChunk
    <3>1. written' \in 0 .. Len(out)
      BY <2>0, <2>2 DEF WriteChunk
    <3> QED
      BY FlushStores, <2>2, <3>1 DEF WriteChunk, Goto, Phase
  <2>3. CASE WriteFail
    BY FlushStores, <2>0, <2>3 DEF WriteFail, Return, Phase
  <2>4. CASE WriteEnd
    BY <2>4 DEF WriteEnd
  <2>5. CASE Close
    BY FlushStores, <2>0, <2>5 DEF Close, Return, Phase
  <2> QED
    BY <2>1, <2>2, <2>3, <2>4, <2>5 DEF Overwrite
<1> QED
  BY <1>2, <1>3, <1>4

\* The end of a run, a kill and another run write nothing.
LEMMA RunSafe ==
  ASSUME TypeOK, SafeInv, Exit \/ Crash \/ Rerun
  PROVE  SafeInv'
<1>1. Frame /\ UNCHANGED <<bname, found_flag>> /\ pc' \in {"idle", "ended"}
  BY DEF Exit, Crash, Rerun, Fixed, file_local, Frame, Terminate
<1> QED
  BY <1>1 DEF Frame, SafeInv, TornHasBackup, Phase, Guarded

\* With a suffix that is not empty, the file is intact until it is reopened, and a
\* complete backup stands under another name by then, through every failure.
THEOREM SafeInvariant ==
  ASSUME SimpleSuffix # <<>>
  PROVE  Spec => [](TypeOK /\ SafeInv)
<1>1. TypeOK /\ SafeInv /\ [Next]_vars => SafeInv'
  <2> SUFFICES ASSUME TypeOK, SafeInv, [Next]_vars PROVE SafeInv'
    OBVIOUS
  <2>1. ASSUME NEW n \in DOMAIN disk, Begin(n) PROVE SafeInv'
    BY <2>1, BeginSafe DEF Names
  <2>2. CASE UNCHANGED vars
    BY <2>2 DEF vars, file_local, program, history, SafeInv, TornHasBackup, Phase,
                Guarded
  <2> QED
    BY <2>1, <2>2, ScanSafe, ConfirmSafe, BackupSafe, ReplaceSafe,
       OverwriteSafe, RunSafe DEF Next
<1> QED
  BY <1>1, InitSafe, TypeCorrect, PTL DEF Spec

\* With --backup and a suffix that is not empty, a file that no longer has the content it had when
\* process_file opened it is one whose backup has that content: in every state,
\* so also when the program is killed there.
THEOREM TornHasBackupAlways ==
  ASSUME SimpleSuffix # <<>>
  PROVE  Spec => []TornHasBackup
<1>1. SafeInv => TornHasBackup
  BY DEF SafeInv
<1> QED
  BY <1>1, SafeInvariant, PTL

-----------------------------------------------------------------------------
(* The refinement: seen from the disk, process_file saves the file under   *)
(* another name, if at all, and rewrites it after that.                    *)

\* What a step looks like from the disk.
Abstract == [SR!Next]_SR!vars

\* A name that is stored changes no other.
LEMMA StoredOnly ==
  ASSUME NEW n, NEW c, disk' = Stored(n, c)
  PROVE  SR!Only(n)
BY DEF Stored, SR!Only

\* A step that does not touch the disk keeps the phase or gives the file up.
LEMMA QuietStep ==
  ASSUME Frame, Phase' = Phase \/ (Phase \in {"in", "torn"} /\ Phase' = "out"),
         cur \in Names
  PROVE  Abstract
<1>1. UNCHANGED Guarded /\ UNCHANGED <<disk, cur, orig>>
  BY DEF Frame, Guarded
<1>2. CASE Phase' = Phase
  BY <1>1, <1>2 DEF Abstract, SR!vars
<1>3. CASE Phase = "in" /\ Phase' = "out"
  BY <1>1, <1>3 DEF Abstract, SR!Next, SR!Leave
<1>4. CASE Phase = "torn" /\ Phase' = "out"
  <2>1. SR!Only(cur)
    BY <1>1 DEF SR!Only, Names
  <2> QED
    BY <1>1, <1>4, <2>1 DEF Abstract, SR!Next, SR!Rewrite
<1> QED
  BY <1>2, <1>3, <1>4

\* A call begins.
LEMMA BeginAbstract ==
  ASSUME NEW n \in Names, Begin(n)
  PROVE  Abstract
<1>1. CASE cur' = n /\ orig' = disk[n] /\ Goto("scan")
  <2>1. Phase = "out" /\ Phase' = "in" /\ UNCHANGED <<disk, Guarded>>
    BY <1>1 DEF Begin, Goto, Phase, Guarded
  <2> QED
    BY <1>1, <2>1 DEF Abstract, SR!Next, SR!Begin, Names
<1>2. CASE Return(TRUE) /\ UNCHANGED <<cur, orig>>
  BY <1>2 DEF Begin, Return, Phase, Guarded, Abstract, SR!vars
<1> QED
  BY <1>1, <1>2 DEF Begin

\* The search is not seen.
LEMMA ScanAbstract ==
  ASSUME TypeOK, SafeInv, Scan
  PROVE  Abstract
<1>1. Frame /\ cur \in Names
  BY DEF Scan, ScanLine, ScanEnd, ScanFail, CloseAgain, Fixed, file_local, Frame,
         TypeOK
<1>2. Phase = "in"
  BY DEF Scan, ScanLine, ScanEnd, ScanFail, CloseAgain, Scanning, Phase
<1>3. Phase' \in {"in", "out"}
  BY ScanNext DEF Phase
<1> QED
  BY <1>1, <1>2, <1>3, QuietStep

\* Nor is the prompt.
LEMMA ConfirmAbstract ==
  ASSUME TypeOK, Confirm
  PROVE  Abstract
<1>1. Frame /\ cur \in Names
  BY DEF Confirm, DryRun, Decline, Accept, Fixed, file_local, Frame, TypeOK
<1>2. Phase = "in" /\ Phase' \in {"in", "out"}
  BY DEF Confirm, DryRun, Decline, Accept, Goto, Return, Phase
<1> QED
  BY <1>1, <1>2, QuietStep

\* The backup is written.
LEMMA BackupAbstract ==
  ASSUME SimpleSuffix # <<>>, TypeOK, SafeInv, Backup
  PROVE  Abstract
<1>1. Phase = "in" /\ Phase' \in {"in", "out"} /\ UNCHANGED <<cur, orig, opts>>
  BY DEF Backup, NoBackup, OpenBackup, CopyBackup, CopyEnd, Goto, Terminate, Fixed,
         file_local, Phase
<1>2. CASE UNCHANGED disk
  <2>1. Frame /\ cur \in Names
    BY <1>1, <1>2 DEF Frame, TypeOK
  <2> QED
    BY <1>1, <2>1, QuietStep
<1>3. ASSUME NEW b, NEW c, b # cur, disk' = Stored(b, c)
      PROVE  Abstract
  <2>1. SR!Only(b) /\ b \in DOMAIN disk' \ {cur}
    BY <1>3, StoredOnly DEF Stored
  <2>2. UNCHANGED Guarded
    BY <1>1 DEF Guarded
  <2> QED
    BY <1>1, <2>1, <2>2 DEF Abstract, SR!Next, SR!Save
<1>4. \/ UNCHANGED disk
      \/ \E b, c : b # cur /\ disk' = Stored(b, c)
  <2>1. CASE NoBackup \/ CopyEnd
    BY <2>1 DEF NoBackup, CopyEnd, Fixed
  <2>2. CASE OpenBackup
    <3>1. CASE UNCHANGED disk
      BY <3>1
    <3>2. CASE /\ bname' \in BackupNames(cur, Versions(cur))
                                 \cup BackupNames(cur, {})
               /\ disk' = Stored(bname', <<>>)
      <4>1. cur \in NameSet /\ Versions(cur) \in SUBSET Nat /\ {} \in SUBSET Nat
        BY BoundAssumption DEF Versions, TypeOK, NameSet
      <4>2. bname' # cur
        BY <3>2, <4>1, BackupNameIs
      <4> QED
        BY <3>2, <4>2
    <3> QED
      BY <2>2, <3>1, <3>2 DEF OpenBackup
  <2>3. CASE CopyBackup
    BY <2>3 DEF CopyBackup, SafeInv
  <2> QED
    BY <2>1, <2>2, <2>3 DEF Backup
<1> QED
  BY <1>2, <1>3, <1>4

\* The replacement is not seen.
LEMMA ReplaceAbstract ==
  ASSUME TypeOK, Replace
  PROVE  Abstract
<1>1. Frame /\ cur \in Names
  BY DEF Replace, Rewind, ReplaceLine, ReplaceEnd, ReplaceFail, Fixed, file_local,
         Frame, TypeOK
<1>2. Phase = "in" /\ Phase' \in {"in", "out"}
  BY DEF Replace, Rewind, ReplaceLine, ReplaceEnd, ReplaceFail, Goto, Return, Phase
<1> QED
  BY <1>1, <1>2, QuietStep

\* The rewriting starts with the backup in place, and writes nothing else.
LEMMA OverwriteAbstract ==
  ASSUME TypeOK, SafeInv, Overwrite
  PROVE  Abstract
<1>0. /\ UNCHANGED <<cur, orig, opts, Guarded, bname, found_flag>>
      /\ cur \in Names /\ bname \in Names
  BY DEF Overwrite, Reopen, WriteChunk, WriteFail, WriteEnd, Close, Fixed, file_local,
         Guarded, TypeOK
<1>1. CASE Reopen
  <2>0. Phase = "in"
    BY <1>1 DEF Reopen, Phase
  <2>1. CASE disk' = Stored(cur, <<>>) /\ Goto("write")
    <3>1. SR!Only(cur)
      BY <2>1, StoredOnly
    <3>2. Guarded => bname \in DOMAIN disk \ {cur} /\ disk[bname] = orig
      BY <1>0, <1>1 DEF Reopen, SafeInv, Names
    <3>3. Phase' = "torn"
      BY <2>1 DEF Goto, Phase
    <3> QED
      BY <1>0, <2>0, <3>1, <3>2, <3>3 DEF Abstract, SR!Next, SR!Start
  <2>2. CASE UNCHANGED disk /\ Return(TRUE)
    <3>1. Frame /\ Phase' = "out"
      BY <1>0, <2>2 DEF Frame, Return, Phase
    <3> QED
      BY <1>0, <2>0, <3>1, QuietStep
  <2> QED
    BY <1>1, <2>1, <2>2 DEF Reopen
<1>2. CASE WriteEnd \/ (Close /\ UNCHANGED disk)
  <2>1. Frame
    BY <1>0, <1>2 DEF WriteEnd, Fixed, Frame
  <2>2. Phase' = Phase \/ (Phase \in {"in", "torn"} /\ Phase' = "out")
    BY <1>0, <1>2 DEF WriteEnd, Close, Goto, Return, Phase, SafeInv
  <2> QED
    BY <1>0, <2>1, <2>2, QuietStep
<1>3. CASE (WriteChunk \/ WriteFail \/ Close) /\ \E c : disk' = Stored(cur, c)
  <2>1. SR!Only(cur)
    BY <1>3, StoredOnly
  <2>2. CASE Phase = "torn"
    <3>1. Phase' \in {"torn", "out"}
      BY <1>3 DEF WriteChunk, WriteFail, Close, Goto, Return, Phase
    <3> QED
      BY <1>0, <2>1, <2>2, <3>1 DEF Abstract, SR!Next, SR!Rewrite
  <2>3. CASE Phase # "torn"
    <3>1. Close /\ UNCHANGED disk
      BY <1>3, <2>3 DEF WriteChunk, WriteFail, Close, Phase
    <3> QED
      BY <1>2, <3>1
  <2> QED
    BY <2>2, <2>3
<1>4. WriteChunk \/ WriteFail => \E c : disk' = Stored(cur, c)
  BY DEF WriteChunk, WriteFail, FlushUpTo
<1>5. Close => UNCHANGED disk \/ \E c : disk' = Stored(cur, c)
  BY DEF Close, FlushUpTo
<1> QED
  BY <1>1, <1>2, <1>3, <1>4, <1>5 DEF Overwrite

\* The end of a run, a kill and another run are seen as the end of a call, or not at all.
LEMMA RunAbstract ==
  ASSUME TypeOK, Exit \/ Crash \/ Rerun
  PROVE  Abstract
<1>1. Frame /\ cur \in Names
  BY DEF Exit, Crash, Rerun, Fixed, file_local, Frame, TypeOK
<1>2. Phase \in {"in", "torn", "out"} /\ Phase' = "out"
  BY DEF Exit, Crash, Rerun, Terminate, Phase
<1> QED
  BY <1>1, <1>2, QuietStep

\* process_file with everything that can go wrong in it and between its calls
\* behaves like SafeRewrite: each file is intact until it is reopened, only the
\* backup is written before, and with --backup the reopening finds a complete
\* copy under another name, which no later step of the call takes away, provided
\* the suffix of simple backups is not empty.
THEOREM ProcessFileRefines ==
  ASSUME SimpleSuffix # <<>>
  PROVE  Spec => ImplementsSafeRewrite
<1>1. Init => SR!Init
  BY DEF Init, SR!Init, Phase, Guarded
<1>2. TypeOK /\ SafeInv /\ [Next]_vars => Abstract
  <2> SUFFICES ASSUME TypeOK, SafeInv, [Next]_vars PROVE Abstract
    OBVIOUS
  <2>1. ASSUME NEW n \in DOMAIN disk, Begin(n) PROVE Abstract
    BY <2>1, BeginAbstract DEF Names
  <2>2. CASE UNCHANGED vars
    BY <2>2 DEF vars, file_local, program, history, Phase, Guarded, Abstract, SR!vars
  <2> QED
    BY <2>1, <2>2, ScanAbstract, ConfirmAbstract, BackupAbstract, ReplaceAbstract,
       OverwriteAbstract, RunAbstract DEF Next
<1> QED
  BY <1>1, <1>2, SafeInvariant, PTL DEF Spec, ImplementsSafeRewrite, SR!Spec, Abstract

-----------------------------------------------------------------------------
(* What numbered backups keep.  The content a file had at the very         *)
(* beginning is under a name that is neither being rewritten nor being     *)
(* written as a backup: the invariant names that place, and it moves from  *)
(* the file to its backup when the file is reopened.                       *)

\* The name n keeps the first content of f.
Keeps(n, f) ==
  /\ n.base = f.base /\ disk[n] = initial[f]
  /\ ~(n = cur /\ Phase = "torn")
  /\ ~(n = bname /\ pc = "copy")

\* The inductive invariant: some name of the family keeps it.
KeptInv ==
  opts.backup = "numbered" => \A f \in DOMAIN initial : \E n \in Names : Keeps(n, f)

\* A step that leaves every content in place and starts no write.
LEMMA QuietKept ==
  ASSUME KeptInv, UNCHANGED <<disk, opts, initial>>,
         Phase' = "torn" => Phase = "torn" /\ cur' = cur,
         pc' = "copy" => pc = "copy" /\ bname' = bname
  PROVE  KeptInv'
BY DEF KeptInv, Keeps, Names

\* A write to a name that keeps nothing.
LEMMA WriteKept ==
  ASSUME KeptInv, TypeOK, NEW b, NEW c \in Seq(Lines), disk' = Stored(b, c),
         UNCHANGED <<opts, initial>>,
         Phase' = "torn" => b = cur',
         pc' = "copy" => b = bname',
         \A n \in Names, f \in DOMAIN initial : Keeps(n, f) => n # b
  PROVE  KeptInv'
<1> SUFFICES ASSUME opts.backup = "numbered", NEW f \in DOMAIN initial
             PROVE  \E n \in Names' : Keeps(n, f)'
  BY DEF KeptInv
<1>1. PICK n \in Names : Keeps(n, f)
  BY DEF KeptInv
<1>2. n # b /\ disk \in [Names -> Seq(Lines)]
  BY <1>1 DEF TypeOK
<1>3. Stored(b, c)[n] = disk[n]
  BY <1>2, StoredElsewhere
<1>4. n \in DOMAIN Stored(b, c)
  BY DEF Stored, Names
<1> QED
  BY <1>1, <1>2, <1>3, <1>4 DEF Keeps, Names

\* At first the file does.
LEMMA InitKept == Init => KeptInv
<1> SUFFICES ASSUME Init, NEW f \in Files PROVE Keeps(f, f) /\ f \in Names
  BY DEF KeptInv, Init
<1> QED
  BY DEF Init, Keeps, Phase, Names

\* A version above every version in the directory is a new name.
LEMMA NumberedIsNew ==
  ASSUME opts.backup = "numbered", NEW b \in BackupNames(cur, Versions(cur))
  PROVE  b \notin Names
<1>1. PICK v \in 1 .. MaxVersion : b = Numbered(cur, v)
                                  /\ \A w \in Versions(cur) : w < v
  BY DEF BackupNames
<1> QED
  BY <1>1, BoundAssumption DEF Versions, Names

\* A new backup is written to a name that keeps nothing.
LEMMA BackupKept ==
  ASSUME "listdir" \notin Faults, SimpleSuffix # <<>>, TypeOK, SafeInv, KeptInv, Backup
  PROVE  KeptInv'
<1>0. UNCHANGED <<opts, initial, cur>> /\ Phase' # "torn"
  BY DEF Backup, NoBackup, OpenBackup, CopyBackup, CopyEnd, Fixed, Goto, Terminate,
         Phase
<1>1. CASE NoBackup \/ CopyEnd
  BY <1>0, <1>1, QuietKept DEF NoBackup, CopyEnd, Goto, Fixed
<1>2. CASE OpenBackup
  <2>1. CASE UNCHANGED disk /\ Terminate("failed")
    BY <1>0, <2>1, QuietKept DEF Terminate
  <2>2. CASE bname' \in BackupNames(cur, Versions(cur)) /\ disk' = Stored(bname', <<>>)
    <3>1. <<>> \in Seq(Lines)
      OBVIOUS
    <3>2. CASE opts.backup = "numbered"
      <4>1. bname' \notin Names
        BY <2>2, <3>2, NumberedIsNew
      <4> QED
        BY <1>0, <2>2, <3>1, <4>1, WriteKept
    <3>3. CASE opts.backup # "numbered"
      BY <1>0, <3>3 DEF KeptInv
    <3> QED
      BY <3>2, <3>3
  <2> QED
    BY <1>2, <2>1, <2>2 DEF OpenBackup, Fault
<1>3. CASE CopyBackup
  <2>1. UNCHANGED bname /\ pc = "copy"
    BY <1>3 DEF CopyBackup, file_local
  <2>2. PICK k \in Len(disk[bname]) .. Len(disk[cur]) :
          disk' = Stored(bname, Prefix(disk[cur], k))
    BY <1>3 DEF CopyBackup
  <2>3. disk[cur] \in Seq(Lines) /\ Len(disk[bname]) \in Nat
    BY DEF TypeOK
  <2>4. k \in 0 .. Len(disk[cur])
    BY <2>2, <2>3
  <2>5. Prefix(disk[cur], k) \in Seq(Lines)
    BY <2>3, <2>4, PrefixIs
  <2>6. \A n \in Names, f \in DOMAIN initial : Keeps(n, f) => n # bname
    BY <2>1 DEF Keeps
  <2> QED
    BY <1>0, <2>1, <2>2, <2>5, <2>6, WriteKept
<1> QED
  BY <1>1, <1>2, <1>3 DEF Backup

\* When the file is reopened its backup keeps what it kept.
LEMMA OverwriteKept ==
  ASSUME TypeOK, SafeInv, KeptInv, Overwrite
  PROVE  KeptInv'
<1>0. /\ UNCHANGED <<opts, initial, cur, bname, orig, found_flag>>
      /\ pc' # "copy" /\ pc # "copy"
      /\ disk \in [Names -> Seq(Lines)] /\ cur \in Names /\ bname \in Names
  BY DEF Overwrite, Reopen, WriteChunk, WriteFail, WriteEnd, Close, Fixed, file_local,
         Goto, Return, TypeOK
<1>1. CASE Reopen /\ Return(TRUE) /\ UNCHANGED disk
  BY <1>0, <1>1, QuietKept DEF Return, Phase
<1>2. CASE Reopen /\ disk' = Stored(cur, <<>>) /\ Goto("write")
  <2> SUFFICES ASSUME opts.backup = "numbered", NEW f \in DOMAIN initial
               PROVE  \E n \in Names' : Keeps(n, f)'
    BY <1>0 DEF KeptInv
  <2>0. <<>> \in Seq(Lines)
    OBVIOUS
  <2>1. ASSUME NEW m \in Names \ {cur}, m.base = f.base, disk[m] = initial[f]
        PROVE  \E n \in Names' : Keeps(n, f)'
    <3>1. Stored(cur, <<>>)[m] = disk[m]
      BY <1>0, <2>0, StoredElsewhere
    <3>2. m \in DOMAIN Stored(cur, <<>>)
      BY DEF Stored, Names
    <3> QED
      BY <1>0, <1>2, <2>1, <3>1, <3>2 DEF Keeps, Names
  <2>2. PICK n \in Names : Keeps(n, f)
    BY DEF KeptInv
  <2>3. CASE n # cur
    BY <2>1, <2>2, <2>3 DEF Keeps
  <2>4. CASE n = cur
    <3>1. disk[cur] = orig /\ bname # cur /\ bname.base = cur.base
          /\ disk[bname] = orig
      BY <1>2 DEF Reopen, SafeInv, Phase, Guarded
    <3> QED
      BY <1>0, <2>1, <2>2, <2>4, <3>1 DEF Keeps
  <2> QED
    BY <2>3, <2>4
<1>3. ASSUME NEW c \in Seq(Lines), disk' = Stored(cur, c), Phase = "torn"
      PROVE  KeptInv'
  BY <1>0, <1>3, WriteKept DEF Keeps
<1>4. CASE UNCHANGED disk /\ (Phase = "torn" \/ Phase' = "out")
  BY <1>0, <1>4, QuietKept
<1>5. /\ written \in 0 .. Len(out) /\ Len(out) \in 0 .. Len(out)
      /\ out \in Seq(Lines)
  BY DEF TypeOK
<1>6. CASE WriteChunk
  <2>1. written' \in 0 .. Len(out)
    BY <1>5, <1>6 DEF WriteChunk
  <2> QED
    BY <1>3, <1>6, <2>1, FlushStores DEF WriteChunk, Phase
<1>7. CASE WriteFail
  BY <1>3, <1>5, <1>7, FlushStores DEF WriteFail, Phase
<1>8. CASE WriteEnd
  BY <1>4, <1>8 DEF WriteEnd, Phase
<1>9. CASE Close
  BY <1>3, <1>4, <1>5, <1>9, FlushStores DEF Close, Return, Phase
<1> QED
  BY <1>1, <1>2, <1>6, <1>7, <1>8, <1>9 DEF Overwrite, Reopen

\* The other steps write nothing.
LEMMA OtherKept ==
  ASSUME TypeOK, KeptInv,
         (\E n \in Names : Begin(n)) \/ Scan \/ Confirm \/ Replace
           \/ Exit \/ Crash \/ Rerun \/ UNCHANGED vars
  PROVE  KeptInv'
<1>1. CASE \E n \in Names : Begin(n)
  BY <1>1, QuietKept DEF Begin, Goto, Return, Phase
<1>2. CASE Scan
  <2>1. UNCHANGED <<disk, opts, initial>>
    BY <1>2 DEF Scan, ScanLine, ScanEnd, ScanFail, CloseAgain, Fixed
  <2>2. Phase' # "torn" /\ pc' # "copy"
    BY <1>2, ScanNext DEF Phase
  <2> QED
    BY <2>1, <2>2, QuietKept
<1>3. CASE Confirm
  BY <1>3, QuietKept DEF Confirm, DryRun, Decline, Accept, Goto, Return, Fixed, Phase
<1>4. CASE Replace
  BY <1>4, QuietKept DEF Replace, Rewind, ReplaceLine, ReplaceEnd, ReplaceFail, Goto,
                         Return, Fixed, Phase
<1>5. CASE Exit \/ Crash \/ Rerun
  BY <1>5, QuietKept DEF Exit, Crash, Rerun, Terminate, Fixed, Phase
<1>6. CASE UNCHANGED vars
  BY <1>6, QuietKept DEF vars, file_local, history, Phase
<1> QED
  BY <1>1, <1>2, <1>3, <1>4, <1>5, <1>6

\* If directories can be listed, numbered backups never lose what a file held at
\* the very beginning: over any number of runs, killed at any point or not, and
\* with any other failure, it is in the file or in a backup derived from it.
THEOREM FirstContentAlwaysKept ==
  ASSUME "listdir" \notin Faults, SimpleSuffix # <<>>
  PROVE  Spec => []FirstContentKept
<1>1. TypeOK /\ SafeInv /\ KeptInv /\ [Next]_vars => KeptInv'
  BY BackupKept, OverwriteKept, OtherKept DEF Next, Names
<1>2. KeptInv => FirstContentKept
  BY DEF KeptInv, Keeps, FirstContentKept
<1> QED
  BY <1>1, <1>2, InitKept, SafeInvariant, PTL DEF Spec

-----------------------------------------------------------------------------
(* Streams and the exit status.                                            *)

\* No path through process_file leaves a stream open.
THEOREM NoStreamLeftOpen == Spec => []NoStreamLeft
<1>1. Init => NoStreamLeft
  BY DEF Init, NoStreamLeft
<1>2. NoStreamLeft /\ [Next]_vars => NoStreamLeft'
  <2> SUFFICES ASSUME NoStreamLeft, [Next]_vars PROVE NoStreamLeft'
    OBVIOUS
  <2>1. ASSUME NEW n \in DOMAIN disk, Begin(n) PROVE NoStreamLeft'
    BY <2>1 DEF Begin, Goto, NoStreamLeft
  <2>2. CASE Scan
    BY <2>2 DEF Scan, ScanLine, ScanEnd, ScanFail, CloseAgain, Goto, Return, Terminate,
                NoStreamLeft
  <2>3. CASE Confirm
    BY <2>3 DEF Confirm, DryRun, Decline, Accept, Goto, Return, NoStreamLeft
  <2>4. CASE Backup
    BY <2>4 DEF Backup, NoBackup, OpenBackup, CopyBackup, CopyEnd, Goto, Terminate,
                NoStreamLeft
  <2>5. CASE Replace
    BY <2>5 DEF Replace, Rewind, ReplaceLine, ReplaceEnd, ReplaceFail, Goto, Return,
                NoStreamLeft
  <2>6. CASE Overwrite
    BY <2>6 DEF Overwrite, Reopen, WriteChunk, WriteFail, WriteEnd, Close, Goto, Return,
                NoStreamLeft
  <2>7. CASE Exit \/ Crash \/ Rerun
    BY <2>7 DEF Exit, Crash, Rerun, Terminate, NoStreamLeft
  <2>8. CASE UNCHANGED vars
    BY <2>8 DEF vars, NoStreamLeft
  <2> QED
    BY <2>1, <2>2, <2>3, <2>4, <2>5, <2>6, <2>7, <2>8 DEF Next
<1> QED
  BY <1>1, <1>2, PTL DEF Spec

\* While the run goes on a failure is noted, unless it is about to be: a read
\* has failed and the stream has yet to be closed a second time.
Reported ==
  /\ failure_flag \in BOOLEAN
  /\ status = "running" <=> pc # "ended"
  /\ (pc # "ended" /\ faulted \cap Silent = {})
       => (failure_flag \/ pc = "again" <=> faulted # {})

\* The inductive invariant.
RInv == Reported /\ ExitReportsError

\* A step that goes on without a failure.
LEMMA OnwardReported ==
  ASSUME RInv, pc \notin {"ended", "again"}, pc' \notin {"ended", "again"},
         UNCHANGED <<failure_flag, status, faulted>>
  PROVE  RInv'
BY DEF RInv, Reported, ExitReportsError, Silent

\* process_file returns, with a failure if one happened in this step.
LEMMA ReturnReported ==
  ASSUME RInv, pc # "ended", NEW failed \in BOOLEAN, Return(failed),
         \/ NoFault /\ failed = (pc = "again")
         \/ failed /\ \E f : Fault(f)
  PROVE  RInv'
<1>1. pc' = "idle" /\ UNCHANGED status /\ status = "running" /\ failure_flag \in BOOLEAN
  BY DEF Return, RInv, Reported
<1>2. failure_flag' = (failure_flag \/ failed) /\ failure_flag' \in BOOLEAN
  BY <1>1, Zenon DEF Return
<1>3. CASE NoFault /\ failed = (pc = "again")
  BY <1>1, <1>2, <1>3 DEF NoFault, RInv, Reported, ExitReportsError
<1>4. CASE failed /\ \E f : Fault(f)
  BY <1>1, <1>2, <1>4 DEF Fault, RInv, Reported, ExitReportsError
<1> QED
  BY <1>3, <1>4

\* A failure that the code does not look at, or notes with a later step.
LEMMA SilentReported ==
  ASSUME RInv, pc # "ended", pc' # "ended", UNCHANGED <<failure_flag, status>>,
         NEW f, Fault(f), f \in Silent \/ pc' = "again"
  PROVE  RInv'
BY DEF Fault, RInv, Reported, ExitReportsError

\* The program ends.
LEMMA TerminateReported ==
  ASSUME RInv, NEW s, Terminate(s),
         \/ s \in {"aborted", "killed"}
         \/ s = "failed" /\ \E f : Fault(f)
  PROVE  RInv'
BY DEF Terminate, Fault, RInv, Reported, ExitReportsError

\* Every step that fails notes it.
LEMMA ReportedStep == RInv /\ [Next]_vars => RInv'
<1> SUFFICES ASSUME RInv, [Next]_vars PROVE RInv'
  OBVIOUS
<1>1. ASSUME NEW n \in DOMAIN disk, Begin(n) PROVE RInv'
  BY <1>1, OnwardReported, ReturnReported DEF Begin, Goto, NoFault
<1>2. CASE Scan
  <2>1. CASE ScanLine
    BY <2>1, OnwardReported, ReturnReported DEF ScanLine, Scanning, Goto, NoFault
  <2>2. CASE ScanEnd
    <3>1. pc' \in {"found", "close"}
      BY <2>2 DEF ScanEnd, Goto
    <3> QED
      BY <2>2, <3>1, OnwardReported DEF ScanEnd, Goto, NoFault
  <2>3. CASE ScanFail
    BY <2>3, SilentReported, ReturnReported DEF ScanFail, Scanning, Goto
  <2>4. CASE CloseAgain
    BY <2>4, ReturnReported, TerminateReported DEF CloseAgain
  <2> QED
    BY <1>2, <2>1, <2>2, <2>3, <2>4 DEF Scan
<1>3. CASE Confirm
  BY <1>3, OnwardReported, ReturnReported
     DEF Confirm, DryRun, Decline, Accept, Goto, NoFault
<1>4. CASE Backup
  <2>1. CASE OpenBackup
    BY <2>1, OnwardReported, SilentReported, TerminateReported
       DEF OpenBackup, Goto, NoFault, Silent
  <2>2. CASE CopyBackup
    BY <2>2, OnwardReported, TerminateReported DEF CopyBackup, Goto, NoFault
  <2>3. CASE NoBackup \/ CopyEnd
    BY <2>3, OnwardReported DEF NoBackup, CopyEnd, Goto, NoFault
  <2> QED
    BY <1>4, <2>1, <2>2, <2>3 DEF Backup
<1>5. CASE Replace
  <2>1. CASE ReplaceLine
    BY <2>1, OnwardReported, SilentReported
       DEF ReplaceLine, WriteString, Goto, NoFault, Silent
  <2>2. CASE ReplaceFail
    BY <2>2, SilentReported, ReturnReported DEF ReplaceFail, Goto
  <2>3. CASE Rewind \/ ReplaceEnd
    BY <2>3, OnwardReported DEF Rewind, ReplaceEnd, Goto, NoFault
  <2> QED
    BY <1>5, <2>1, <2>2, <2>3 DEF Replace
<1>6. CASE Overwrite
  <2>1. CASE Close
    <3>1. pc = "close" /\ pc' = "idle" /\ UNCHANGED <<failure_flag, status>>
      BY <2>1 DEF Close, Return
    <3>2. CASE NoFault
      BY <3>1, <3>2, OnwardReported DEF NoFault
    <3>3. CASE Fault("flush")
      BY <3>1, <3>3, SilentReported DEF Silent
    <3> QED
      BY <2>1, <3>2, <3>3 DEF Close
  <2>2. CASE Reopen \/ WriteChunk \/ WriteEnd
    BY <2>2, OnwardReported, ReturnReported DEF Reopen, WriteChunk, WriteEnd, Goto, NoFault
  <2>3. CASE WriteFail
    BY <2>3, ReturnReported DEF WriteFail
  <2> QED
    BY <1>6, <2>1, <2>2, <2>3 DEF Overwrite
<1>7. CASE Exit
  BY <1>7 DEF Exit, Terminate, NoFault, RInv, Reported, ExitReportsError
<1>8. CASE Crash
  BY <1>8, TerminateReported DEF Crash
<1>9. CASE Rerun
  BY <1>9 DEF Rerun, RInv, Reported, ExitReportsError
<1>10. CASE UNCHANGED vars
  BY <1>10 DEF vars, program, history, RInv, Reported, ExitReportsError
<1> QED
  BY <1>1, <1>2, <1>3, <1>4, <1>5, <1>6, <1>7, <1>8, <1>9, <1>10 DEF Next

\* Whatever fails, over any number of files and runs: unless one of the failures
\* is of the kind nobody looks at, the exit status is 1 exactly if one happened.
THEOREM ExitAlwaysReports == Spec => []ExitReportsError
<1>1. Init => RInv
  BY DEF Init, RInv, Reported, ExitReportsError
<1>2. RInv => ExitReportsError
  BY DEF RInv
<1> QED
  BY <1>1, <1>2, ReportedStep, PTL DEF Spec

-----------------------------------------------------------------------------
(* What success means, and which files are left alone.                     *)

\* A call is under way.
Inside == pc \notin {"idle", "ended"}

\* The output while it is written: as many lines as were read, each replaced.
\* After a silent failure nothing is said.
OutInv ==
  orig # <<>> /\ faulted \cap Silent = {} =>
    /\ Inside => view = orig
    /\ pc \in {"scan", "found", "backup", "copy", "rewind"} => out = <<>>
    /\ pc = "replace" => /\ Len(out) = at
                         /\ \A i \in 1 .. at : out[i] = Subst[orig[i]]
    /\ pc \in {"reopen", "write"} \/ (pc = "close" /\ found_flag) => out = Replaced(orig)

\* A step that leaves the lines and the output alone.
LEMMA OutSame ==
  ASSUME OutInv, UNCHANGED <<orig, view, out>>, faulted \subseteq faulted',
         \/ pc' \in {"idle", "ended", "again"} /\ Inside
         \/ pc' \in {"idle", "ended"}
         \/ /\ pc \in {"scan", "found", "backup", "copy", "rewind"}
            /\ pc' \in {"scan", "found", "backup", "copy", "rewind"}
         \/ pc = "scan" /\ pc' = "close" /\ ~found_flag'
         \/ pc \in {"reopen", "write"} /\ pc' \in {"write", "close"}
  PROVE  OutInv'
BY DEF OutInv, Inside

\* The backup leaves the output alone.
LEMMA OutBackup ==
  ASSUME OutInv, Backup
  PROVE  OutInv'
<1>1. /\ UNCHANGED <<orig, view, out>> /\ faulted \subseteq faulted'
      /\ pc \in {"backup", "copy"} /\ pc' \in {"copy", "rewind", "ended"}
  BY DEF Backup, NoBackup, OpenBackup, CopyBackup, CopyEnd, Fixed, file_local, Goto,
         Terminate, NoFault, Fault
<1> QED
  BY <1>1, OutSame

\* The replacement writes a line for every line it reads.
LEMMA OutReplace ==
  ASSUME TypeOK, SafeInv, OutInv, Replace
  PROVE  OutInv'
<1>1. CASE Rewind
  <2>1. disk[cur] = orig
    BY <1>1 DEF Rewind, SafeInv, Phase
  <2>2. /\ UNCHANGED <<orig, view, out, faulted>> /\ at' = 0 /\ pc = "rewind"
        /\ pc' = "replace"
    BY <1>1, <2>1 DEF Rewind, Goto, NoFault
  <2> QED
    BY <2>2 DEF OutInv, Inside
<1>2. CASE ReplaceLine
  <2> SUFFICES ASSUME orig # <<>>, faulted' \cap Silent = {}
               PROVE  /\ view' = orig /\ Len(out') = at'
                      /\ \A i \in 1 .. at' : out'[i] = Subst[orig[i]]
    BY <1>2 DEF ReplaceLine, Fixed, Goto, OutInv
  <2>1. /\ pc = "replace" /\ at' = at + 1 /\ view' = view /\ at \in Nat
        /\ out' = Append(out, Subst[view[at + 1]]) /\ NoFault /\ out \in Seq(Lines)
        /\ Subst[view[at + 1]] \in Lines
    <3>1. ~ Fault("tmpfull")
      BY DEF Fault, Silent
    <3>2. at + 1 \in 1 .. Len(view) /\ view \in Seq(Lines)
      BY <1>2 DEF ReplaceLine, TypeOK
    <3> QED
      BY <1>2, <3>1, <3>2, LineAssumption DEF ReplaceLine, WriteString, TypeOK, Fixed
  <2>2. /\ view = orig /\ Len(out) = at
        /\ \A i \in 1 .. at : out[i] = Subst[orig[i]]
    BY <1>2, <2>1 DEF OutInv, Inside, NoFault
  <2>3. Len(out') = at' /\ out'[at + 1] = Subst[orig[at + 1]]
        /\ \A i \in 1 .. at : out'[i] = out[i]
    BY <2>1, <2>2
  <2> QED
    BY <2>1, <2>2, <2>3
<1>3. CASE ReplaceEnd
  <2>1. /\ UNCHANGED <<orig, view, out, faulted>> /\ pc = "replace" /\ pc' = "reopen"
        /\ at = Len(view)
    BY <1>3 DEF ReplaceEnd, Fixed, file_local, Goto, NoFault
  <2>2. ASSUME orig # <<>>, faulted \cap Silent = {} PROVE out = Replaced(orig)
    <3>1. /\ view = orig /\ Len(out) = Len(orig) /\ out \in Seq(Lines)
          /\ \A i \in 1 .. Len(orig) : out[i] = Subst[orig[i]]
          /\ orig \in Seq(Lines)
      BY <2>1, <2>2 DEF OutInv, Inside, TypeOK
    <3> QED
      BY <3>1 DEF Replaced
  <2> QED
    BY <2>1, <2>2 DEF OutInv, Inside
<1>4. CASE ReplaceFail
  BY <1>4, OutSame DEF ReplaceFail, Fixed, file_local, Goto, Return, Fault, Inside
<1> QED
  BY <1>1, <1>2, <1>3, <1>4 DEF Replace

\* Every step keeps the output in order.
LEMMA OutStep ==
  ASSUME TypeOK, SafeInv, OutInv, [Next]_vars
  PROVE  OutInv'
<1>1. ASSUME NEW n \in DOMAIN disk, Begin(n) PROVE OutInv'
  <2>1. CASE pc' = "scan" /\ orig' = disk[n] /\ view' \in Views(disk[n]) /\ out' = <<>>
    BY <2>1 DEF Views, OutInv, Inside
  <2>2. CASE pc' = "idle" /\ UNCHANGED <<orig, view, out>> /\ faulted \subseteq faulted'
    BY <2>2, OutSame
  <2> QED
    BY <1>1, <2>1, <2>2 DEF Begin, Goto, Return, Fault
<1>2. CASE Scan
  <2>1. /\ UNCHANGED <<orig, view, out>> /\ faulted \subseteq faulted'
        /\ pc \in {"scan", "again"} /\ (pc = "again" => pc' \in {"idle", "ended"})
    BY <1>2 DEF Scan, ScanLine, Scanning, ScanEnd, ScanFail, CloseAgain, Fixed, file_local,
                Return, Terminate, NoFault, Fault
  <2> QED
    BY <1>2, <2>1, ScanNext, OutSame DEF Inside
<1>3. CASE Confirm
  BY <1>3, OutSame DEF Confirm, DryRun, Decline, Accept, Fixed, file_local, Goto, Return,
                       NoFault, Inside
<1>4. CASE Overwrite
  <2>1. /\ UNCHANGED <<orig, view, out>> /\ faulted \subseteq faulted'
        /\ pc \in {"reopen", "write", "close"}
        /\ pc' \in {"idle", "write", "close"} /\ (pc = "close" => pc' = "idle")
    BY <1>4 DEF Overwrite, Reopen, WriteChunk, WriteFail, WriteEnd, Close, Fixed,
                file_local, Goto, Return, NoFault, Fault
  <2> QED
    BY <2>1, OutSame DEF Inside
<1>5. CASE Exit \/ Crash \/ Rerun
  BY <1>5, OutSame DEF Exit, Crash, Rerun, Fixed, file_local, Terminate, NoFault, Fault,
                       OutInv, Inside
<1>6. CASE UNCHANGED vars
  BY <1>6 DEF vars, file_local, history, OutInv, Inside
<1> QED
  BY <1>1, <1>2, <1>3, <1>4, <1>5, <1>6, OutBackup, OutReplace DEF Next

\* process_file returns SUCCESS for a file with a match only when the disk has
\* the whole file with every line replaced.
THEOREM SuccessAlwaysMeansReplaced ==
  ASSUME SimpleSuffix # <<>>
  PROVE  Spec => SuccessMeansReplaced
<1>1. Spec => [](TypeOK /\ SafeInv)
  BY SafeInvariant
<1>2. Init => OutInv
  BY DEF Init, OutInv, Inside
<1>3. ASSUME TypeOK, SafeInv, OutInv, [Next]_vars
      PROVE  [pc = "close" /\ found_flag /\ pc' = "idle" /\ orig # <<>>
                /\ faulted' \cap Silent = {} => disk'[cur] = Replaced(orig)]_vars
  <2> SUFFICES ASSUME pc = "close", found_flag, pc' = "idle", orig # <<>>,
                      faulted' \cap Silent = {}
               PROVE  disk'[cur] = Replaced(orig)
    OBVIOUS
  <2>1. Close
    BY <1>3 DEF Next, Begin, Scan, ScanLine, Scanning, ScanEnd, ScanFail, CloseAgain,
                Confirm, DryRun, Decline, Accept, Backup, NoBackup, OpenBackup,
                CopyBackup, CopyEnd, Replace, Rewind, ReplaceLine, ReplaceEnd, ReplaceFail,
                Overwrite, Reopen, WriteChunk, WriteFail, WriteEnd, Exit, Crash, Terminate,
                Rerun, vars
  <2>2. NoFault /\ disk' = Stored(cur, out)
    BY <2>1 DEF Close, Fault, Silent
  <2>3. out = Replaced(orig)
    BY <1>3, <2>2 DEF OutInv, NoFault
  <2> QED
    BY <2>2, <2>3 DEF Stored
<1> QED
  BY <1>1, <1>2, <1>3, OutStep, PTL DEF Spec, SuccessMeansReplaced

-----------------------------------------------------------------------------
\* Without --binary the search has looked at all lines before anything is written.
Looked ==
  ~opts.binary /\ orig # <<>> =>
    /\ pc = "scan" => view = orig /\ \A i \in 1 .. at : orig[i] \notin NulLines
    /\ Inside /\ pc \notin {"scan", "again"}
         => \A i \in DOMAIN orig : orig[i] \notin NulLines

\* The search looks at every line.
LEMMA LookedScan ==
  ASSUME TypeOK, Looked, Scan
  PROVE  Looked'
<1>0. UNCHANGED <<opts, orig, view>> /\ at \in Nat
  <2>1. UNCHANGED <<opts, orig, view>>
    BY DEF Scan, ScanLine, ScanEnd, ScanFail, CloseAgain, Fixed
  <2>2. at \in Nat
    BY DEF TypeOK
  <2> QED
    BY <2>1, <2>2
<1>1. CASE ScanLine
  <2>1. CASE pc' = "idle"
    BY <1>0, <2>1 DEF Looked, Inside
  <2>2. CASE pc' = "scan" /\ (opts.binary \/ view[at + 1] \notin NulLines)
    <3>1. pc = "scan" /\ at' = at + 1
      BY <1>1 DEF ScanLine, Scanning
    <3> QED
      BY <1>0, <2>2, <3>1 DEF Looked
  <2> QED
    BY <1>1, <2>1, <2>2 DEF ScanLine, Goto, Return
<1>2. CASE ScanEnd
  <2>1. pc = "scan" /\ UNCHANGED at /\ (opts.binary \/ at = Len(view)) /\ pc' # "scan"
    BY <1>2 DEF ScanEnd, file_local, Goto
  <2> QED
    BY <1>0, <2>1 DEF Looked, TypeOK
<1>3. CASE ScanFail \/ CloseAgain
  BY <1>0, <1>3 DEF ScanFail, CloseAgain, Goto, Return, Terminate, Looked, Inside
<1> QED
  BY <1>1, <1>2, <1>3 DEF Scan

\* Every other step of a call keeps the options and the content.
LEMMA LookedCall ==
  ASSUME Looked, Confirm \/ Backup \/ Replace \/ Overwrite
  PROVE  Looked'
<1>1. /\ UNCHANGED <<opts, orig>> /\ Inside /\ pc \notin {"scan", "again"} /\ pc' # "scan"
  BY DEF Confirm, DryRun, Decline, Accept, Backup, NoBackup, OpenBackup, CopyBackup,
         CopyEnd, Replace, Rewind, ReplaceLine, ReplaceEnd, ReplaceFail, Overwrite, Reopen,
         WriteChunk, WriteFail, WriteEnd, Close, Fixed, Goto, Return, Terminate, Inside
<1> QED
  BY <1>1 DEF Looked

\* Every step keeps what has been looked at.
LEMMA LookedStep ==
  ASSUME TypeOK, Looked, [Next]_vars
  PROVE  Looked'
<1>1. ASSUME NEW n \in DOMAIN disk, Begin(n) PROVE Looked'
  <2>1. CASE /\ pc' = "scan" /\ orig' = disk[n] /\ view' \in Views(disk[n])
             /\ at' = 0 /\ UNCHANGED opts
    BY <2>1 DEF Views, Looked, Inside
  <2>2. CASE pc' = "idle"
    BY <2>2 DEF Looked, Inside
  <2> QED
    BY <1>1, <2>1, <2>2 DEF Begin, Goto, Return
<1>2. CASE Exit \/ Crash \/ Rerun
  BY <1>2 DEF Exit, Crash, Rerun, Terminate, Looked, Inside
<1>3. CASE UNCHANGED vars
  BY <1>3 DEF vars, file_local, history, Looked, Inside
<1> QED
  BY <1>1, <1>2, <1>3, LookedScan, LookedCall DEF Next

\* Without --binary a file with a null character is never written, even if the
\* pattern matches before the null character.
THEOREM BinaryAlwaysUntouched == Spec => BinaryUntouched
<1>1. Init => Looked
  BY DEF Init, Looked, Inside
<1>2. ASSUME TypeOK, Looked, [Next]_vars
      PROVE  [~opts.binary /\ disk'[cur] # disk[cur] /\ orig # <<>>
                => \A i \in DOMAIN orig : orig[i] \notin NulLines]_vars
  <2> SUFFICES ASSUME ~opts.binary, disk' # disk, orig # <<>>
               PROVE  \A i \in DOMAIN orig : orig[i] \notin NulLines
    OBVIOUS
  <2>1. Backup \/ Overwrite
    BY <1>2 DEF Next, Begin, Scan, ScanLine, ScanEnd, ScanFail, CloseAgain, Confirm,
                DryRun, Decline, Accept, Replace, Rewind, ReplaceLine, ReplaceEnd,
                ReplaceFail, Exit, Crash, Rerun, vars
  <2>2. Inside /\ pc \notin {"scan", "again"}
    BY <2>1 DEF Backup, NoBackup, OpenBackup, CopyBackup, CopyEnd, Overwrite, Reopen,
                WriteChunk, WriteFail, WriteEnd, Close, Inside
  <2> QED
    BY <1>2, <2>2 DEF Looked
<1> QED
  BY <1>1, <1>2, TypeCorrect, LookedStep, PTL DEF Spec, BinaryUntouched
=============================================================================
