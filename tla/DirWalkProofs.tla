--------------------------- MODULE DirWalkProofs ---------------------------
(***************************************************************************)
(* Proofs about DirWalk, for every tree, every list of arguments, every    *)
(* order of the entries, every fault and every limit: the types, the       *)
(* working directory, the failures, how often each file is processed, and  *)
(* the times.                                                              *)
(***************************************************************************)
EXTENDS DirWalk, TLAPS, FiniteSetTheorems

-----------------------------------------------------------------------------
(* The stack of calls as a sequence.                                        *)

\* Pushing a frame, and what is the top then.
LEMMA Pushed ==
  ASSUME NEW S, NEW s \in Seq(S), NEW x \in S
  PROVE  /\ Append(s, x) \in Seq(S) /\ Append(s, x) # <<>>
         /\ Len(Append(s, x)) = Len(s) + 1
         /\ \A i \in 1..Len(s) : Append(s, x)[i] = s[i]
         /\ Last(Append(s, x)) = x
         /\ Front(Append(s, x)) = s
BY DEF Last, Front

\* Popping one.
LEMMA Popped ==
  ASSUME NEW S, NEW s \in Seq(S), s # <<>>
  PROVE  /\ Front(s) \in Seq(S) /\ Last(s) \in S
         /\ Len(s) \in Nat \ {0} /\ Len(Front(s)) = Len(s) - 1
         /\ \A i \in 1..Len(s) - 1 : Front(s)[i] = s[i]
<1>1. Len(s) \in Nat \ {0}
  OBVIOUS
<1>2. Front(s) \in Seq(S)
  BY <1>1 DEF Front
<1>3. Last(s) \in S
  BY <1>1 DEF Last
<1>4. Len(Front(s)) = Len(s) - 1
  <2> DEFINE n == Len(s) - 1
  <2>1. n \in Nat /\ n <= Len(s)
    BY <1>1
  <2>2. Front(s) = [i \in 1..n |-> s[i]]
    BY <2>1 DEF Front
  <2>3. Len(Front(s)) = n
    BY <1>2, <2>1, <2>2
  <2> QED
    BY <2>3
<1>5. \A i \in 1..Len(s) - 1 : Front(s)[i] = s[i]
  BY <1>1 DEF Front
<1> QED
  BY <1>1, <1>2, <1>3, <1>4, <1>5

\* Replacing the top.
LEMMA Replaced ==
  ASSUME NEW S, NEW s \in Seq(S), NEW x \in S, s # <<>>
  PROVE  LET t == Append(Front(s), x)
         IN  /\ t \in Seq(S) /\ t # <<>> /\ Len(t) = Len(s) /\ Last(t) = x
             /\ \A i \in 1..Len(s) - 1 : t[i] = s[i]
<1>1. Front(s) \in Seq(S) /\ Len(s) \in Nat \ {0} /\ Len(Front(s)) = Len(s) - 1
      /\ \A i \in 1..Len(s) - 1 : Front(s)[i] = s[i]
  BY Popped
<1> QED
  BY <1>1, Pushed

-----------------------------------------------------------------------------
(* Type correctness.                                                        *)

\* Only a call of process_dir needs an argument that is being walked, and its
\* loop a frame.
WInv ==
  /\ TypeOK
  /\ pc \in {"open", "dir", "return"} => arg <= Len(args)
  /\ pc = "list" => stack = <<>>
  /\ pc = "dir" => stack # <<>>

\* At first nothing is walked.
LEMMA WalkInit == Init => WInv
<1> SUFFICES ASSUME Init PROVE WInv
  OBVIOUS
<1>1. args \in Seq(Seq(Names)) /\ Len(args) \in Nat
  BY WalkAssumption DEF Init
<1>2. Cardinality(faulted) <= MaxFaults /\ faulted \subseteq Faults
  <2>1. CASE omit_dir_flag
    <3>1. faulted = {"savedir"} /\ "savedir" \in Faults /\ MaxFaults > 0
      BY <2>1 DEF Init
    <3>2. Cardinality(faulted) = 1
      BY <3>1, FS_Singleton
    <3> QED
      BY <3>1, <3>2, WalkAssumption
  <2>2. CASE ~omit_dir_flag
    BY <2>2, FS_EmptySet, WalkAssumption DEF Init
  <2> QED
    BY <2>1, <2>2 DEF Init
<1>3. TypeOK
  <2>1. time \in [Nodes -> Nodes \cup {Now}] /\ count \in [tree.files -> Nat]
    BY DEF Init
  <2>2. cwd \in Seq(Names) /\ relative_path \in Seq(Names) /\ stack \in Seq(Frames)
    BY DEF Init
  <2>3. arg \in 1..Len(args) + 1 /\ streams \in 0..FdLimit
    BY <1>1, WalkAssumption DEF Init
  <2>4. failure_flag \in BOOLEAN /\ saved \in Times /\ ret \in BOOLEAN
    BY DEF Init, Times
  <2> QED
    BY <1>2, <2>1, <2>2, <2>3, <2>4 DEF Init, TypeOK
<1> QED
  BY <1>3 DEF Init, WInv

\* What the walk may do to one frame and to the rest of the state.
LEMMA SetTopType ==
  ASSUME stack \in Seq(Frames), stack # <<>>, NEW f \in Frames, SetTop(f)
  PROVE  stack' \in Seq(Frames) /\ stack' # <<>>
BY Replaced DEF SetTop

\* What the processing of a file leaves behind.
LEMMA HandleFileType ==
  ASSUME TypeOK, NEW p, NEW S, NEW failed, HandleFile(p, S, failed)
  PROVE  /\ count' \in [tree.files -> Nat]
         /\ time' \in [Nodes -> Nodes \cup {Now}]
         /\ faulted' \subseteq Faults /\ Cardinality(faulted') <= MaxFaults
<1>1. count' \in [tree.files -> Nat]
  BY DEF HandleFile, TypeOK
<1>2. time' \in [Nodes -> Nodes \cup {Now}]
  BY DEF HandleFile, TypeOK
<1>3. faulted' \subseteq Faults /\ Cardinality(faulted') <= MaxFaults
  BY DEF HandleFile, TypeOK, Strikes
<1> QED
  BY <1>1, <1>2, <1>3

\* What utime leaves behind.
LEMMA RestoreType ==
  ASSUME TypeOK, NEW p, NEW t \in Times, NEW failed, Restore(p, t, failed)
  PROVE  /\ time' \in [Nodes -> Nodes \cup {Now}]
         /\ faulted' \subseteq Faults /\ Cardinality(faulted') <= MaxFaults
BY DEF Restore, TypeOK, Strikes, Times

\* The call on top, and its callers.
LEMMA TopType ==
  ASSUME TypeOK, stack # <<>>
  PROVE  Top \in Frames /\ Front(stack) \in Seq(Frames)
BY Popped DEF TypeOK, Top

\* The frame keeps its type when an entry has been dealt with.
LEMMA EntryType ==
  ASSUME TypeOK, NEW e \in Names, NEW failed \in BOOLEAN, stack # <<>>,
         Consumed(e, failed)
  PROVE  stack' \in Seq(Frames) /\ stack' # <<>>
<1>1. Top \in Frames
  BY TopType
<1>2. [Top EXCEPT !.left = @ \ {e}, !.failed = @ \/ failed] \in Frames
  BY <1>1 DEF Frames
<1> QED
  BY <1>2, SetTopType DEF Consumed, TypeOK

\* The parts of TypeOK that a step may disturb, and those it never does.
LEMMA SameTypes ==
  ASSUME TypeOK, UNCHANGED fixed
  PROVE  /\ Nodes' = Nodes /\ Times' = Times /\ Frames' = Frames
         /\ tree' \in Trees /\ args' \in ArgLists /\ keep' \in BOOLEAN
         /\ omit_dir_flag' \in BOOLEAN
BY DEF TypeOK, fixed, Nodes, Times, Frames

\* Every step keeps the types, action by action.
LEMMA WalkStep == WInv /\ [Next]_vars => WInv'
<1> SUFFICES ASSUME WInv, [Next]_vars PROVE WInv'
  OBVIOUS
<1> USE DEF WInv
<1>a. TypeOK /\ Len(args) \in Nat
  BY WalkAssumption DEF TypeOK
<1>b. ASSUME UNCHANGED fixed
      PROVE  /\ Nodes' = Nodes /\ Times' = Times /\ Frames' = Frames
             /\ tree' = tree /\ args' = args
             /\ tree' \in Trees /\ args' \in ArgLists /\ keep' \in BOOLEAN
             /\ omit_dir_flag' \in BOOLEAN
  BY <1>a, <1>b, SameTypes DEF fixed
<1>s. ASSUME NEW S, Strikes(S)
      PROVE  faulted' \subseteq Faults /\ Cardinality(faulted') <= MaxFaults
  BY <1>s, <1>a DEF Strikes, TypeOK
<1>t. ASSUME stack # <<>> PROVE Top \in Frames /\ Front(stack) \in Seq(Frames)
  BY <1>a, <1>t, TopType
<1>i. ASSUME NEW n \in Nodes PROVE IfKept({time[n]}) \in Times
  BY <1>a DEF IfKept, Times, TypeOK
<1>1. CASE ArgFails
  BY <1>1, <1>a, <1>b, <1>s DEF ArgFails, Listing, NextArg, walk, TypeOK
<1>2. CASE ArgSkipped
  BY <1>2, <1>a, <1>b, <1>s DEF ArgSkipped, Listing, NextArg, walk, TypeOK
<1>3. CASE ListFile
  <2>1. PICK S \in SUBSET ({"file"} \cup IfKept({"utime"})), failed \in BOOLEAN :
          HandleFile(Arg, S, failed) /\ NextArg(failed)
    BY <1>3 DEF ListFile
  <2> QED
    BY <1>3, <2>1, <1>a, <1>b, HandleFileType DEF ListFile, Listing, NextArg, walk, TypeOK
<1>4. CASE ListDir
  <2>1. Arg \in tree.dirs /\ Arg \in Nodes /\ Arg \in Seq(Names) /\ saved' \in Times
    BY <1>4, <1>a, <1>i, TreeAssumption DEF ListDir, TypeOK, Nodes
  <2> QED
    BY <1>4, <2>1, <1>a, <1>b, <1>s DEF ListDir, Listing, TypeOK
<1>5. CASE BackToList
  <2>1. PICK failed \in BOOLEAN : Restore(Arg, saved, failed) /\ NextArg(ret \/ failed)
    BY <1>5 DEF BackToList
  <2>2. saved \in Times
    BY <1>a DEF TypeOK
  <2>3. /\ time' \in [Nodes -> Nodes \cup {Now}]
        /\ faulted' \subseteq Faults /\ Cardinality(faulted') <= MaxFaults
    BY <2>1, <2>2, <1>a, RestoreType
  <2>4. arg' \in 1..Len(args) + 1 /\ failure_flag' \in BOOLEAN
    BY <1>5, <2>1, <1>a DEF BackToList, NextArg, TypeOK
  <2>5. cwd' \in Seq(Names)
    BY <1>5 DEF BackToList
  <2> QED
    BY <1>5, <2>2, <2>3, <2>4, <2>5, <1>a, <1>b DEF BackToList, TypeOK
<1>6. CASE BackToListFails
  BY <1>6, <1>a, <1>b, <1>s DEF BackToListFails, TypeOK
<1>7. CASE Finish
  BY <1>7, <1>a, <1>b DEF Finish, list, TypeOK
<1>8. CASE OpenDir
  <2> DEFINE f == [path |-> relative_path, dir |-> cwd, left |-> Entries(cwd),
                   failed |-> FALSE, entry |-> CHOOSE n \in Names : TRUE, saved |-> {}]
  <2>1. f \in Frames
    BY <1>a, WalkAssumption DEF Frames, Times, TypeOK, Entries
  <2>2. stack' \in Seq(Frames) /\ stack' # <<>>
    BY <1>8, <1>a, <2>1, Pushed DEF OpenDir, TypeOK
  <2>3. streams' \in 0..FdLimit
    BY <1>8, <1>a, WalkAssumption DEF OpenDir, FreeStream, TypeOK
  <2>4. time' \in [Nodes -> Nodes \cup {Now}]
    BY <1>8, <1>a DEF OpenDir, TypeOK
  <2> QED
    BY <1>8, <2>2, <2>3, <2>4, <1>a, <1>b, <1>s DEF OpenDir, list, TypeOK
<1>9. CASE OpenDirFails
  BY <1>9, <1>a, <1>b, <1>s DEF OpenDirFails, list, TypeOK
<1>10. CASE EndDir
  BY <1>10, <1>a, <1>b, <1>t DEF EndDir, ReturnFromDir, list, TypeOK, Frames
<1>11. CASE UpDir
  <2>1. PICK failed \in BOOLEAN :
          /\ Restore(Append(Front(cwd), Top.entry), Top.saved, failed)
          /\ SetTop([Top EXCEPT !.failed = @ \/ ret \/ failed])
    BY <1>11 DEF UpDir
  <2>2. Top \in Frames /\ Top.saved \in Times
    BY <1>11, <1>t DEF UpDir, Frames
  <2>3. [Top EXCEPT !.failed = @ \/ ret \/ failed] \in Frames
    BY <2>2 DEF Frames
  <2>4. stack' \in Seq(Frames) /\ stack' # <<>>
    BY <1>11, <1>a, <2>1, <2>3, SetTopType DEF UpDir, TypeOK
  <2>5. Front(cwd) \in Seq(Names)
    BY <1>a DEF TypeOK, Front
  <2> QED
    BY <1>11, <2>1, <2>2, <2>4, <2>5, <1>a, <1>b, RestoreType DEF UpDir, list, TypeOK
<1>12. CASE UpDirFails
  BY <1>12, <1>a, <1>b, <1>s, <1>t DEF UpDirFails, ReturnFromDir, list, TypeOK
<1>13. ASSUME NEW e \in Names, WalkFile(e) PROVE WInv'
  <2>1. PICK S \in SUBSET ({"file"} \cup IfKept({"lstat", "utime"})), failed \in BOOLEAN :
          HandleFile(Append(cwd, e), S, failed) /\ Consumed(e, failed)
    BY <1>13 DEF WalkFile
  <2>2. stack # <<>>
    BY <1>13 DEF WalkFile, Delivers
  <2>3. stack' \in Seq(Frames) /\ stack' # <<>>
    BY <1>a, <2>1, <2>2, EntryType
  <2> QED
    BY <1>13, <2>1, <2>3, <1>a, <1>b, HandleFileType DEF WalkFile, Delivers, list, TypeOK
<1>14. ASSUME NEW e \in Names, WalkSkip(e) PROVE WInv'
  <2>1. stack' \in Seq(Frames) /\ stack' # <<>>
    BY <1>14, <1>a, EntryType DEF WalkSkip, Delivers
  <2> QED
    BY <1>14, <2>1, <1>a, <1>b, <1>s DEF WalkSkip, Delivers, list, TypeOK
<1>15. ASSUME NEW e \in Names, Descend(e) PROVE WInv'
  <2> DEFINE there == Append(cwd, e)
             f(S) == [Top EXCEPT !.left = @ \ {e}, !.failed = @ \/ S # {}, !.entry = e,
                        !.saved = IF S = {} THEN IfKept({time[there]}) ELSE {}]
  <2>1. PICK S : Strikes(S) /\ SetTop(f(S))
    BY <1>15 DEF Descend
  <2>2. stack # <<>> /\ Top \in Frames /\ there \in tree.dirs
    BY <1>15, <1>t DEF Descend, Delivers
  <2>3. IfKept({time[there]}) \in Times /\ {} \in Times
    BY <2>2, <1>i DEF Nodes, Times
  <2>4. f(S) \in Frames
    BY <2>2, <2>3 DEF Frames
  <2>5. stack' \in Seq(Frames) /\ stack' # <<>>
    BY <1>a, <2>1, <2>2, <2>4, SetTopType DEF TypeOK
  <2>6. there \in Seq(Names) /\ Append(Top.path, e) \in Seq(Names)
    BY <2>2, <1>a DEF Frames, TypeOK
  <2> QED
    BY <1>15, <2>1, <2>5, <2>6, <1>a, <1>b, <1>s DEF Descend, Delivers, list, TypeOK
<1>16. ASSUME NEW e \in Names, DescendFails(e) PROVE WInv'
  <2>1. stack' \in Seq(Frames) /\ stack' # <<>>
    BY <1>16, <1>a, EntryType DEF DescendFails, Delivers
  <2> QED
    BY <1>16, <2>1, <1>a, <1>b, <1>s DEF DescendFails, Delivers, list, TypeOK
<1>17. ASSUME NEW e \in Names, NoPath(e) PROVE WInv'
  <2>1. stack # <<>> /\ Append(cwd, e) \in Seq(Names)
    BY <1>17, <1>a DEF NoPath, Delivers, TypeOK
  <2> QED
    BY <1>17, <2>1, <1>a, <1>b, <1>s, <1>t DEF NoPath, Delivers, ReturnFromDir, list, TypeOK
<1>18. CASE UNCHANGED vars
  BY <1>18, <1>a, <1>b DEF vars, walk, list, TypeOK
<1> QED
  BY <1>1, <1>2, <1>3, <1>4, <1>5, <1>6, <1>7, <1>8, <1>9, <1>10, <1>11, <1>12,
     <1>13, <1>14, <1>15, <1>16, <1>17, <1>18 DEF Next, Walk

\* The variables of the walk keep their types: in particular no more streams are
\* opened than there are, and no argument is taken from behind the list.
THEOREM WalkTypeCorrect == Spec => []TypeOK
<1>1. Init => WInv
  BY WalkInit
<1>2. WInv /\ [Next]_vars => WInv'
  BY WalkStep
<1>3. WInv => TypeOK
  BY DEF WInv
<1> QED
  BY <1>1, <1>2, <1>3, PTL DEF Spec

-----------------------------------------------------------------------------
(* The working directory.                                                   *)

\* Each frame has the path of the directory it reads, and each but the first
\* reads the directory that the frame below it has recursed into.
Sound(st) ==
  /\ \A i \in 1..Len(st) : st[i].path = st[i].dir
  /\ \A i \in 1..Len(st) - 1 : st[i + 1].dir = Append(st[i].dir, st[i].entry)

\* The directory that a new or a returning call has for its working directory.
Below(st, d) == st # <<>> => d = Append(Last(st).dir, Last(st).entry)

\* The inductive invariant: where the working directory is, as long as no call
\* has returned from a directory without going up.
Placed ==
  /\ Sound(stack)
  /\ pc = "dir" => Top.dir = cwd
  /\ pc = "open" => relative_path = cwd
  /\ pc \in {"open", "return"} => Below(stack, cwd)

\* The inductive invariant: a walk that is not stranded is in its place.
PInv == faulted \cap Stranding = {} => Placed

\* A call for a directory below that of its caller keeps the path.
LEMMA SoundPush ==
  ASSUME NEW st \in Seq(Frames), NEW f \in Frames,
         Sound(st), f.path = f.dir, Below(st, f.dir)
  PROVE  Sound(Append(st, f))
<1> DEFINE t == Append(st, f)
<1>1. /\ t \in Seq(Frames) /\ Len(t) = Len(st) + 1 /\ t[Len(t)] = f
      /\ \A i \in 1..Len(st) : t[i] = st[i]
      /\ Len(st) \in Nat
  BY Pushed DEF Last
<1>2. ASSUME NEW i \in 1..Len(t) PROVE t[i].path = t[i].dir
  BY <1>1, <1>2 DEF Sound
<1>3. ASSUME NEW i \in 1..Len(t) - 1 PROVE t[i + 1].dir = Append(t[i].dir, t[i].entry)
  <2>1. CASE i = Len(st)
    BY <1>1, <1>3, <2>1 DEF Below, Last
  <2>2. CASE i # Len(st)
    BY <1>1, <1>3, <2>2 DEF Sound
  <2> QED
    BY <2>1, <2>2
<1> QED
  BY <1>2, <1>3 DEF Sound

\* Returning from a call keeps the path, and what is below it is its caller.
LEMMA SoundPop ==
  ASSUME NEW st \in Seq(Frames), st # <<>>, Sound(st)
  PROVE  Sound(Front(st)) /\ Below(Front(st), Last(st).dir) /\ Last(st).path = Last(st).dir
<1> DEFINE t == Front(st)
<1>1. /\ t \in Seq(Frames) /\ Len(t) = Len(st) - 1 /\ Len(st) \in Nat \ {0}
      /\ \A i \in 1..Len(t) : t[i] = st[i]
  BY Popped
<1>2. Sound(t)
  <2>1. ASSUME NEW i \in 1..Len(t) PROVE t[i].path = t[i].dir
    BY <1>1, <2>1 DEF Sound
  <2>2. ASSUME NEW i \in 1..Len(t) - 1
        PROVE  t[i + 1].dir = Append(t[i].dir, t[i].entry)
    <3>1. i \in 1..Len(st) - 1 /\ i \in 1..Len(t) /\ i + 1 \in 1..Len(t)
      BY <1>1, <2>2
    <3> QED
      BY <1>1, <3>1 DEF Sound
  <2> HIDE DEF t
  <2> QED
    BY <2>1, <2>2 DEF Sound
<1>3. Below(t, Last(st).dir)
  BY <1>1 DEF Sound, Below, Last
<1>4. Last(st).path = Last(st).dir
  <2>1. Len(st) \in 1..Len(st)
    BY <1>1
  <2> QED
    BY <2>1 DEF Sound, Last
<1> QED
  BY <1>2, <1>3, <1>4

\* Changing the top in fields other than its directory and path.
LEMMA SoundSet ==
  ASSUME NEW st \in Seq(Frames), st # <<>>, Sound(st), NEW f \in Frames,
         f.dir = Last(st).dir, f.path = Last(st).path
  PROVE  Sound(Append(Front(st), f))
BY SoundPop, SoundPush, Popped

\* What changes of the top frame, but not its directory, keeps the path.
LEMMA SoundSetTop ==
  ASSUME stack \in Seq(Frames), stack # <<>>, Sound(stack), NEW f \in Frames,
         f.dir = Top.dir, f.path = Top.path, SetTop(f)
  PROVE  Sound(stack') /\ Last(stack') = f
<1>1. stack' = Append(Front(stack), f)
  BY DEF SetTop
<1>2. Sound(Append(Front(stack), f))
  BY SoundSet DEF Top
<1>3. Last(Append(Front(stack), f)) = f
  BY Replaced
<1> QED
  BY <1>1, <1>2, <1>3

\* The entry that was recursed into is gone from the path after chdir("..").
LEMMA UpFrom ==
  ASSUME NEW d \in Seq(Names), NEW e \in Names
  PROVE  Front(Append(d, e)) = d
BY Pushed

\* At first no call is in a directory.
LEMMA PlacedInit == Init => PInv
BY DEF Init, PInv, Placed, Sound, Below

\* Every step keeps the walk in its place, unless it strands it.
LEMMA PlacedStep == WInv /\ PInv /\ [Next]_vars => PInv'
<1> SUFFICES ASSUME WInv, PInv, [Next]_vars, faulted' \cap Stranding = {}
             PROVE  Placed'
  BY DEF PInv
<1>a. /\ TypeOK /\ cwd \in Seq(Names) /\ relative_path \in Seq(Names)
      /\ stack \in Seq(Frames)
  BY DEF WInv, TypeOK
<1>p. ASSUME faulted \subseteq faulted' PROVE Placed
  BY <1>p DEF PInv
<1>s. ASSUME NEW S, Strikes(S) PROVE Placed /\ S \cap Stranding = {}
  BY <1>s, <1>p DEF Strikes
<1>t. ASSUME stack # <<>> PROVE Top \in Frames /\ Front(stack) \in Seq(Frames)
  BY <1>a, <1>t, TopType
<1>c. ASSUME NEW e \in Names, NEW failed \in BOOLEAN, Placed, pc = "dir", pc' = pc,
             cwd' = cwd, Consumed(e, failed), stack # <<>>
      PROVE  Placed'
  <2> DEFINE f == [Top EXCEPT !.left = @ \ {e}, !.failed = @ \/ failed]
  <2>1. f \in Frames /\ f.dir = Top.dir /\ f.path = Top.path
    BY <1>c, <1>t DEF Frames
  <2>2. SetTop(f) /\ Sound(stack)
    BY <1>c DEF Consumed, Placed
  <2>3. Sound(stack') /\ Last(stack') = f
    <3> HIDE DEF f
    <3> QED
      BY <1>c, <2>1, <2>2, <1>a, SoundSetTop
  <2> QED
    BY <1>c, <2>1, <2>3 DEF Placed, Top
<1>1. CASE ArgFails
  BY <1>1, <1>s DEF ArgFails, walk, Placed, Top
<1>2. CASE ArgSkipped
  BY <1>2, <1>s DEF ArgSkipped, walk, Placed, Top
<1>3. CASE ListFile
  BY <1>3, <1>s DEF ListFile, HandleFile, walk, Placed, Top
<1>4. CASE ListDir
  <2>1. Placed /\ stack = <<>>
    BY <1>4, <1>s DEF ListDir, Listing, WInv
  <2> QED
    BY <1>4, <2>1 DEF ListDir, Placed, Top, Below
<1>5. CASE BackToList
  BY <1>5, <1>s DEF BackToList, Restore, Placed, Top
<1>6. CASE BackToListFails
  BY <1>6, <1>s DEF BackToListFails, Placed, Top
<1>7. CASE Finish
  BY <1>7, <1>p DEF Finish, Placed, Top
<1>8. CASE OpenDir
  <2> DEFINE f == [path |-> relative_path, dir |-> cwd, left |-> Entries(cwd),
                   failed |-> FALSE, entry |-> CHOOSE n \in Names : TRUE, saved |-> {}]
  <2>1. f \in Frames
    BY <1>a, WalkAssumption DEF Frames, Times, Entries
  <2>2. Placed /\ stack' = Append(stack, f) /\ f.path = f.dir /\ f.dir = cwd
    BY <1>8, <1>s DEF OpenDir, Placed
  <2>3. Sound(stack') /\ Last(stack') = f
    BY <1>8, <2>1, <2>2, <1>a, SoundPush, Pushed DEF OpenDir, Placed
  <2> QED
    BY <1>8, <2>2, <2>3 DEF OpenDir, Placed, Top
<1>9. CASE OpenDirFails
  BY <1>9, <1>s DEF OpenDirFails, Placed, Top
<1>10. CASE EndDir
  <2>1. Placed /\ stack # <<>> /\ Top.dir = cwd
    BY <1>10, <1>p DEF EndDir, WInv, Placed
  <2>2. Sound(Front(stack)) /\ Below(Front(stack), cwd)
    BY <2>1, <1>a, SoundPop DEF Placed, Top
  <2> QED
    BY <1>10, <2>2 DEF EndDir, ReturnFromDir, Placed, Top
<1>11. CASE UpDir
  <2>1. PICK failed \in BOOLEAN :
          /\ Restore(Append(Front(cwd), Top.entry), Top.saved, failed)
          /\ SetTop([Top EXCEPT !.failed = @ \/ ret \/ failed])
    BY <1>11 DEF UpDir
  <2> DEFINE f == [Top EXCEPT !.failed = @ \/ ret \/ failed]
  <2>2. Placed /\ stack # <<>> /\ Top \in Frames
    BY <1>11, <2>1, <1>s, <1>t DEF UpDir, Restore
  <2>3. f \in Frames /\ f.dir = Top.dir /\ f.path = Top.path
    BY <2>2, <1>a DEF Frames, TypeOK
  <2>4. Sound(stack') /\ Last(stack') = f
    <3>1. SetTop(f) /\ Sound(stack)
      BY <2>1, <2>2 DEF Placed
    <3> HIDE DEF f
    <3> QED
      BY <2>2, <2>3, <3>1, <1>a, SoundSetTop
  <2>5. Front(cwd) = Top.dir
    <3>1. cwd = Append(Top.dir, Top.entry)
      BY <1>11, <2>2 DEF UpDir, Placed, Below, Top
    <3> QED
      BY <3>1, <2>2, UpFrom DEF Frames
  <2> QED
    BY <1>11, <2>3, <2>4, <2>5 DEF UpDir, Placed, Top
<1>12. CASE UpDirFails
  BY <1>12, <1>s DEF UpDirFails, Stranding
<1>13. ASSUME NEW e \in Names, WalkFile(e) PROVE Placed'
  <2>1. PICK S \in SUBSET ({"file"} \cup IfKept({"lstat", "utime"})), failed \in BOOLEAN :
          HandleFile(Append(cwd, e), S, failed) /\ Consumed(e, failed)
    BY <1>13 DEF WalkFile
  <2> QED
    BY <1>13, <2>1, <1>c, <1>s DEF WalkFile, HandleFile, Delivers, WInv
<1>14. ASSUME NEW e \in Names, WalkSkip(e) PROVE Placed'
  BY <1>14, <1>c, <1>s DEF WalkSkip, Delivers, WInv
<1>15. ASSUME NEW e \in Names, Descend(e) PROVE Placed'
  <2> DEFINE there == Append(cwd, e)
             f(S) == [Top EXCEPT !.left = @ \ {e}, !.failed = @ \/ S # {}, !.entry = e,
                        !.saved = IF S = {} THEN IfKept({time[there]}) ELSE {}]
  <2>1. PICK S : Strikes(S) /\ SetTop(f(S))
    BY <1>15 DEF Descend
  <2>2. Placed /\ stack # <<>> /\ Top \in Frames /\ there \in tree.dirs /\ Top.dir = cwd
    BY <1>15, <2>1, <1>s, <1>t DEF Descend, Delivers, WInv, Placed
  <2>3. IfKept({time[there]}) \in Times /\ {} \in Times
    BY <2>2, <1>a DEF Nodes, Times, TypeOK, IfKept
  <2>4. f(S) \in Frames /\ f(S).dir = Top.dir /\ f(S).path = Top.path /\ f(S).entry = e
    BY <2>2, <2>3 DEF Frames
  <2>5. Sound(stack') /\ Last(stack') = f(S)
    <3>1. SetTop(f(S)) /\ Sound(stack)
      BY <2>1, <2>2 DEF Placed
    <3> HIDE DEF f
    <3> QED
      BY <2>2, <2>4, <3>1, <1>a, SoundSetTop
  <2>6. Top.path = Top.dir
    BY <2>2, <1>a, SoundPop DEF Placed, Top
  <2> QED
    BY <1>15, <2>2, <2>4, <2>5, <2>6 DEF Descend, Placed, Top, Below
<1>16. ASSUME NEW e \in Names, DescendFails(e) PROVE Placed'
  BY <1>16, <1>c, <1>s DEF DescendFails, Delivers, WInv
<1>17. ASSUME NEW e \in Names, NoPath(e) PROVE Placed'
  BY <1>17, <1>s DEF NoPath, Stranding
<1>18. CASE UNCHANGED vars
  BY <1>18, <1>p DEF vars, walk, Placed, Top
<1> QED
  BY <1>1, <1>2, <1>3, <1>4, <1>5, <1>6, <1>7, <1>8, <1>9, <1>10, <1>11, <1>12,
     <1>13, <1>14, <1>15, <1>16, <1>17, <1>18 DEF Next, Walk

\* Unless malloc fails after a chdir, or chdir("..") does, every entry is looked
\* up in the directory it was read from, and printed with the path of that.
THEOREM WalkInPlace == Spec => []InPlace
<1>1. Init => WInv /\ PInv
  BY WalkInit, PlacedInit
<1>2. WInv /\ PInv /\ [Next]_vars => WInv' /\ PInv'
  BY WalkStep, PlacedStep
<1>3. WInv /\ PInv => InPlace
  <2> SUFFICES ASSUME WInv, PInv, pc = "dir", faulted \cap Stranding = {}
               PROVE  Top.dir = cwd /\ Top.path = cwd
    BY DEF InPlace
  <2>1. Placed /\ stack # <<>> /\ stack \in Seq(Frames)
    BY DEF PInv, WInv, TypeOK
  <2> QED
    BY <2>1, SoundPop DEF Placed, Top
<1> QED
  BY <1>1, <1>2, <1>3, PTL DEF Spec

-----------------------------------------------------------------------------
(* Failures.                                                                *)

\* A call that is active has noted a failure.
FailedIn(st) == \E k \in 1..Len(st) : st[k].failed

\* Somewhere on the way up to the exit status a failure is noted.
Noted == failure_flag \/ (pc = "return" /\ ret) \/ FailedIn(stack)

\* The inductive invariant: no fault but DT_UNKNOWN is forgotten.
FInv ==
  /\ faulted \ {"unknown"} # {} => Noted
  /\ omit_dir_flag => failure_flag
  /\ pc = "done" => stack = <<>>

\* A call adds its own failure.
LEMMA FailedPush ==
  ASSUME NEW st \in Seq(Frames), NEW f \in Frames
  PROVE  FailedIn(Append(st, f)) <=> FailedIn(st) \/ f.failed
<1> DEFINE t == Append(st, f)
<1>1. /\ Len(t) = Len(st) + 1 /\ t[Len(t)] = f /\ Len(st) \in Nat
      /\ \A i \in 1..Len(st) : t[i] = st[i]
  BY Pushed DEF Last
<1> HIDE DEF t
<1>2. ASSUME FailedIn(t) PROVE FailedIn(st) \/ f.failed
  <2>1. PICK k \in 1..Len(t) : t[k].failed
    BY <1>2 DEF FailedIn
  <2>2. k \in 1..Len(st) \/ k = Len(t)
    BY <1>1
  <2> QED
    BY <1>1, <2>1, <2>2 DEF FailedIn
<1>3. ASSUME FailedIn(st) PROVE FailedIn(t)
  <2>1. PICK k \in 1..Len(st) : st[k].failed
    BY <1>3 DEF FailedIn
  <2>2. k \in 1..Len(t) /\ t[k].failed
    BY <1>1, <2>1
  <2> QED
    BY <2>2 DEF FailedIn
<1>4. ASSUME f.failed PROVE FailedIn(t)
  <2>1. Len(t) \in 1..Len(t)
    BY <1>1
  <2> QED
    BY <1>1, <1>4, <2>1 DEF FailedIn
<1> QED
  BY <1>2, <1>3, <1>4 DEF t

\* Returning takes the failure of the call away, and of no other.
LEMMA FailedPop ==
  ASSUME NEW st \in Seq(Frames), st # <<>>
  PROVE  FailedIn(st) <=> FailedIn(Front(st)) \/ Last(st).failed
<1>1. /\ Len(st) \in Nat \ {0} /\ Len(Front(st)) = Len(st) - 1
      /\ \A i \in 1..Len(st) - 1 : Front(st)[i] = st[i]
  BY Popped
<1>2. ASSUME FailedIn(st), ~ Last(st).failed PROVE FailedIn(Front(st))
  <2>1. PICK k \in 1..Len(st) : st[k].failed
    BY <1>2 DEF FailedIn
  <2>2. k # Len(st)
    BY <1>2, <2>1 DEF Last
  <2>3. k \in 1..Len(Front(st)) /\ Front(st)[k].failed
    BY <1>1, <2>1, <2>2
  <2> QED
    BY <2>3 DEF FailedIn
<1>3. ASSUME FailedIn(Front(st)) PROVE FailedIn(st)
  <2>1. PICK k \in 1..Len(Front(st)) : Front(st)[k].failed
    BY <1>3 DEF FailedIn
  <2>2. k \in 1..Len(st) /\ st[k].failed
    BY <1>1, <2>1
  <2> QED
    BY <2>2 DEF FailedIn
<1>4. ASSUME Last(st).failed PROVE FailedIn(st)
  BY <1>1, <1>4 DEF FailedIn, Last
<1> QED
  BY <1>2, <1>3, <1>4

\* When the top is replaced what it has noted is the only thing that may be lost.
LEMMA FailedSetTop ==
  ASSUME TypeOK, stack # <<>>, NEW f \in Frames, SetTop(f)
  PROVE  /\ FailedIn(stack') <=> FailedIn(Front(stack)) \/ f.failed
         /\ FailedIn(stack) <=> FailedIn(Front(stack)) \/ Top.failed
<1>1. stack \in Seq(Frames) /\ Front(stack) \in Seq(Frames)
  BY TopType DEF TypeOK
<1>2. FailedIn(Append(Front(stack), f)) <=> FailedIn(Front(stack)) \/ f.failed
  BY <1>1, FailedPush
<1>3. FailedIn(stack) <=> FailedIn(Front(stack)) \/ Last(stack).failed
  BY <1>1, FailedPop
<1> QED
  BY <1>2, <1>3 DEF SetTop, Top

\* A failure at an entry is noted in the frame.
LEMMA FailedConsumed ==
  ASSUME TypeOK, stack # <<>>, NEW e \in Names, NEW failed \in BOOLEAN, Consumed(e, failed)
  PROVE  FailedIn(stack') <=> FailedIn(stack) \/ failed
<1> DEFINE f == [Top EXCEPT !.left = @ \ {e}, !.failed = @ \/ failed]
<1>1. Top \in Frames
  BY TopType
<1>2. f \in Frames /\ f.failed = (Top.failed \/ failed) /\ SetTop(f)
  BY <1>1 DEF Frames, Consumed
<1> HIDE DEF f
<1> QED
  BY <1>2, FailedSetTop

\* At first only the working directory may have failed to open.
LEMMA FailedInit == Init => FInv
BY DEF Init, FInv, Noted

\* What is noted stays noted until the end of the run, and a fault is noted by
\* the step in which it happens.
LEMMA FailedStep == WInv /\ FInv /\ [Next]_vars => FInv' /\ (Noted => Noted')
<1> SUFFICES ASSUME WInv, FInv, [Next]_vars PROVE FInv' /\ (Noted => Noted')
  OBVIOUS
<1>a. TypeOK /\ stack \in Seq(Frames)
  BY DEF WInv, TypeOK
<1>t. ASSUME stack # <<>> PROVE Top \in Frames /\ Front(stack) \in Seq(Frames)
  BY <1>a, <1>t, TopType
<1>g. ASSUME Noted => Noted', omit_dir_flag' = omit_dir_flag,
             failure_flag => failure_flag', pc' = "done" => stack' = <<>>,
             faulted' \subseteq faulted \cup {"unknown"} \/ Noted'
      PROVE  FInv' /\ (Noted => Noted')
  BY <1>g DEF FInv
<1>1. CASE ArgFails
  BY <1>1, <1>g DEF ArgFails, Listing, NextArg, fixed, walk, Noted
<1>2. CASE ArgSkipped
  BY <1>2, <1>g DEF ArgSkipped, Listing, NextArg, Strikes, fixed, walk, Noted
<1>3. CASE ListFile
  BY <1>3, <1>g DEF ListFile, Listing, HandleFile, NextArg, Strikes, fixed, walk, Noted
<1>4. CASE ListDir
  BY <1>4, <1>g DEF ListDir, Listing, Strikes, fixed, Noted
<1>5. CASE BackToList
  BY <1>5, <1>g DEF BackToList, Restore, NextArg, Strikes, fixed, Noted
<1>6. CASE BackToListFails
  BY <1>6, <1>g DEF BackToListFails, fixed, Noted
<1>7. CASE Finish
  BY <1>7, <1>g DEF Finish, WInv, fixed, list, Noted
<1>8. CASE OpenDir
  <2> DEFINE f == [path |-> relative_path, dir |-> cwd, left |-> Entries(cwd),
                   failed |-> FALSE, entry |-> CHOOSE n \in Names : TRUE, saved |-> {}]
  <2>1. f \in Frames
    BY <1>a, WalkAssumption DEF Frames, Times, Entries, TypeOK
  <2>2. FailedIn(stack) => FailedIn(stack')
    BY <1>8, <1>a, <2>1, FailedPush DEF OpenDir
  <2> QED
    BY <1>8, <1>g, <2>2 DEF OpenDir, Strikes, fixed, list, Noted
<1>9. CASE OpenDirFails
  BY <1>9, <1>g DEF OpenDirFails, fixed, list, Noted
<1>10. CASE EndDir
  <2>1. stack # <<>>
    BY <1>10 DEF EndDir, WInv
  <2>2. FailedIn(stack) <=> FailedIn(stack') \/ ret'
    BY <1>10, <2>1, <1>a, FailedPop DEF EndDir, ReturnFromDir, Top
  <2> QED
    BY <1>10, <1>g, <2>2 DEF EndDir, ReturnFromDir, fixed, list, Noted
<1>11. CASE UpDir
  <2>1. PICK failed \in BOOLEAN :
          /\ Restore(Append(Front(cwd), Top.entry), Top.saved, failed)
          /\ SetTop([Top EXCEPT !.failed = @ \/ ret \/ failed])
    BY <1>11 DEF UpDir
  <2> DEFINE f == [Top EXCEPT !.failed = @ \/ ret \/ failed]
  <2>2. stack # <<>> /\ Top \in Frames
    BY <1>11, <1>t DEF UpDir
  <2>3. f \in Frames /\ f.failed = (Top.failed \/ ret \/ failed) /\ SetTop(f)
    BY <2>1, <2>2, <1>a DEF Frames, TypeOK
  <2>4. FailedIn(stack') <=> FailedIn(stack) \/ ret \/ failed
    <3> HIDE DEF f
    <3> QED
      BY <2>2, <2>3, <1>a, FailedSetTop
  <2>5. (faulted' \subseteq faulted) \/ failed
    BY <2>1 DEF Restore, Strikes
  <2> QED
    BY <1>11, <1>g, <2>4, <2>5 DEF UpDir, fixed, list, Noted
<1>12. CASE UpDirFails
  BY <1>12, <1>g DEF UpDirFails, ReturnFromDir, fixed, list, Noted
<1>13. ASSUME NEW e \in Names, WalkFile(e) PROVE FInv' /\ (Noted => Noted')
  <2>1. PICK S \in SUBSET ({"file"} \cup IfKept({"lstat", "utime"})), failed \in BOOLEAN :
          HandleFile(Append(cwd, e), S, failed) /\ Consumed(e, failed)
    BY <1>13 DEF WalkFile
  <2>2. FailedIn(stack') <=> FailedIn(stack) \/ failed
    BY <1>13, <2>1, <1>a, FailedConsumed DEF WalkFile, Delivers, WInv
  <2>3. (faulted' \subseteq faulted) \/ failed
    BY <2>1 DEF HandleFile, Strikes
  <2> QED
    BY <1>13, <1>g, <2>2, <2>3 DEF WalkFile, Delivers, fixed, list, Noted
<1>14. ASSUME NEW e \in Names, WalkSkip(e) PROVE FInv' /\ (Noted => Noted')
  <2>1. FailedIn(stack') <=> FailedIn(stack)
    BY <1>14, <1>a, FailedConsumed DEF WalkSkip, Delivers, WInv
  <2> QED
    BY <1>14, <1>g, <2>1 DEF WalkSkip, Delivers, Strikes, fixed, list, Noted
<1>15. ASSUME NEW e \in Names, Descend(e) PROVE FInv' /\ (Noted => Noted')
  <2> DEFINE there == Append(cwd, e)
             f(S) == [Top EXCEPT !.left = @ \ {e}, !.failed = @ \/ S # {}, !.entry = e,
                        !.saved = IF S = {} THEN IfKept({time[there]}) ELSE {}]
  <2>1. PICK S \in SUBSET IfKept({"lstat"}) : Strikes(S) /\ SetTop(f(S))
    BY <1>15 DEF Descend
  <2>2. stack # <<>> /\ Top \in Frames /\ there \in tree.dirs
    BY <1>15, <1>t DEF Descend, Delivers, WInv
  <2>3. IfKept({time[there]}) \in Times /\ {} \in Times
    BY <2>2, <1>a DEF Nodes, Times, TypeOK, IfKept
  <2>4. f(S) \in Frames /\ f(S).failed = (Top.failed \/ S # {}) /\ SetTop(f(S))
    BY <2>1, <2>2, <2>3 DEF Frames
  <2>5. FailedIn(stack') <=> FailedIn(stack) \/ S # {}
    <3> HIDE DEF f
    <3> QED
      BY <2>2, <2>4, <1>a, FailedSetTop
  <2>6. faulted' = faulted \/ S # {}
    BY <2>1 DEF Strikes
  <2> QED
    BY <1>15, <1>g, <2>5, <2>6 DEF Descend, Delivers, fixed, list, Noted
<1>16. ASSUME NEW e \in Names, DescendFails(e) PROVE FInv' /\ (Noted => Noted')
  <2>1. FailedIn(stack')
    BY <1>16, <1>a, FailedConsumed DEF DescendFails, Delivers, WInv
  <2> QED
    BY <1>16, <1>g, <2>1 DEF DescendFails, Delivers, fixed, list, Noted
<1>17. ASSUME NEW e \in Names, NoPath(e) PROVE FInv' /\ (Noted => Noted')
  BY <1>17, <1>g DEF NoPath, ReturnFromDir, fixed, list, Noted
<1>18. CASE UNCHANGED vars
  BY <1>18 DEF vars, fixed, walk, list, FInv, Noted
<1> QED
  BY <1>1, <1>2, <1>3, <1>4, <1>5, <1>6, <1>7, <1>8, <1>9, <1>10, <1>11, <1>12,
     <1>13, <1>14, <1>15, <1>16, <1>17, <1>18 DEF Next, Walk

\* Every fault in the recursion, but the unknown type of an entry, is or-ed up to
\* the exit status, whatever order the faults and the calls come in.
THEOREM FailuresAlwaysReach == Spec => []FailuresReach
<1>1. Init => WInv /\ FInv
  BY WalkInit, FailedInit
<1>2. WInv /\ FInv /\ [Next]_vars => WInv' /\ FInv'
  BY WalkStep, FailedStep
<1>3. FInv => FailuresReach
  BY DEF FInv, Noted, FailedIn, FailuresReach
<1> QED
  BY <1>1, <1>2, <1>3, PTL DEF Spec

-----------------------------------------------------------------------------
(* The way from the argument down to where the walk is.                     *)

\* An argument is being walked.
Walking == pc \in {"open", "dir", "return"}

\* d is a, or below it along directories that are accepted.
Route(a, d) ==
  /\ Len(a) <= Len(d) /\ \A i \in 1..Len(a) : d[i] = a[i]
  /\ \A i \in Len(a) + 1 .. Len(d) : d[i] \in DirNames

\* d is reached through the entry of the frame fr, which is no longer left.
Passes(fr, d) ==
  /\ Len(fr.dir) < Len(d) /\ d[Len(fr.dir) + 1] = fr.entry
  /\ fr.entry \in DirNames \ fr.left

\* The calls in st lead from a down to d.
Leads(a, st, d) ==
  /\ Route(a, d)
  /\ \A i \in 1..Len(st) : Passes(st[i], d)
  /\ st = <<>> => d = a

\* The same for the directory of each call.
Trail(a, st) ==
  \A j \in 1..Len(st) :
    /\ Route(a, st[j].dir)
    /\ \A i \in 1..j - 1 : Passes(st[i], st[j].dir)
    /\ j = 1 => st[j].dir = a

\* The inductive invariant, while the walk is not stranded.
TInv ==
  faulted \cap Stranding = {} =>
    /\ Walking => Arg \in tree.dirs \cap ArgsIn
    /\ Trail(Arg, stack)
    /\ pc \in {"open", "return"} => Leads(Arg, stack, cwd)

\* An entry that is a directory leads one level down.
LEMMA LeadsDown ==
  ASSUME NEW a \in Seq(Names), NEW st \in Seq(Frames), st # <<>>, NEW d \in Seq(Names),
         NEW e \in DirNames \cap Names, Leads(a, Front(st), d),
         Last(st).dir = d, Last(st).entry = e, e \notin Last(st).left
  PROVE  Leads(a, st, Append(d, e))
<1> DEFINE t == Append(d, e)
<1>1. /\ Len(t) = Len(d) + 1 /\ t[Len(t)] = e /\ Len(d) \in Nat /\ Len(a) \in Nat
      /\ \A i \in 1..Len(d) : t[i] = d[i]
  BY Pushed DEF Last
<1> HIDE DEF t
<1>2. Route(a, t)
  <2>1. Len(a) <= Len(t) /\ \A i \in 1..Len(a) : t[i] = a[i]
    BY <1>1 DEF Leads, Route
  <2>2. ASSUME NEW i \in Len(a) + 1 .. Len(t) PROVE t[i] \in DirNames
    <3>1. i = Len(t) \/ i \in Len(a) + 1 .. Len(d)
      BY <1>1
    <3>2. i \in Len(a) + 1 .. Len(d) => i \in 1..Len(d)
      BY <1>1
    <3> QED
      BY <1>1, <3>1, <3>2 DEF Leads, Route
  <2> QED
    BY <2>1, <2>2 DEF Route
<1>3. ASSUME NEW i \in 1..Len(st) PROVE Passes(st[i], t)
  <2>1. /\ Len(st) \in Nat \ {0} /\ Len(Front(st)) = Len(st) - 1
        /\ \A k \in 1..Len(st) - 1 : Front(st)[k] = st[k]
    BY Popped
  <2>2. CASE i = Len(st)
    BY <1>1, <2>2 DEF Passes, Last
  <2>3. CASE i # Len(st)
    <3>1. i \in 1..Len(Front(st)) /\ Front(st)[i] = st[i]
      BY <2>1, <2>3
    <3>2. Passes(st[i], d)
      BY <3>1 DEF Leads
    <3>3. st[i] \in Frames /\ st[i].dir \in Seq(Names)
      <4>1. st[i] \in Frames
        OBVIOUS
      <4> QED
        BY <4>1 DEF Frames
    <3>4. Len(st[i].dir) + 1 \in 1..Len(d)
      BY <1>1, <3>2, <3>3 DEF Passes
    <3> QED
      BY <1>1, <3>2, <3>4 DEF Passes
  <2> QED
    BY <2>2, <2>3
<1>4. t = Append(d, e)
  BY DEF t
<1> QED
  BY <1>2, <1>3, <1>4 DEF Leads

\* A call for the directory that the trail leads to extends it.
LEMMA TrailPush ==
  ASSUME NEW a, NEW st \in Seq(Frames), NEW f \in Frames, Trail(a, st), Leads(a, st, f.dir)
  PROVE  Trail(a, Append(st, f))
<1> DEFINE t == Append(st, f)
<1>1. /\ Len(t) = Len(st) + 1 /\ t[Len(t)] = f /\ Len(st) \in Nat
      /\ \A i \in 1..Len(st) : t[i] = st[i]
  BY Pushed DEF Last
<1> HIDE DEF t
<1>2. ASSUME NEW j \in 1..Len(t)
      PROVE  /\ Route(a, t[j].dir)
             /\ \A i \in 1..j - 1 : Passes(t[i], t[j].dir)
             /\ j = 1 => t[j].dir = a
  <2>1. CASE j = Len(t)
    <3>1. \A i \in 1..j - 1 : i \in 1..Len(st) /\ t[i] = st[i]
      BY <1>1, <2>1
    <3>2. j = 1 => st = <<>>
      BY <1>1, <2>1
    <3> QED
      BY <1>1, <2>1, <3>1, <3>2 DEF Leads
  <2>2. CASE j # Len(t)
    <3>1. j \in 1..Len(st) /\ \A i \in 1..j - 1 : i \in 1..Len(st) /\ t[i] = st[i]
      BY <1>1, <2>2
    <3> QED
      BY <1>1, <3>1 DEF Trail
  <2> QED
    BY <2>1, <2>2
<1> QED
  BY <1>2 DEF Trail, t

\* Returning shortens the trail.
LEMMA TrailPop ==
  ASSUME NEW a, NEW st \in Seq(Frames), st # <<>>, Trail(a, st)
  PROVE  Trail(a, Front(st)) /\ Leads(a, Front(st), Last(st).dir)
<1> DEFINE t == Front(st)
<1>1. /\ t \in Seq(Frames) /\ Len(t) = Len(st) - 1 /\ Len(st) \in Nat \ {0}
      /\ \A i \in 1..Len(t) : t[i] = st[i]
  BY Popped
<1>2. Trail(a, t)
  <2>1. \A j \in 1..Len(t) : j \in 1..Len(st) /\ \A i \in 1..j - 1 : t[i] = st[i]
    BY <1>1
  <2> HIDE DEF t
  <2> QED
    BY <1>1, <2>1 DEF Trail
<1>3. Leads(a, t, Last(st).dir)
  <2>1. Len(st) \in 1..Len(st) /\ 1..Len(t) = 1..Len(st) - 1
    BY <1>1
  <2>2. t = <<>> => Len(st) = 1
    BY <1>1
  <2> HIDE DEF t
  <2> QED
    BY <1>1, <2>1, <2>2 DEF Trail, Leads, Last
<1> QED
  BY <1>2, <1>3

\* What changes of the top frame, but not its directory, keeps the trail.
LEMMA TrailSetTop ==
  ASSUME NEW a, stack \in Seq(Frames), stack # <<>>, Trail(a, stack), NEW f \in Frames,
         f.dir = Top.dir, SetTop(f)
  PROVE  /\ Trail(a, stack') /\ stack' \in Seq(Frames) /\ stack' # <<>> /\ Last(stack') = f
         /\ Front(stack') = Front(stack) /\ Leads(a, Front(stack), f.dir)
<1>1. Front(stack) \in Seq(Frames) /\ Trail(a, Front(stack)) /\ Leads(a, Front(stack), f.dir)
  BY Popped, TrailPop DEF Top
<1>2. stack' = Append(Front(stack), f)
  BY DEF SetTop
<1> QED
  BY <1>1, <1>2, TrailPush, Pushed

\* At first there is no trail.
LEMMA TrailInit == Init => TInv
BY DEF Init, TInv, Trail, Walking

\* Every step keeps the trail, unless it strands the walk.
LEMMA TrailStep == WInv /\ PInv /\ TInv /\ [Next]_vars => TInv'
<1> SUFFICES ASSUME WInv, PInv, TInv, [Next]_vars, faulted' \cap Stranding = {}
             PROVE  /\ Walking' => Arg' \in tree'.dirs \cap ArgsIn
                    /\ Trail(Arg', stack')
                    /\ pc' \in {"open", "return"} => Leads(Arg', stack', cwd')
  BY DEF TInv
<1>a. /\ TypeOK /\ cwd \in Seq(Names) /\ stack \in Seq(Frames)
      /\ args \in Seq(Seq(Names)) /\ arg \in Nat \ {0}
  BY WalkAssumption DEF WInv, TypeOK
<1>p. ASSUME faulted \subseteq faulted'
      PROVE  /\ Placed /\ Trail(Arg, stack)
             /\ Walking => Arg \in tree.dirs \cap ArgsIn
             /\ pc \in {"open", "return"} => Leads(Arg, stack, cwd)
  BY <1>p DEF PInv, TInv
<1>s. ASSUME NEW S, Strikes(S)
      PROVE  faulted \subseteq faulted' /\ S \cap Stranding = {}
  BY <1>s DEF Strikes
<1>t. ASSUME stack # <<>> PROVE Top \in Frames /\ Front(stack) \in Seq(Frames)
  BY <1>a, <1>t, TopType
<1>e. ASSUME stack = <<>> PROVE \A a : Trail(a, stack)
  BY <1>e DEF Trail
<1>w. ASSUME Walking PROVE Arg \in Seq(Names)
  BY <1>a, <1>w DEF WInv, Walking, Arg
<1>c. ASSUME NEW e \in Names, NEW failed \in BOOLEAN, faulted \subseteq faulted', pc = "dir",
             pc' = pc, UNCHANGED <<fixed, arg>>, Consumed(e, failed), stack # <<>>
      PROVE  /\ Arg' \in tree'.dirs \cap ArgsIn
             /\ Trail(Arg', stack')
             /\ pc' \in {"open", "return"} => Leads(Arg', stack', cwd')
  <2> DEFINE f == [Top EXCEPT !.left = @ \ {e}, !.failed = @ \/ failed]
  <2>1. f \in Frames /\ f.dir = Top.dir /\ SetTop(f)
    BY <1>c, <1>t DEF Frames, Consumed
  <2>2. Trail(Arg, stack')
    <3> HIDE DEF f
    <3> QED
      BY <1>c, <1>a, <1>p, <2>1, TrailSetTop
  <2>3. Arg' = Arg /\ tree' = tree
    BY <1>c DEF Arg, fixed
  <2> QED
    BY <1>c, <1>p, <2>2, <2>3 DEF Walking
<1>l. ASSUME stack' = stack, stack = <<>>, pc' \in {"list", "done"}
      PROVE  /\ Walking' => Arg' \in tree'.dirs \cap ArgsIn
             /\ Trail(Arg', stack')
             /\ pc' \in {"open", "return"} => Leads(Arg', stack', cwd')
  BY <1>l, <1>e DEF Walking
<1>1. CASE ArgFails
  BY <1>1, <1>l DEF ArgFails, Listing, WInv, walk
<1>2. CASE ArgSkipped
  BY <1>2, <1>l DEF ArgSkipped, Listing, WInv, walk
<1>3. CASE ListFile
  BY <1>3, <1>l DEF ListFile, Listing, WInv, walk
<1>4. CASE ListDir
  <2>1. Arg' = Arg /\ tree' = tree /\ stack' = <<>> /\ cwd' = Arg /\ Arg \in tree.dirs \cap ArgsIn
    BY <1>4 DEF ListDir, Listing, WInv, Arg, fixed
  <2>2. Arg \in Seq(Names)
    BY <1>4, <1>a DEF ListDir, Listing, Arg
  <2>3. Leads(Arg, <<>>, Arg)
    BY <2>2 DEF Leads, Route
  <2> QED
    BY <2>1, <2>3 DEF Trail
<1>5. CASE BackToList
  BY <1>5, <1>l DEF BackToList
<1>6. CASE BackToListFails
  BY <1>6, <1>l DEF BackToListFails
<1>7. CASE Finish
  BY <1>7, <1>l DEF Finish, WInv
<1>8. CASE OpenDir
  <2> DEFINE f == [path |-> relative_path, dir |-> cwd, left |-> Entries(cwd),
                   failed |-> FALSE, entry |-> CHOOSE n \in Names : TRUE, saved |-> {}]
  <2>1. f \in Frames /\ f.dir = cwd
    BY <1>a, WalkAssumption DEF Frames, Times, Entries, TypeOK
  <2>2. Trail(Arg, stack) /\ Leads(Arg, stack, cwd) /\ Arg \in tree.dirs \cap ArgsIn
    BY <1>8, <1>p, <1>s DEF OpenDir, Walking
  <2>3. stack' = Append(stack, f)
    BY <1>8 DEF OpenDir
  <2>4. Trail(Arg, stack')
    <3> HIDE DEF f
    <3> QED
      BY <1>a, <2>1, <2>2, <2>3, TrailPush
  <2>5. Arg' = Arg /\ tree' = tree /\ pc' = "dir"
    BY <1>8 DEF OpenDir, Arg, fixed, list
  <2> QED
    BY <2>2, <2>4, <2>5
<1>9. CASE OpenDirFails
  <2>1. Arg' = Arg /\ tree' = tree /\ stack' = stack /\ cwd' = cwd
    BY <1>9 DEF OpenDirFails, Arg, fixed, list
  <2> QED
    BY <1>9, <2>1, <1>p, <1>s DEF OpenDirFails, Walking
<1>10. CASE EndDir
  <2>1. /\ Arg' = Arg /\ tree' = tree /\ stack' = Front(stack) /\ cwd' = cwd /\ stack # <<>>
        /\ faulted \subseteq faulted'
    BY <1>10 DEF EndDir, ReturnFromDir, WInv, Arg, fixed, list
  <2>2. Trail(Arg, stack) /\ Arg \in tree.dirs \cap ArgsIn /\ Top.dir = cwd
    BY <1>10, <2>1, <1>p DEF EndDir, Walking, Placed
  <2> QED
    BY <2>1, <2>2, <1>a, TrailPop DEF Top
<1>11. CASE UpDir
  <2>1. PICK failed \in BOOLEAN :
          /\ Restore(Append(Front(cwd), Top.entry), Top.saved, failed)
          /\ SetTop([Top EXCEPT !.failed = @ \/ ret \/ failed])
    BY <1>11 DEF UpDir
  <2> DEFINE f == [Top EXCEPT !.failed = @ \/ ret \/ failed]
  <2>2. stack # <<>> /\ Top \in Frames /\ faulted \subseteq faulted'
    BY <1>11, <1>t, <2>1, <1>s DEF UpDir, Restore
  <2>3. f \in Frames /\ f.dir = Top.dir /\ SetTop(f)
    BY <2>1, <2>2, <1>a DEF Frames, TypeOK
  <2>4. Trail(Arg, stack')
    <3> HIDE DEF f
    <3> QED
      BY <1>a, <1>p, <2>2, <2>3, TrailSetTop
  <2>5. Arg' = Arg /\ tree' = tree /\ pc' = "dir"
    BY <1>11 DEF UpDir, Arg, fixed, list
  <2> QED
    BY <1>11, <1>p, <2>2, <2>4, <2>5 DEF UpDir, Walking
<1>12. CASE UpDirFails
  BY <1>12, <1>s DEF UpDirFails, Stranding
<1>13. ASSUME NEW e \in Names, WalkFile(e)
       PROVE  /\ Arg' \in tree'.dirs \cap ArgsIn
              /\ Trail(Arg', stack')
              /\ pc' \in {"open", "return"} => Leads(Arg', stack', cwd')
  <2>1. PICK S \in SUBSET ({"file"} \cup IfKept({"lstat", "utime"})), failed \in BOOLEAN :
          HandleFile(Append(cwd, e), S, failed) /\ Consumed(e, failed)
    BY <1>13 DEF WalkFile
  <2>2. faulted \subseteq faulted'
    BY <2>1, <1>s DEF HandleFile
  <2> QED
    BY <1>13, <2>1, <2>2, <1>c DEF WalkFile, Delivers, WInv, list
<1>14. ASSUME NEW e \in Names, WalkSkip(e)
       PROVE  /\ Arg' \in tree'.dirs \cap ArgsIn
              /\ Trail(Arg', stack')
              /\ pc' \in {"open", "return"} => Leads(Arg', stack', cwd')
  BY <1>14, <1>c, <1>s DEF WalkSkip, Delivers, WInv, list
<1>15. ASSUME NEW e \in Names, Descend(e)
       PROVE  /\ Arg' \in tree'.dirs \cap ArgsIn
              /\ Trail(Arg', stack')
              /\ Leads(Arg', stack', cwd')
  <2> DEFINE there == Append(cwd, e)
             f(S) == [Top EXCEPT !.left = @ \ {e}, !.failed = @ \/ S # {}, !.entry = e,
                        !.saved = IF S = {} THEN IfKept({time[there]}) ELSE {}]
  <2>1. PICK S \in SUBSET IfKept({"lstat"}) : Strikes(S) /\ SetTop(f(S))
    BY <1>15 DEF Descend
  <2>2. /\ stack # <<>> /\ Top \in Frames /\ there \in tree.dirs
        /\ faulted \subseteq faulted' /\ e \in DirNames
    BY <1>15, <2>1, <1>s, <1>t DEF Descend, Delivers, WInv
  <2>3. /\ Top.dir = cwd /\ Trail(Arg, stack)
        /\ Arg \in tree.dirs \cap ArgsIn /\ Arg \in Seq(Names)
    BY <1>15, <2>2, <1>p, <1>w DEF Descend, Delivers, Placed, Walking
  <2>4. IfKept({time[there]}) \in Times /\ {} \in Times
    BY <2>2, <1>a DEF Nodes, Times, TypeOK, IfKept
  <2>5. /\ f(S) \in Frames /\ f(S).dir = Top.dir /\ f(S).entry = e /\ e \notin f(S).left
        /\ SetTop(f(S))
    BY <2>1, <2>2, <2>4 DEF Frames
  <2>6. /\ Trail(Arg, stack') /\ stack' \in Seq(Frames) /\ stack' # <<>> /\ Last(stack') = f(S)
        /\ Front(stack') = Front(stack) /\ Leads(Arg, Front(stack), cwd)
    <3> HIDE DEF f
    <3> QED
      BY <2>2, <2>3, <2>5, <1>a, TrailSetTop
  <2>7. Leads(Arg, stack', there)
    <3> HIDE DEF f
    <3> QED
      BY <2>2, <2>3, <2>5, <2>6, <1>a, LeadsDown
  <2>8. Arg' = Arg /\ tree' = tree /\ cwd' = there
    BY <1>15 DEF Descend, Arg, fixed, list
  <2> QED
    BY <2>3, <2>6, <2>7, <2>8
<1>16. ASSUME NEW e \in Names, DescendFails(e)
       PROVE  /\ Arg' \in tree'.dirs \cap ArgsIn
              /\ Trail(Arg', stack')
              /\ pc' \in {"open", "return"} => Leads(Arg', stack', cwd')
  BY <1>16, <1>c, <1>s DEF DescendFails, Delivers, WInv, list
<1>17. ASSUME NEW e \in Names, NoPath(e) PROVE FALSE
  BY <1>17, <1>s DEF NoPath, Stranding
<1>18. CASE UNCHANGED vars
  <2>1. Arg' = Arg /\ tree' = tree /\ stack' = stack /\ cwd' = cwd /\ pc' = pc
    BY <1>18 DEF vars, fixed, walk, list, Arg
  <2> QED
    BY <1>18, <2>1, <1>p DEF vars, Walking
<1> QED
  BY <1>1, <1>2, <1>3, <1>4, <1>5, <1>6, <1>7, <1>8, <1>9, <1>10, <1>11, <1>12,
     <1>13, <1>14, <1>15, <1>16, <1>17, <1>18 DEF Next, Walk

-----------------------------------------------------------------------------
(* How often each file is processed.                                        *)

\* The call with the frame fr will still deliver the entry on the way to f.
UnderFrame(fr, f) == IsStrictPrefix(fr.dir, f) /\ f[Len(fr.dir) + 1] \in fr.left

\* One of the calls will.
PendingIn(st, f) == \E k \in 1..Len(st) : UnderFrame(st[k], f)

\* The walk of the present argument has not passed f yet.
Pending(f) == PendingIn(stack, f) \/ (pc = "open" /\ IsStrictPrefix(cwd, f))

\* The present argument selects f and its walk has passed f.
Visited(f) ==
  /\ Walking \/ (pc = "done" /\ arg <= Len(args))
  /\ Selects(Arg, f) /\ ~Pending(f)

\* The arguments done that select f, and how often f should have been processed.
Before(f) == Cardinality({i \in 1..arg - 1 : Selects(args[i], f)})

\* How often f should have been processed.
Due(f) == Before(f) + (IF Visited(f) THEN 1 ELSE 0)

\* No file has been processed too often.
AtMostDue == \A f \in tree.files : count[f] <= Due(f)

\* Every file has been processed as often as it should have been.
AsDue == \A f \in tree.files : count[f] = Due(f)

\* The inductive invariant, and that a run without a failure went through all
\* arguments.
CInv ==
  /\ pc = "done" => failure_flag \/ arg = Len(args) + 1
  /\ faulted \cap Stranding = {} => AtMostDue
  /\ ~Noted /\ "unknown" \notin faulted => AsDue

\* A strict prefix is shorter and agrees as far as it goes.
LEMMA StrictPrefix ==
  ASSUME NEW S, NEW s \in Seq(S), NEW t \in Seq(S)
  PROVE  IsStrictPrefix(s, t) <=> Len(s) < Len(t) /\ \A i \in 1..Len(s) : t[i] = s[i]
<1>1. Len(s) \in Nat /\ Len(t) \in Nat
  OBVIOUS
<1>2. ASSUME IsStrictPrefix(s, t)
      PROVE  Len(s) < Len(t) /\ \A i \in 1..Len(s) : t[i] = s[i]
  <2>1. Len(s) <= Len(t) /\ SubSeq(s, 1, Len(s)) = SubSeq(t, 1, Len(s)) /\ s # t
    BY <1>2 DEF IsStrictPrefix, IsPrefix
  <2>2. ASSUME NEW i \in 1..Len(s) PROVE t[i] = s[i]
    <3>1. SubSeq(s, 1, Len(s))[i] = s[i] /\ SubSeq(t, 1, Len(s))[i] = t[i]
      BY <1>1, <2>1
    <3> QED
      BY <2>1, <3>1
  <2>3. Len(s) # Len(t)
    BY <2>1, <2>2
  <2> QED
    BY <1>1, <2>1, <2>2, <2>3
<1>3. ASSUME Len(s) < Len(t), \A i \in 1..Len(s) : t[i] = s[i]
      PROVE  IsStrictPrefix(s, t)
  <2>1. SubSeq(s, 1, Len(s)) = SubSeq(t, 1, Len(s))
    BY <1>1, <1>3
  <2> QED
    BY <1>1, <1>3, <2>1 DEF IsStrictPrefix, IsPrefix
<1> QED
  BY <1>2, <1>3

\* A path that leads through the entry e of d is that entry, or e is a directory.
LEMMA Through ==
  ASSUME TypeOK, NEW d \in Seq(Names), NEW e \in Names, NEW f \in tree.files
  PROVE  /\ f \in Seq(Names)
         /\ IsStrictPrefix(d, f) /\ f[Len(d) + 1] = e =>
              \/ f = Append(d, e)
              \/ /\ Append(d, e) \in tree.dirs /\ Append(d, e) # f
                 /\ IsStrictPrefix(Append(d, e), f)
         /\ f = Append(d, e) \/ IsStrictPrefix(Append(d, e), f)
              => IsStrictPrefix(d, f) /\ f[Len(d) + 1] = e
<1> DEFINE t == Append(d, e)
<1>1. f \in Seq(Names) /\ f \in tree.dirs \cup tree.files
  BY TreeAssumption DEF TypeOK
<1>2. /\ t \in Seq(Names) /\ Len(t) = Len(d) + 1 /\ t[Len(d) + 1] = e /\ Len(d) \in Nat
      /\ \A i \in 1..Len(d) : t[i] = d[i]
  BY Pushed DEF Last
<1>t. t = Append(d, e)
  OBVIOUS
<1> HIDE DEF t
<1>3. Len(f) \in Nat /\ \A k \in 1..Len(f) - 1 : SubSeq(f, 1, k) \in tree.dirs
  BY <1>1, TreeAssumption DEF TypeOK
<1>4. ASSUME IsStrictPrefix(d, f), f[Len(d) + 1] = e
      PROVE  f = t \/ (t \in tree.dirs /\ t # f /\ IsStrictPrefix(t, f))
  <2>1. Len(d) < Len(f) /\ \A i \in 1..Len(d) : f[i] = d[i]
    BY <1>1, <1>4, StrictPrefix
  <2>2. \A i \in 1..Len(t) : f[i] = t[i]
    <3>1. \A i \in 1..Len(t) : i \in 1..Len(d) \/ i = Len(d) + 1
      BY <1>2
    <3> QED
      BY <1>2, <1>4, <2>1, <3>1
  <2>3. CASE Len(f) = Len(t)
    BY <1>1, <1>2, <2>2, <2>3
  <2>4. CASE Len(f) > Len(t)
    <3>1. SubSeq(f, 1, Len(t)) \in tree.dirs
      BY <1>2, <1>3, <2>4
    <3>2. SubSeq(f, 1, Len(t)) = t
      BY <1>1, <1>2, <2>2, <2>4
    <3>3. IsStrictPrefix(t, f)
      BY <1>1, <1>2, <1>3, <2>2, <2>4, StrictPrefix
    <3> QED
      BY <2>4, <3>1, <3>2, <3>3, <1>3
  <2> QED
    BY <1>2, <1>3, <2>1, <2>3, <2>4
<1>5. ASSUME f = t \/ IsStrictPrefix(t, f)
      PROVE  IsStrictPrefix(d, f) /\ f[Len(d) + 1] = e
  <2>1. Len(t) <= Len(f) /\ \A i \in 1..Len(t) : f[i] = t[i]
    BY <1>1, <1>2, <1>3, <1>5, StrictPrefix
  <2>2. f[Len(d) + 1] = e /\ Len(d) < Len(f) /\ \A i \in 1..Len(d) : f[i] = d[i]
    BY <1>2, <1>3, <2>1
  <2> QED
    BY <1>1, <2>2, StrictPrefix
<1> QED
  BY <1>1, <1>4, <1>5, <1>t

\* A call adds what is below its directory.
LEMMA PendingPush ==
  ASSUME NEW st \in Seq(Frames), NEW fr \in Frames, NEW f
  PROVE  PendingIn(Append(st, fr), f) <=> PendingIn(st, f) \/ UnderFrame(fr, f)
<1> DEFINE t == Append(st, fr)
<1>1. /\ Len(t) = Len(st) + 1 /\ t[Len(t)] = fr /\ Len(st) \in Nat
      /\ \A i \in 1..Len(st) : t[i] = st[i]
  BY Pushed DEF Last
<1>t. t = Append(st, fr)
  OBVIOUS
<1> HIDE DEF t
<1>2. ASSUME PendingIn(t, f) PROVE PendingIn(st, f) \/ UnderFrame(fr, f)
  <2>1. PICK k \in 1..Len(t) : UnderFrame(t[k], f)
    BY <1>2 DEF PendingIn
  <2>2. k \in 1..Len(st) \/ k = Len(t)
    BY <1>1
  <2> QED
    BY <1>1, <2>1, <2>2 DEF PendingIn
<1>3. ASSUME PendingIn(st, f) PROVE PendingIn(t, f)
  <2>1. PICK k \in 1..Len(st) : UnderFrame(st[k], f)
    BY <1>3 DEF PendingIn
  <2>2. k \in 1..Len(t) /\ t[k] = st[k]
    BY <1>1, <2>1
  <2> QED
    BY <2>1, <2>2 DEF PendingIn
<1>4. ASSUME UnderFrame(fr, f) PROVE PendingIn(t, f)
  <2>1. Len(t) \in 1..Len(t)
    BY <1>1
  <2> QED
    BY <1>1, <1>4, <2>1 DEF PendingIn
<1> QED
  BY <1>2, <1>3, <1>4, <1>t

\* Returning takes away what the call had left.
LEMMA PendingPop ==
  ASSUME NEW st \in Seq(Frames), st # <<>>, NEW f
  PROVE  PendingIn(st, f) <=> PendingIn(Front(st), f) \/ UnderFrame(Last(st), f)
<1>1. Front(st) \in Seq(Frames) /\ Last(st) \in Frames
  BY Popped
<1>2. st = Append(Front(st), Last(st))
  BY DEF Front, Last
<1> QED
  BY <1>1, <1>2, PendingPush

\* What the top frame changes for the files that are pending.
LEMMA PendingSetTop ==
  ASSUME TypeOK, stack # <<>>, NEW fr \in Frames, SetTop(fr), NEW f
  PROVE  /\ PendingIn(stack', f) <=> PendingIn(Front(stack), f) \/ UnderFrame(fr, f)
         /\ PendingIn(stack, f) <=> PendingIn(Front(stack), f) \/ UnderFrame(Top, f)
<1>1. stack \in Seq(Frames) /\ Front(stack) \in Seq(Frames)
  BY TopType DEF TypeOK
<1> QED
  BY <1>1, PendingPush, PendingPop DEF SetTop, Top

\* No call that leads to d will deliver the entry on the way to something in d.
LEMMA NotBack ==
  ASSUME NEW a, NEW st \in Seq(Frames), NEW d \in Seq(Names), NEW e \in Names, Leads(a, st, d)
  PROVE  ~ PendingIn(st, Append(d, e))
<1> SUFFICES ASSUME NEW k \in 1..Len(st), UnderFrame(st[k], Append(d, e)) PROVE FALSE
  BY DEF PendingIn
<1>1. st[k] \in Frames /\ Passes(st[k], d)
  BY DEF Leads
<1>2. Len(st[k].dir) + 1 \in 1..Len(d)
  BY <1>1 DEF Passes, Frames
<1>3. Append(d, e)[Len(st[k].dir) + 1] = d[Len(st[k].dir) + 1]
  BY <1>2, Pushed
<1> QED
  BY <1>1, <1>3 DEF UnderFrame, Passes

\* What a directory that the walk has reached contains is selected by its name.
LEMMA SelectedBelow ==
  ASSUME TypeOK, NEW a \in Seq(Names), a \in tree.dirs \cap ArgsIn, NEW d \in Seq(Names),
         Route(a, d), NEW e \in Names, NEW f \in tree.files
  PROVE  /\ f = Append(d, e) => (Selects(a, f) <=> e \in FileNames)
         /\ IsStrictPrefix(Append(d, e), f) /\ Selects(a, f) => e \in DirNames
<1> DEFINE t == Append(d, e)
<1>1. /\ t \in Seq(Names) /\ Len(t) = Len(d) + 1 /\ t[Len(d) + 1] = e /\ Len(d) \in Nat
      /\ Len(a) \in Nat /\ \A i \in 1..Len(d) : t[i] = d[i]
  BY Pushed DEF Last
<1>t. t = Append(d, e)
  OBVIOUS
<1> HIDE DEF t
<1>2. a # f /\ f \in Seq(Names)
  BY TreeAssumption DEF TypeOK
<1>3. ASSUME f = t PROVE Selects(a, f) <=> e \in FileNames
  <2>1. Len(a) < Len(f) /\ \A i \in 1..Len(a) : f[i] = a[i]
    BY <1>1, <1>3 DEF Route
  <2>2. IsStrictPrefix(a, f)
    BY <1>2, <2>1, StrictPrefix
  <2>3. \A i \in Len(a) + 1 .. Len(f) - 1 : f[i] \in DirNames
    <3>1. \A i \in Len(a) + 1 .. Len(f) - 1 : i \in Len(a) + 1 .. Len(d) /\ i \in 1..Len(d)
      BY <1>1, <1>3
    <3> QED
      BY <1>1, <1>3, <3>1 DEF Route
  <2>4. f[Len(f)] = e
    BY <1>1, <1>3
  <2> QED
    BY <1>2, <2>2, <2>3, <2>4 DEF Selects
<1>4. ASSUME IsStrictPrefix(t, f), Selects(a, f) PROVE e \in DirNames
  <2>1. Len(t) < Len(f) /\ \A i \in 1..Len(t) : f[i] = t[i]
    BY <1>1, <1>2, <1>4, StrictPrefix
  <2>2. Len(d) + 1 \in Len(a) + 1 .. Len(f) - 1 /\ f[Len(d) + 1] = e
    BY <1>1, <1>2, <2>1 DEF Route
  <2> QED
    BY <1>2, <1>4, <2>2 DEF Selects
<1> QED
  BY <1>3, <1>4, <1>t

\* The arguments before the next one.
LEMMA BeforeNow ==
  ASSUME arg \in Nat \ {0}, UNCHANGED <<fixed, arg>>, NEW f
  PROVE  Before(f) \in Nat /\ Before(f)' = Before(f)
<1>1. Before(f)' = Before(f)
  BY DEF Before, Selects, fixed
<1>2. IsFiniteSet(1..arg - 1)
  BY FS_Interval
<1>3. IsFiniteSet({i \in 1..arg - 1 : Selects(args[i], f)})
  BY <1>2, FS_Subset
<1> QED
  BY <1>1, <1>3, FS_CardinalityType DEF Before

\* The next argument adds what the last one selected.
LEMMA BeforeNext ==
  ASSUME arg \in Nat \ {0}, UNCHANGED fixed, arg' = arg + 1, NEW f
  PROVE  /\ Before(f) \in Nat
         /\ Before(f)' = Before(f) + (IF Selects(Arg, f) THEN 1 ELSE 0)
<1> DEFINE B == {i \in 1..arg - 1 : Selects(args[i], f)}
           C == {i \in 1..arg : Selects(args[i], f)}
<1>1. IsFiniteSet(B) /\ arg \notin B
  <2>1. IsFiniteSet(1..arg - 1)
    BY FS_Interval
  <2> QED
    BY <2>1, FS_Subset
<1>2. Before(f)' = Cardinality(C)
  <2>1. arg' - 1 = arg /\ args' = args /\ tree' = tree
    BY DEF fixed
  <2> QED
    BY <2>1 DEF Before, Selects
<1>3. C = IF Selects(Arg, f) THEN B \cup {arg} ELSE B
  BY DEF Arg
<1>4. Cardinality(B) = Before(f) /\ Cardinality(B) \in Nat
  BY <1>1, FS_CardinalityType DEF Before
<1>5. Cardinality(B \cup {arg}) = Cardinality(B) + 1
  BY <1>1, FS_AddElement
<1> HIDE DEF B, C
<1> QED
  BY <1>2, <1>3, <1>4, <1>5

\* At first nothing has been processed and nothing is due.
LEMMA CountInit == Init => CInv
<1> SUFFICES ASSUME Init PROVE CInv
  OBVIOUS
<1>1. pc = "list" /\ arg = 1 /\ count = [f \in tree.files |-> 0]
  BY DEF Init
<1>2. ASSUME NEW f \in tree.files PROVE Due(f) = 0 /\ count[f] = 0
  <2>1. {i \in 1..arg - 1 : Selects(args[i], f)} = {}
    BY <1>1
  <2> QED
    BY <1>1, <2>1, FS_EmptySet DEF Due, Before, Visited, Walking
<1> QED
  BY <1>1, <1>2 DEF CInv, AtMostDue, AsDue

\* Every step processes what becomes due, or notes a failure.
LEMMA CountStep ==
  WInv /\ PInv /\ FInv /\ TInv /\ CInv /\ [Next]_vars => CInv'
<1> SUFFICES ASSUME WInv, PInv, FInv, TInv, CInv, [Next]_vars PROVE CInv'
  OBVIOUS
<1>a. /\ TypeOK /\ cwd \in Seq(Names) /\ stack \in Seq(Frames)
      /\ args \in Seq(Seq(Names)) /\ arg \in Nat \ {0} /\ Len(args) \in Nat
      /\ count \in [tree.files -> Nat]
  BY WalkAssumption DEF WInv, TypeOK
<1>n. WInv' /\ FInv' /\ (Noted => Noted')
  BY WalkStep, FailedStep
<1>t. ASSUME stack # <<>> PROVE Top \in Frames /\ Front(stack) \in Seq(Frames)
  BY <1>a, <1>t, TopType
<1>s. ASSUME NEW S, Strikes(S) PROVE faulted \subseteq faulted' /\ S \subseteq faulted'
  BY <1>s DEF Strikes
\* Where nothing is stranded, and where nothing has failed at all.
<1>u. ASSUME faulted \subseteq faulted', faulted' \cap Stranding = {}
      PROVE  /\ Placed /\ AtMostDue /\ Trail(Arg, stack)
             /\ Walking => Arg \in tree.dirs \cap ArgsIn
             /\ pc \in {"open", "return"} => Leads(Arg, stack, cwd)
  BY <1>u DEF PInv, TInv, CInv
<1>v. ASSUME faulted \subseteq faulted', ~Noted', "unknown" \notin faulted'
      PROVE  /\ ~Noted /\ AsDue /\ faulted = {} /\ faulted' = {}
             /\ faulted' \cap Stranding = {}
  <2>1. faulted' = {}
    BY <1>v, <1>n DEF FInv
  <2> QED
    BY <1>v, <1>n, <2>1 DEF CInv
<1>g. ASSUME pc' = "done" => failure_flag' \/ arg' = Len(args') + 1,
             faulted' \cap Stranding = {} => AtMostDue',
             ~Noted' /\ "unknown" \notin faulted' => AsDue'
      PROVE  CInv'
  BY <1>g DEF CInv
\* A step that does not go on with the next argument.
<1>k. ASSUME UNCHANGED <<fixed, arg>>, Walking, Walking' \/ (pc' = "done" /\ arg <= Len(args)),
             NEW f
      PROVE  /\ Before(f) \in Nat /\ Before(f)' = Before(f)
             /\ Visited(f) <=> Selects(Arg, f) /\ ~ Pending(f)
             /\ Visited(f)' <=> Selects(Arg, f) /\ ~ Pending(f)'
             /\ tree' = tree
  BY <1>a, <1>k, BeforeNow DEF Visited, Arg, Selects, fixed
\* One that processes no file: files may cease to be pending, but if nothing fails
\* none that is selected does.
<1>w. ASSUME UNCHANGED <<fixed, arg, count>>, Walking,
             Walking' \/ (pc' = "done" /\ arg <= Len(args) /\ failure_flag'),
             faulted \subseteq faulted',
             ASSUME faulted' \cap Stranding = {}, NEW f \in tree.files, Pending(f)'
             PROVE  Pending(f),
             ASSUME ~Noted', "unknown" \notin faulted', NEW f \in tree.files,
                    Selects(Arg, f), Pending(f)
             PROVE  Pending(f)'
      PROVE  CInv'
  <2>1. tree' = tree /\ count' = count
    BY <1>w DEF fixed
  <2>2. ASSUME faulted' \cap Stranding = {}, NEW f \in tree.files
        PROVE  count'[f] <= Due(f)'
    <3>1. count[f] <= Due(f) /\ count[f] \in Nat
      BY <1>a, <1>u, <1>w, <2>2 DEF AtMostDue
    <3>2. Pending(f)' => Pending(f)
      BY <1>w, <2>2
    <3> QED
      BY <1>k, <1>w, <2>1, <3>1, <3>2 DEF Due
  <2>3. ASSUME ~Noted', "unknown" \notin faulted', NEW f \in tree.files
        PROVE  count'[f] = Due(f)'
    <3>1. count[f] = Due(f) /\ faulted' \cap Stranding = {}
      BY <1>v, <1>w, <2>3 DEF AsDue
    <3>2. Selects(Arg, f) => (Pending(f)' <=> Pending(f))
      BY <1>w, <2>3, <3>1
    <3> QED
      BY <1>k, <1>w, <2>1, <3>1, <3>2 DEF Due
  <2> QED
    BY <1>g, <1>w, <2>1, <2>2, <2>3 DEF AtMostDue, AsDue, Walking
\* One that goes on with the next argument, from a call that is over or none.
<1>l. ASSUME UNCHANGED fixed, arg' = arg + 1, pc' = "list", faulted \subseteq faulted',
             NEW f \in tree.files,
             \/ pc = "list"
             \/ pc = "return" /\ stack = <<>>
      PROVE  /\ Before(f) \in Nat
             /\ Due(f)' = Before(f) + (IF Selects(Arg, f) THEN 1 ELSE 0)
             /\ Due(f) = Before(f) + (IF pc = "return" /\ Selects(Arg, f) THEN 1 ELSE 0)
  <2>1. ~ Visited(f)'
    BY <1>l DEF Visited, Walking
  <2>2. Visited(f) <=> pc = "return" /\ Selects(Arg, f)
    BY <1>l DEF Visited, Walking, Pending, PendingIn
  <2> QED
    BY <1>a, <1>l, <2>1, <2>2, BeforeNext DEF Due
<1>1. CASE ArgFails
  <2>1. /\ UNCHANGED <<fixed, count>> /\ arg' = arg + 1 /\ pc' = "list" /\ pc = "list" /\ Noted'
        /\ tree' = tree /\ faulted \subseteq faulted'
    BY <1>1, <1>s DEF ArgFails, Listing, NextArg, walk, fixed, Noted
  <2>2. ASSUME faulted' \cap Stranding = {}, NEW f \in tree.files
        PROVE  count'[f] <= Due(f)'
    <3>1. count[f] <= Due(f) /\ count[f] \in Nat /\ count' = count
      BY <1>a, <1>u, <2>1, <2>2 DEF AtMostDue
    <3>2. Due(f)' >= Due(f) /\ Due(f)' \in Nat /\ Due(f) \in Nat
      BY <1>l, <2>1
    <3> QED
      BY <3>1, <3>2
  <2> QED
    BY <1>g, <2>1, <2>2 DEF AtMostDue
<1>2. CASE ArgSkipped
  <2>1. /\ UNCHANGED <<fixed, count>> /\ arg' = arg + 1 /\ pc' = "list" /\ pc = "list"
        /\ tree' = tree /\ faulted \subseteq faulted'
    BY <1>2, <1>s DEF ArgSkipped, Listing, NextArg, walk, fixed
  <2>2. ASSUME faulted' \cap Stranding = {}, NEW f \in tree.files
        PROVE  count'[f] <= Due(f)'
    <3>1. count[f] <= Due(f) /\ count[f] \in Nat /\ count' = count
      BY <1>a, <1>u, <2>1, <2>2 DEF AtMostDue
    <3>2. Due(f)' >= Due(f) /\ Due(f)' \in Nat /\ Due(f) \in Nat
      BY <1>l, <2>1
    <3> QED
      BY <3>1, <3>2
  <2>3. ASSUME ~Noted', "unknown" \notin faulted', NEW f \in tree.files
        PROVE  count'[f] = Due(f)'
    <3>1. ~Noted /\ AsDue
      BY <1>v, <2>1, <2>3
    <3>2. ~ omit_dir_flag
      BY <3>1 DEF FInv, Noted
    <3>3. ~ Selects(Arg, f)
      BY <1>2, <3>2 DEF ArgSkipped, Selects
    <3> QED
      BY <1>a, <1>l, <2>1, <3>1, <3>3 DEF AsDue
  <2> QED
    BY <1>g, <2>1, <2>2, <2>3 DEF AtMostDue, AsDue
<1>3. CASE ListFile
  <2>1. PICK S \in SUBSET ({"file"} \cup IfKept({"utime"})), failed \in BOOLEAN :
          HandleFile(Arg, S, failed) /\ NextArg(failed)
    BY <1>3 DEF ListFile
  <2>2. /\ UNCHANGED fixed /\ arg' = arg + 1 /\ pc' = "list" /\ pc = "list"
        /\ tree' = tree /\ faulted \subseteq faulted' /\ Arg \in tree.files \cap ArgsIn
    BY <1>3, <2>1, <1>s DEF ListFile, HandleFile, Listing, NextArg, walk, fixed
  <2>3. \A f \in tree.files : Selects(Arg, f) <=> f = Arg
    BY <2>2, <1>a, TreeAssumption DEF Selects, TypeOK
  <2>4. ASSUME NEW f \in tree.files
        PROVE  /\ count'[f] <= count[f] + (IF f = Arg THEN 1 ELSE 0)
               /\ ~Noted' => count'[f] = count[f] + (IF f = Arg THEN 1 ELSE 0)
    <3>1. CASE Arg \in tree.files /\ FreeStream
      BY <2>1, <3>1, <1>a DEF HandleFile
    <3>2. CASE ~ (Arg \in tree.files /\ FreeStream)
      <4>1. count' = count /\ failed
        BY <2>1, <3>2 DEF HandleFile
      <4>2. Noted'
        BY <2>1, <4>1 DEF NextArg, Noted
      <4> QED
        BY <1>a, <4>1, <4>2
    <3> QED
      BY <3>1, <3>2
  <2>c. count' \in [tree.files -> Nat]
    BY <1>a, <2>1, HandleFileType
  <2>5. ASSUME faulted' \cap Stranding = {}, NEW f \in tree.files
        PROVE  count'[f] <= Due(f)'
    <3>1. count[f] <= Due(f) /\ count[f] \in Nat /\ count'[f] \in Nat
      BY <1>a, <1>u, <2>c, <2>2, <2>5 DEF AtMostDue
    <3>2. /\ Due(f)' = Due(f) + (IF f = Arg THEN 1 ELSE 0)
          /\ Due(f) \in Nat
      BY <1>l, <2>2, <2>3
    <3> QED
      BY <2>4, <3>1, <3>2
  <2>6. ASSUME ~Noted', "unknown" \notin faulted', NEW f \in tree.files
        PROVE  count'[f] = Due(f)'
    <3>1. count[f] = Due(f)
      BY <1>v, <2>2, <2>6 DEF AsDue
    <3> QED
      BY <1>a, <1>l, <2>2, <2>3, <2>4, <2>6, <3>1
  <2> QED
    BY <1>g, <2>2, <2>5, <2>6 DEF AtMostDue, AsDue
<1>4. CASE ListDir
  <2>1. /\ UNCHANGED <<fixed, arg, count>> /\ pc = "list" /\ pc' = "open"
        /\ tree' = tree /\ faulted \subseteq faulted' /\ stack' = <<>> /\ cwd' = Arg
        /\ Arg \in tree.dirs /\ Arg' = Arg
    BY <1>4, <1>s DEF ListDir, Listing, fixed, WInv, Arg
  <2>2. ASSUME NEW f \in tree.files
        PROVE  Due(f)' = Due(f)
    <3>1. ~ Visited(f)
      BY <2>1 DEF Visited, Walking
    <3>2. Selects(Arg, f) => IsStrictPrefix(Arg, f)
      BY <2>1, <1>a, TreeAssumption DEF Selects, TypeOK
    <3>3. ~ Visited(f)'
      BY <2>1, <3>2 DEF Visited, Walking, Pending, Selects
    <3> QED
      BY <1>a, <2>1, <3>1, <3>3, BeforeNow DEF Due
  <2> QED
    BY <1>g, <1>u, <1>v, <2>1, <2>2 DEF AtMostDue, AsDue
<1>5. CASE BackToList
  <2>1. /\ UNCHANGED <<fixed, count>> /\ arg' = arg + 1 /\ pc' = "list" /\ pc = "return"
        /\ tree' = tree /\ faulted \subseteq faulted' /\ stack = <<>>
    BY <1>5, <1>s DEF BackToList, Restore, NextArg, fixed
  <2>2. ASSUME NEW f \in tree.files
        PROVE  Due(f)' = Due(f)
    BY <1>l, <2>1, <2>2
  <2> QED
    BY <1>g, <1>u, <1>v, <2>1, <2>2 DEF AtMostDue, AsDue
<1>6. CASE BackToListFails
  <2>1. /\ UNCHANGED <<fixed, count, arg>> /\ pc' = "done" /\ pc = "return" /\ stack' = stack
        /\ stack = <<>> /\ failure_flag' /\ arg <= Len(args) /\ faulted \subseteq faulted'
    BY <1>6, <1>s DEF BackToListFails, WInv
  <2> QED
    BY <1>w, <2>1 DEF Pending, Walking
<1>7. CASE Finish
  <2>1. /\ UNCHANGED <<fixed, count, arg>> /\ pc' = "done" /\ pc = "list" /\ tree' = tree
        /\ arg = Len(args) + 1 /\ faulted' = faulted
    BY <1>7, <1>a DEF Finish, list, fixed, TypeOK
  <2>2. ASSUME NEW f \in tree.files
        PROVE  Due(f)' = Due(f)
    <3>1. ~ Visited(f)
      BY <2>1 DEF Visited, Walking
    <3>2. ~ Visited(f)'
      BY <1>a, <2>1 DEF Visited, Walking, fixed
    <3> QED
      BY <1>a, <2>1, <3>1, <3>2, BeforeNow DEF Due
  <2>3. arg' = Len(args') + 1
    BY <2>1 DEF fixed
  <2> QED
    BY <1>g, <1>u, <1>v, <2>1, <2>2, <2>3 DEF AtMostDue, AsDue
<1>8. CASE OpenDir
  <2> DEFINE fr == [path |-> relative_path, dir |-> cwd, left |-> Entries(cwd),
                    failed |-> FALSE, entry |-> CHOOSE n \in Names : TRUE, saved |-> {}]
  <2>1. fr \in Frames /\ fr.dir = cwd /\ fr.left = Entries(cwd)
    BY <1>a, WalkAssumption DEF Frames, Times, Entries, TypeOK
  <2>2. /\ UNCHANGED <<fixed, count, arg>> /\ pc' = "dir" /\ pc = "open"
        /\ faulted \subseteq faulted' /\ stack' = Append(stack, fr)
    BY <1>8, <1>s DEF OpenDir, list
  <2> HIDE DEF fr
  <2>3. ASSUME NEW f \in tree.files, Pending(f)'
        PROVE  Pending(f)
    <3>1. PendingIn(stack, f) \/ UnderFrame(fr, f)
      BY <2>1, <2>2, <2>3, <1>a, PendingPush DEF Pending
    <3> QED
      BY <2>1, <2>2, <3>1 DEF Pending, UnderFrame
  <2>4. ASSUME NEW f \in tree.files, Pending(f)
        PROVE  Pending(f)'
    <3>1. CASE IsStrictPrefix(cwd, f)
      <4>1. f \in Seq(Names) /\ Len(cwd) < Len(f)
        BY <1>a, <3>1, StrictPrefix, TreeAssumption DEF TypeOK
      <4> DEFINE n == f[Len(cwd) + 1]
      <4>2. n \in Names
        BY <1>a, <4>1
      <4>3. Append(cwd, n) \in Nodes
        <5>1. f = Append(cwd, n) \/ Append(cwd, n) \in tree.dirs
          BY <1>a, <3>1, <4>2, Through
        <5> QED
          BY <5>1 DEF Nodes
      <4>4. UnderFrame(fr, f)
        BY <2>1, <3>1, <4>2, <4>3 DEF UnderFrame, Entries
      <4> QED
        BY <1>a, <2>1, <2>2, <4>4, PendingPush DEF Pending
    <3>2. CASE PendingIn(stack, f)
      BY <1>a, <2>1, <2>2, <3>2, PendingPush DEF Pending
    <3> QED
      BY <2>4, <3>1, <3>2 DEF Pending
  <2> QED
    BY <1>w, <2>2, <2>3, <2>4 DEF Walking
<1>9. CASE OpenDirFails
  <2>1. /\ UNCHANGED <<fixed, count, arg>> /\ pc' = "return" /\ pc = "open" /\ stack' = stack
        /\ Noted' /\ faulted \subseteq faulted'
    BY <1>9, <1>s DEF OpenDirFails, list, Noted
  <2> QED
    BY <1>w, <2>1 DEF Walking, Pending
<1>10. CASE EndDir
  <2>1. /\ UNCHANGED <<fixed, count, arg>> /\ pc' = "return" /\ pc = "dir"
        /\ stack' = Front(stack) /\ stack # <<>> /\ Top.left = {} /\ faulted \subseteq faulted'
    BY <1>10 DEF EndDir, ReturnFromDir, WInv, list
  <2>2. ASSUME NEW f PROVE Pending(f)' <=> Pending(f)
    BY <1>a, <2>1, PendingPop DEF Pending, UnderFrame, Top
  <2> QED
    BY <1>w, <2>1, <2>2 DEF Walking
<1>11. CASE UpDir
  <2>1. PICK failed \in BOOLEAN :
          /\ Restore(Append(Front(cwd), Top.entry), Top.saved, failed)
          /\ SetTop([Top EXCEPT !.failed = @ \/ ret \/ failed])
    BY <1>11 DEF UpDir
  <2> DEFINE fr == [Top EXCEPT !.failed = @ \/ ret \/ failed]
  <2>2. /\ UNCHANGED <<fixed, count, arg>> /\ pc' = "dir" /\ pc = "return"
        /\ stack # <<>> /\ Top \in Frames /\ faulted \subseteq faulted'
    BY <1>11, <1>t, <2>1, <1>s DEF UpDir, Restore, list
  <2>3. fr \in Frames /\ fr.dir = Top.dir /\ fr.left = Top.left /\ SetTop(fr)
    BY <2>1, <2>2, <1>a DEF Frames, TypeOK
  <2> HIDE DEF fr
  <2>4. ASSUME NEW f PROVE Pending(f)' <=> Pending(f)
    <3>1. UnderFrame(fr, f) <=> UnderFrame(Top, f)
      BY <2>3 DEF UnderFrame
    <3> QED
      BY <1>a, <2>2, <2>3, <3>1, PendingSetTop DEF Pending
  <2> QED
    BY <1>w, <2>2, <2>4 DEF Walking
<1>12. CASE UpDirFails
  <2>1. /\ UNCHANGED <<fixed, count, arg>> /\ pc' = "return" /\ pc = "return"
        /\ faulted \subseteq faulted' /\ Noted' /\ faulted' \cap Stranding # {}
    BY <1>12, <1>s DEF UpDirFails, ReturnFromDir, list, Noted, Stranding
  <2> QED
    BY <1>w, <2>1 DEF Walking
\* A step that takes the entry e from the top.
<1>e. ASSUME NEW e \in Names, stack # <<>>, pc = "dir", NEW fr \in Frames, SetTop(fr),
             fr.dir = Top.dir, fr.left = Top.left \ {e}, e \in Top.left, pc' \in {"dir", "open"},
             faulted \subseteq faulted', faulted' \cap Stranding = {},
             NEW f \in tree.files
      PROVE  /\ Top.dir = cwd /\ Leads(Arg, Front(stack), cwd)
             /\ Arg \in tree.dirs \cap ArgsIn /\ Arg \in Seq(Names)
             /\ IsStrictPrefix(cwd, f) /\ f[Len(cwd) + 1] = e => Pending(f)
             /\ ~ (IsStrictPrefix(cwd, f) /\ f[Len(cwd) + 1] = e)
                  => (Pending(f) <=> PendingIn(stack', f))
             /\ PendingIn(stack', f) => Pending(f)
  <2>1. Top.dir = cwd /\ Arg \in tree.dirs \cap ArgsIn /\ Trail(Arg, stack)
    BY <1>e, <1>u DEF Placed, Walking
  <2>2. Leads(Arg, Front(stack), cwd)
    BY <1>a, <1>e, <2>1, TrailPop DEF Top
  <2>3. Arg \in Seq(Names)
    BY <1>a, <1>e DEF Arg, WInv
  <2>4. /\ UnderFrame(fr, f) => UnderFrame(Top, f)
        /\ ~ (IsStrictPrefix(cwd, f) /\ f[Len(cwd) + 1] = e)
             => (UnderFrame(Top, f) => UnderFrame(fr, f))
        /\ IsStrictPrefix(cwd, f) /\ f[Len(cwd) + 1] = e => UnderFrame(Top, f)
    BY <1>e, <2>1 DEF UnderFrame
  <2>5. /\ PendingIn(stack', f) <=> PendingIn(Front(stack), f) \/ UnderFrame(fr, f)
        /\ PendingIn(stack, f) <=> PendingIn(Front(stack), f) \/ UnderFrame(Top, f)
    BY <1>a, <1>e, PendingSetTop
  <2>6. Pending(f) <=> PendingIn(stack, f)
    BY <1>e DEF Pending
  <2> QED
    BY <2>1, <2>2, <2>3, <2>4, <2>5, <2>6
\* The same without entering a directory.
<1>c. ASSUME NEW e \in Names, NEW failed \in BOOLEAN, stack # <<>>, pc = "dir", pc' = "dir",
             Consumed(e, failed), e \in Top.left, faulted \subseteq faulted',
             faulted' \cap Stranding = {}, NEW f \in tree.files
      PROVE  /\ Top.dir = cwd /\ Leads(Arg, Front(stack), cwd)
             /\ Arg \in tree.dirs \cap ArgsIn /\ Arg \in Seq(Names)
             /\ IsStrictPrefix(cwd, f) /\ f[Len(cwd) + 1] = e => Pending(f)
             /\ ~ (IsStrictPrefix(cwd, f) /\ f[Len(cwd) + 1] = e) => (Pending(f) <=> Pending(f)')
             /\ Pending(f)' => Pending(f)
  <2> DEFINE fr == [Top EXCEPT !.left = @ \ {e}, !.failed = @ \/ failed]
  <2>1. fr \in Frames /\ SetTop(fr) /\ fr.dir = Top.dir /\ fr.left = Top.left \ {e}
    BY <1>c, <1>t DEF Frames, Consumed
  <2>2. Pending(f)' <=> PendingIn(stack', f)
    BY <1>c DEF Pending
  <2> HIDE DEF fr
  <2> QED
    BY <1>c, <1>e, <2>1, <2>2
<1>13. ASSUME NEW e \in Names, WalkFile(e) PROVE CInv'
  <2>1. PICK S \in SUBSET ({"file"} \cup IfKept({"lstat", "utime"})), failed \in BOOLEAN :
          HandleFile(Append(cwd, e), S, failed) /\ Consumed(e, failed)
    BY <1>13 DEF WalkFile
  <2> DEFINE p == Append(cwd, e)
  <2>2. /\ UNCHANGED <<fixed, arg>> /\ tree' = tree /\ pc' = "dir" /\ pc = "dir"
        /\ stack # <<>> /\ e \in Top.left /\ e \in FileNames /\ faulted \subseteq faulted'
        /\ Append(Top.dir, e) \in tree.files
    BY <1>13, <2>1, <1>s DEF WalkFile, HandleFile, Delivers, WInv, list, fixed
  <2>3. ASSUME NEW f \in tree.files
        PROVE  /\ count'[f] <= count[f] + (IF f = p THEN 1 ELSE 0)
               /\ ~Noted' => count'[f] = count[f] + (IF f = p THEN 1 ELSE 0)
    <3>1. CASE p \in tree.files /\ FreeStream
      <4>1. count' = [count EXCEPT ![p] = @ + 1]
        BY <2>1, <3>1 DEF HandleFile
      <4> HIDE DEF p
      <4> QED
        BY <1>a, <4>1
    <3>2. CASE ~ (p \in tree.files /\ FreeStream)
      <4>1. count' = count /\ failed
        BY <2>1, <3>2 DEF HandleFile
      <4>2. Noted'
        BY <1>a, <2>1, <2>2, <4>1, FailedConsumed DEF Noted
      <4> QED
        BY <1>a, <4>1, <4>2
    <3> QED
      BY <3>1, <3>2
  <2>c. count' \in [tree.files -> Nat]
    BY <1>a, <2>1, HandleFileType
  <2>4. ASSUME faulted' \cap Stranding = {}, NEW f \in tree.files
        PROVE  /\ Due(f)' = Due(f) + (IF f = p THEN 1 ELSE 0)
               /\ Due(f) \in Nat
    <3>1. /\ Top.dir = cwd /\ Leads(Arg, Front(stack), cwd)
          /\ Arg \in tree.dirs \cap ArgsIn /\ Arg \in Seq(Names)
          /\ IsStrictPrefix(cwd, f) /\ f[Len(cwd) + 1] = e => Pending(f)
          /\ ~ (IsStrictPrefix(cwd, f) /\ f[Len(cwd) + 1] = e) => (Pending(f) <=> Pending(f)')
      BY <1>c, <2>1, <2>2, <2>4
    <3>2. p \in tree.files /\ p \notin tree.dirs
      BY <1>a, <2>2, <3>1, TreeAssumption DEF TypeOK
    <3>3. CASE f = p
      <4>1. IsStrictPrefix(cwd, f) /\ f[Len(cwd) + 1] = e
        BY <1>a, <3>3, Through
      <4>2. Selects(Arg, f)
        BY <1>a, <2>2, <3>1, <3>3, SelectedBelow DEF Leads
      <4>3. ~ Pending(f)'
        <5> DEFINE fr == [Top EXCEPT !.left = @ \ {e}, !.failed = @ \/ failed]
        <5>1. fr \in Frames /\ SetTop(fr) /\ fr.dir = cwd /\ fr.left = Top.left \ {e}
          BY <2>1, <2>2, <3>1, <1>t DEF Frames, Consumed
        <5> HIDE DEF fr
        <5>2. ~ UnderFrame(fr, f)
          BY <4>1, <5>1 DEF UnderFrame
        <5>3. ~ PendingIn(Front(stack), f)
          BY <1>a, <1>t, <2>2, <3>1, <3>3, NotBack
        <5> QED
          BY <1>a, <2>2, <5>1, <5>2, <5>3, PendingSetTop DEF Pending
      <4> QED
        BY <1>k, <2>2, <3>1, <3>3, <4>1, <4>2, <4>3 DEF Due, Walking
    <3>4. CASE f # p
      <4>1. ~ (IsStrictPrefix(cwd, f) /\ f[Len(cwd) + 1] = e)
        BY <1>a, <3>2, <3>4, Through
      <4> QED
        BY <1>k, <2>2, <3>1, <3>4, <4>1 DEF Due, Walking
    <3> QED
      BY <3>3, <3>4
  <2>5. ASSUME faulted' \cap Stranding = {}, NEW f \in tree.files
        PROVE  count'[f] <= Due(f)'
    <3>1. count[f] <= Due(f) /\ count[f] \in Nat /\ count'[f] \in Nat
      BY <1>a, <1>u, <2>c, <2>2, <2>5 DEF AtMostDue
    <3>2. Due(f)' = Due(f) + (IF f = p THEN 1 ELSE 0) /\ Due(f) \in Nat
      BY <2>4, <2>5
    <3> HIDE DEF p
    <3> QED
      BY <2>3, <3>1, <3>2
  <2>6. ASSUME ~Noted', "unknown" \notin faulted', NEW f \in tree.files
        PROVE  count'[f] = Due(f)'
    <3>1. count[f] = Due(f) /\ faulted' \cap Stranding = {}
      BY <1>v, <2>2, <2>6 DEF AsDue
    <3> QED
      BY <1>a, <2>3, <2>4, <2>6, <3>1
  <2> QED
    BY <1>g, <2>2, <2>5, <2>6 DEF AtMostDue, AsDue
<1>14. ASSUME NEW e \in Names, WalkSkip(e) PROVE CInv'
  <2>1. /\ UNCHANGED <<fixed, arg, count>> /\ pc' = "dir" /\ pc = "dir" /\ Consumed(e, FALSE)
        /\ stack # <<>> /\ e \in Top.left /\ faulted \subseteq faulted'
        /\ Append(Top.dir, e) \in Nodes
    BY <1>14, <1>s DEF WalkSkip, Delivers, WInv, list
  <2>2. ASSUME faulted' \cap Stranding = {}, NEW f \in tree.files, Pending(f)'
        PROVE  Pending(f)
    BY <1>c, <2>1, <2>2
  <2>3. ASSUME ~Noted', "unknown" \notin faulted', NEW f \in tree.files,
               Selects(Arg, f), Pending(f)
        PROVE  Pending(f)'
    <3>1. /\ Top.dir = cwd /\ Leads(Arg, Front(stack), cwd)
          /\ Arg \in tree.dirs \cap ArgsIn /\ Arg \in Seq(Names)
          /\ ~ (IsStrictPrefix(cwd, f) /\ f[Len(cwd) + 1] = e) => (Pending(f) <=> Pending(f)')
      BY <1>c, <1>v, <2>1, <2>3
    <3>2. /\ ~ (Append(cwd, e) \in tree.files /\ e \in FileNames)
          /\ ~ (Append(cwd, e) \in tree.dirs /\ e \in DirNames)
      BY <1>14, <2>1, <2>3, <3>1 DEF WalkSkip, Delivers, Strikes
    <3>3. ~ (f = Append(cwd, e))
      BY <1>a, <2>3, <3>1, <3>2, SelectedBelow DEF Leads
    <3>4. ~ (Append(cwd, e) \in tree.dirs /\ IsStrictPrefix(Append(cwd, e), f))
      BY <1>a, <2>3, <3>1, <3>2, SelectedBelow DEF Leads
    <3>5. ~ (IsStrictPrefix(cwd, f) /\ f[Len(cwd) + 1] = e)
      BY <1>a, <3>3, <3>4, Through
    <3> QED
      BY <2>3, <3>1, <3>5
  <2> QED
    BY <1>w, <2>1, <2>2, <2>3 DEF Walking
<1>15. ASSUME NEW e \in Names, Descend(e) PROVE CInv'
  <2> DEFINE there == Append(cwd, e)
             fr(S) == [Top EXCEPT !.left = @ \ {e}, !.failed = @ \/ S # {}, !.entry = e,
                         !.saved = IF S = {} THEN IfKept({time[there]}) ELSE {}]
  <2>1. PICK S \in SUBSET IfKept({"lstat"}) : Strikes(S) /\ SetTop(fr(S))
    BY <1>15 DEF Descend
  <2>2. /\ UNCHANGED <<fixed, arg, count>> /\ pc' = "open" /\ pc = "dir" /\ cwd' = there
        /\ stack # <<>> /\ e \in Top.left /\ faulted \subseteq faulted' /\ there \in tree.dirs
        /\ Top \in Frames
    BY <1>15, <2>1, <1>s, <1>t DEF Descend, Delivers, WInv, list
  <2>3. IfKept({time[there]}) \in Times /\ {} \in Times
    BY <2>2, <1>a DEF Nodes, Times, TypeOK, IfKept
  <2>4. /\ fr(S) \in Frames /\ fr(S).dir = Top.dir /\ fr(S).left = Top.left \ {e}
        /\ SetTop(fr(S))
    BY <2>1, <2>2, <2>3 DEF Frames
  <2> HIDE DEF fr
  <2>5. ASSUME NEW f \in tree.files
        PROVE  Pending(f)' <=> PendingIn(stack', f) \/ IsStrictPrefix(there, f)
    BY <2>2 DEF Pending
  <2>6. ASSUME NEW f \in tree.files
        PROVE  /\ IsStrictPrefix(cwd, f) /\ f[Len(cwd) + 1] = e => IsStrictPrefix(there, f)
               /\ IsStrictPrefix(there, f) => IsStrictPrefix(cwd, f) /\ f[Len(cwd) + 1] = e
    <3>1. f # there
      BY <1>a, <2>2, TreeAssumption DEF TypeOK
    <3> QED
      BY <1>a, <3>1, Through
  <2>7. ASSUME faulted' \cap Stranding = {}, NEW f \in tree.files
        PROVE  Pending(f)' <=> Pending(f)
    <3>1. /\ IsStrictPrefix(cwd, f) /\ f[Len(cwd) + 1] = e => Pending(f)
          /\ ~ (IsStrictPrefix(cwd, f) /\ f[Len(cwd) + 1] = e)
               => (Pending(f) <=> PendingIn(stack', f))
          /\ PendingIn(stack', f) => Pending(f)
      BY <1>e, <2>2, <2>4, <2>7
    <3> QED
      BY <2>5, <2>6, <3>1
  <2>8. ~Noted' /\ "unknown" \notin faulted' => faulted' \cap Stranding = {}
    BY <1>v, <2>2
  <2> QED
    BY <1>w, <2>2, <2>7, <2>8 DEF Walking
<1>16. ASSUME NEW e \in Names, DescendFails(e) PROVE CInv'
  <2>1. /\ UNCHANGED <<fixed, arg, count>> /\ pc' = "dir" /\ pc = "dir" /\ Consumed(e, TRUE)
        /\ stack # <<>> /\ e \in Top.left /\ faulted \subseteq faulted'
    BY <1>16, <1>s DEF DescendFails, Delivers, WInv, list
  <2>2. Noted'
    BY <1>a, <2>1, FailedConsumed DEF Noted
  <2>3. ASSUME faulted' \cap Stranding = {}, NEW f \in tree.files, Pending(f)'
        PROVE  Pending(f)
    BY <1>c, <2>1, <2>3
  <2> QED
    BY <1>w, <2>1, <2>2, <2>3 DEF Walking
<1>17. ASSUME NEW e \in Names, NoPath(e) PROVE CInv'
  <2>1. /\ UNCHANGED <<fixed, count, arg>> /\ pc' = "return" /\ pc = "dir"
        /\ faulted \subseteq faulted' /\ Noted' /\ faulted' \cap Stranding # {}
    BY <1>17, <1>s DEF NoPath, Delivers, ReturnFromDir, list, Noted, Stranding
  <2> QED
    BY <1>w, <2>1 DEF Walking
<1>18. CASE UNCHANGED vars
  <2>1. /\ UNCHANGED <<fixed, arg, count, failure_flag, faulted>> /\ pc' = pc /\ stack' = stack
        /\ cwd' = cwd /\ tree' = tree /\ args' = args /\ ret' = ret
    BY <1>18 DEF vars, fixed, walk, list
  <2>2. ASSUME NEW f PROVE Due(f)' = Due(f)
    <3>1. Visited(f)' = Visited(f)
      BY <2>1 DEF Visited, Pending, Walking, Arg, Selects
    <3> QED
      BY <1>a, <2>1, <3>1, BeforeNow DEF Due
  <2>3. Noted' = Noted
    BY <2>1 DEF Noted
  <2> QED
    BY <2>1, <2>2, <2>3 DEF CInv, AtMostDue, AsDue
<1> QED
  BY <1>1, <1>2, <1>3, <1>4, <1>5, <1>6, <1>7, <1>8, <1>9, <1>10, <1>11, <1>12,
     <1>13, <1>14, <1>15, <1>16, <1>17, <1>18 DEF Next, Walk

\* The invariants together hold at first.
LEMMA InvInit == Init => WInv /\ PInv /\ FInv /\ TInv /\ CInv
BY WalkInit, PlacedInit, FailedInit, TrailInit, CountInit

\* And every step keeps them.
LEMMA InvStep ==
  WInv /\ PInv /\ FInv /\ TInv /\ CInv /\ [Next]_vars
    => WInv' /\ PInv' /\ FInv' /\ TInv' /\ CInv'
BY WalkStep, PlacedStep, FailedStep, TrailStep, CountStep

\* The arguments that select a file, those done and those to come.
LEMMA SelectedFinite ==
  ASSUME TypeOK, NEW f, NEW I \in SUBSET (DOMAIN args)
  PROVE  /\ IsFiniteSet(I)
         /\ (\A i \in I : Selects(args[i], f)) => Cardinality(I) <= Selected(f)
         /\ Selected(f) \in Nat
<1> DEFINE A == {i \in DOMAIN args : Selects(args[i], f)}
<1>1. args \in Seq(Seq(Names)) /\ DOMAIN args = 1..Len(args) /\ Len(args) \in Nat
  BY WalkAssumption DEF TypeOK
<1>2. IsFiniteSet(DOMAIN args)
  BY <1>1, FS_Interval
<1>3. IsFiniteSet(I) /\ IsFiniteSet(A)
  BY <1>2, FS_Subset
<1>4. Selected(f) = Cardinality(A) /\ Cardinality(A) \in Nat
  BY <1>3, FS_CardinalityType DEF Selected
<1>5. (\A i \in I : Selects(args[i], f)) => I \subseteq A
  OBVIOUS
<1> QED
  BY <1>3, <1>4, <1>5, FS_Subset

\* Unless the walk is stranded, no file is ever processed more often than the
\* arguments select it, whatever else fails.
THEOREM NeverMoreOften == Spec => []NeverTooOften
<1>1. WInv /\ CInv => NeverTooOften
  <2> SUFFICES ASSUME WInv, CInv, faulted \cap Stranding = {}, NEW f \in tree.files
               PROVE  count[f] <= Selected(f)
    BY DEF NeverTooOften
  <2>a. TypeOK /\ DOMAIN args = 1..Len(args) /\ Len(args) \in Nat
        /\ arg \in 1..Len(args) + 1 /\ count[f] \in Nat
    BY WalkAssumption DEF WInv, TypeOK
  <2> DEFINE B == {i \in 1..arg - 1 : Selects(args[i], f)}
  <2>1. B \in SUBSET (DOMAIN args) /\ \A i \in B : Selects(args[i], f)
    BY <2>a
  <2>2. count[f] <= Due(f) /\ Due(f) = Cardinality(B) + (IF Visited(f) THEN 1 ELSE 0)
    BY DEF CInv, AtMostDue, Due, Before
  <2>3. IsFiniteSet(B) /\ arg \notin B /\ Cardinality(B) <= Selected(f) /\ Selected(f) \in Nat
        /\ Cardinality(B) \in Nat
    <3>1. arg \notin B
      BY <2>a
    <3> HIDE DEF B
    <3>2. IsFiniteSet(B) /\ Cardinality(B) <= Selected(f) /\ Selected(f) \in Nat
      BY <2>a, <2>1, SelectedFinite
    <3> QED
      BY <3>1, <3>2, FS_CardinalityType
  <2>4. CASE Visited(f)
    <3>1. arg \in DOMAIN args /\ Selects(args[arg], f)
      BY <2>a, <2>4 DEF Visited, Walking, WInv, Arg
    <3>2. /\ B \cup {arg} \in SUBSET (DOMAIN args)
          /\ \A i \in B \cup {arg} : Selects(args[i], f)
      BY <2>1, <3>1
    <3>3. Cardinality(B \cup {arg}) = Cardinality(B) + 1
      BY <2>3, FS_AddElement
    <3>4. Cardinality(B \cup {arg}) <= Selected(f)
      <4> HIDE DEF B
      <4> QED
        BY <2>a, <3>2, SelectedFinite
    <3> HIDE DEF B
    <3> QED
      BY <2>a, <2>2, <2>3, <2>4, <3>3, <3>4
  <2>5. CASE ~ Visited(f)
    <3> HIDE DEF B
    <3> QED
      BY <2>a, <2>2, <2>3, <2>5
  <2> QED
    BY <2>4, <2>5
<1> QED
  BY <1>1, InvInit, InvStep, PTL DEF Spec

\* A run that ends without a failure has processed each file exactly as often as
\* the arguments select it, unless an entry came without its type.
THEOREM SuccessVisitsAll == Spec => []SuccessMeansAllVisited
<1>1. WInv /\ FInv /\ CInv => SuccessMeansAllVisited
  <2> SUFFICES ASSUME WInv, FInv, CInv, pc = "done", ~failure_flag, "unknown" \notin faulted,
                      NEW f \in tree.files
               PROVE  count[f] = Selected(f)
    BY DEF SuccessMeansAllVisited
  <2>1. ~Noted
    BY DEF FInv, Noted, FailedIn
  <2>2. count[f] = Due(f) /\ arg = Len(args) + 1
    BY <2>1 DEF CInv, AsDue
  <2>a. DOMAIN args = 1..Len(args) /\ Len(args) \in Nat /\ count[f] \in Nat
    BY WalkAssumption DEF WInv, TypeOK
  <2>3. ~Visited(f)
    BY <2>2, <2>a DEF Visited, Walking
  <2>4. Before(f) = Selected(f)
    <3>1. arg - 1 = Len(args)
      BY <2>2, <2>a
    <3> QED
      BY <2>a, <3>1 DEF Before, Selected
  <2>5. Selected(f) \in Nat
    BY SelectedFinite DEF WInv
  <2> QED
    BY <2>2, <2>3, <2>4, <2>5 DEF Due
<1> QED
  BY <1>1, InvInit, InvStep, PTL DEF Spec

-----------------------------------------------------------------------------
(* The times of files and directories.                                      *)

\* The directories being read, whose times are lost for the moment; that a call
\* is returning from is one more.
DirsIn(st) == {st[k].dir : k \in 1..Len(st)}

\* With the directory that a call is returning from.
Lost == DirsIn(stack) \cup (IF pc = "return" THEN {cwd} ELSE {})

\* Each call has saved the time of the directory that it has recursed into.
Saves(st) == \A k \in 1..Len(st) - 1 : st[k].saved = {st[k + 1].dir}

\* The inductive invariant: only times that are lost are not their own, and they
\* are saved in the right place.
KInv ==
  keep /\ ~Noted =>
    /\ \A n \in Nodes \ Lost : time[n] = n
    /\ Saves(stack)
    /\ pc \in {"open", "return"} /\ stack # <<>> => Top.saved = {cwd}
    /\ Walking => saved = {Arg}

\* A call adds its directory.
LEMMA DirsPush ==
  ASSUME NEW st \in Seq(Frames), NEW fr \in Frames
  PROVE  DirsIn(Append(st, fr)) = DirsIn(st) \cup {fr.dir}
<1> DEFINE t == Append(st, fr)
<1>1. /\ Len(t) = Len(st) + 1 /\ t[Len(t)] = fr /\ Len(st) \in Nat
      /\ \A i \in 1..Len(st) : t[i] = st[i]
  BY Pushed DEF Last
<1>t. t = Append(st, fr)
  OBVIOUS
<1> HIDE DEF t
<1>2. 1..Len(t) = 1..Len(st) \cup {Len(t)}
  BY <1>1
<1> QED
  BY <1>1, <1>2, <1>t DEF DirsIn

\* Returning takes the directory away.
LEMMA DirsPop ==
  ASSUME NEW st \in Seq(Frames), st # <<>>
  PROVE  DirsIn(st) = DirsIn(Front(st)) \cup {Last(st).dir}
<1>1. Front(st) \in Seq(Frames) /\ Last(st) \in Frames /\ st = Append(Front(st), Last(st))
  BY Popped DEF Front, Last
<1> QED
  BY <1>1, DirsPush

\* A call whose caller has saved the time of its directory.
LEMMA SavesPush ==
  ASSUME NEW st \in Seq(Frames), NEW fr \in Frames, Saves(st),
         st # <<>> => Last(st).saved = {fr.dir}
  PROVE  Saves(Append(st, fr))
<1> DEFINE t == Append(st, fr)
<1>1. /\ Len(t) = Len(st) + 1 /\ t[Len(t)] = fr /\ Len(st) \in Nat
      /\ \A i \in 1..Len(st) : t[i] = st[i]
  BY Pushed DEF Last
<1>t. t = Append(st, fr)
  OBVIOUS
<1> HIDE DEF t
<1>2. ASSUME NEW k \in 1..Len(t) - 1 PROVE t[k].saved = {t[k + 1].dir}
  <2>1. CASE k = Len(st)
    <3>1. st # <<>> /\ Last(st) = st[k] /\ t[k + 1] = fr /\ t[k] = st[k]
      BY <1>1, <1>2, <2>1 DEF Last
    <3> QED
      BY <3>1
  <2>2. CASE k # Len(st)
    <3>1. k \in 1..Len(st) - 1 /\ t[k] = st[k] /\ t[k + 1] = st[k + 1]
      BY <1>1, <2>2
    <3> QED
      BY <3>1 DEF Saves
  <2> QED
    BY <2>1, <2>2
<1> QED
  BY <1>2, <1>t DEF Saves

\* What the caller of a returning call has saved.
LEMMA SavesPop ==
  ASSUME NEW st \in Seq(Frames), st # <<>>, Saves(st)
  PROVE  Saves(Front(st)) /\ (Front(st) # <<>> => Last(Front(st)).saved = {Last(st).dir})
<1> DEFINE t == Front(st)
<1>1. /\ t \in Seq(Frames) /\ Len(t) = Len(st) - 1 /\ Len(st) \in Nat \ {0}
      /\ \A i \in 1..Len(t) : t[i] = st[i]
  BY Popped
<1>t. t = Front(st)
  OBVIOUS
<1> HIDE DEF t
<1>2. \A k \in 1..Len(t) - 1 : k \in 1..Len(st) - 1 /\ t[k] = st[k] /\ t[k + 1] = st[k + 1]
  BY <1>1
<1>3. ASSUME t # <<>> PROVE Last(t).saved = {Last(st).dir}
  <2>1. Len(t) \in 1..Len(st) - 1 /\ Len(t) + 1 = Len(st) /\ t[Len(t)] = st[Len(t)]
    BY <1>1, <1>3
  <2> QED
    BY <2>1 DEF Saves, Last
<1> QED
  BY <1>2, <1>3, <1>t DEF Saves

\* Replacing the top by a frame of the same directory.
LEMMA TopKept ==
  ASSUME stack \in Seq(Frames), stack # <<>>, NEW fr \in Frames, fr.dir = Top.dir, SetTop(fr)
  PROVE  /\ DirsIn(stack') = DirsIn(stack) /\ Last(stack') = fr
         /\ Saves(stack) => Saves(stack')
<1>1. Front(stack) \in Seq(Frames) /\ stack' = Append(Front(stack), fr)
  BY Popped DEF SetTop
<1>2. DirsIn(stack') = DirsIn(Front(stack)) \cup {fr.dir}
      /\ DirsIn(stack) = DirsIn(Front(stack)) \cup {Top.dir}
  BY <1>1, DirsPush, DirsPop DEF Top
<1>3. ASSUME Saves(stack) PROVE Saves(stack')
  BY <1>1, <1>3, SavesPop, SavesPush DEF Top
<1>4. Last(stack') = fr
  BY <1>1, Pushed
<1> QED
  BY <1>2, <1>3, <1>4

\* At first every time is its own.
LEMMA TimesInit == Init => KInv
BY DEF Init, KInv, Saves, Walking

\* Every step restores the times it loses, or notes a failure.
LEMMA TimesStep == WInv /\ PInv /\ FInv /\ TInv /\ KInv /\ [Next]_vars => KInv'
<1> DEFINE K == /\ \A n \in Nodes \ Lost : time[n] = n
                /\ Saves(stack)
                /\ pc \in {"open", "return"} /\ stack # <<>> => Top.saved = {cwd}
                /\ Walking => saved = {Arg}
<1> SUFFICES ASSUME WInv, PInv, FInv, TInv, KInv, [Next]_vars, keep', ~Noted'
             PROVE  K'
  BY DEF KInv
<1>a. /\ TypeOK /\ cwd \in Seq(Names) /\ stack \in Seq(Frames)
      /\ args \in Seq(Seq(Names)) /\ arg \in Nat \ {0}
      /\ time \in [Nodes -> Nodes \cup {Now}]
  BY WalkAssumption DEF WInv, TypeOK
\* Nothing has failed, so that all is in its place.
<1>n. ~Noted /\ ~failure_flag /\ ~FailedIn(stack) /\ ~(pc = "return" /\ ret)
  BY FailedStep DEF Noted
<1>f. UNCHANGED fixed
  BY DEF Next, vars, Walk, ArgFails, ArgSkipped, ListFile, ListDir, BackToList,
         BackToListFails, Finish, OpenDir, OpenDirFails, EndDir, UpDir, UpDirFails,
         WalkFile, WalkSkip, Descend, DescendFails, NoPath
<1>p. /\ Placed /\ Trail(Arg, stack) /\ K
      /\ Walking => Arg \in tree.dirs \cap ArgsIn
      /\ pc \in {"open", "return"} => Leads(Arg, stack, cwd)
  <2>1. faulted \cap Stranding = {}
    BY <1>n DEF FInv, Stranding
  <2>2. keep
    BY <1>f DEF fixed
  <2> QED
    BY <1>n, <2>1, <2>2 DEF PInv, TInv, KInv
<1>y. Nodes' = Nodes /\ keep /\ keep' = keep /\ \A S : IfKept(S) = S
  BY <1>f DEF fixed, Nodes, IfKept
<1>t. ASSUME stack # <<>> PROVE Top \in Frames /\ Front(stack) \in Seq(Frames)
  BY <1>a, <1>t, TopType
<1>w. ASSUME Walking PROVE Arg \in Seq(Names)
  BY <1>a, <1>w DEF WInv, Walking, Arg
<1> HIDE DEF K
\* A step that changes the time of no node that is not lost.
<1>k. ASSUME Lost \subseteq Lost',
             \A n \in Nodes \ Lost' : time'[n] = time[n],
             Saves(stack'), pc' \in {"open", "return"} /\ stack' # <<>> => Last(stack').saved = {cwd'},
             UNCHANGED <<arg, saved>>, Walking' => Walking
      PROVE  K'
  <2>1. \A n \in Nodes' \ Lost' : time'[n] = n
    BY <1>k, <1>p, <1>y DEF K
  <2>2. Walking' => saved' = {Arg'}
    BY <1>k, <1>p, <1>f DEF K, fixed, Arg
  <2> QED
    BY <1>k, <2>1, <2>2 DEF K, Top
<1>l. ASSUME UNCHANGED stack, stack = <<>>, pc' \in {"list", "done"},
             \A n \in Nodes : time'[n] = n
      PROVE  K'
  BY <1>l, <1>y DEF K, Saves, Walking
<1>1. CASE ArgFails
  BY <1>1 DEF ArgFails, NextArg, Noted
<1>2. CASE ArgSkipped
  BY <1>2, <1>l, <1>p DEF ArgSkipped, Listing, WInv, walk, K, Lost, DirsIn
<1>3. CASE ListFile
  <2>1. PICK S \in SUBSET ({"file"} \cup IfKept({"utime"})), failed \in BOOLEAN :
          HandleFile(Arg, S, failed) /\ NextArg(failed)
    BY <1>3 DEF ListFile
  <2>2. ~failed
    BY <2>1 DEF NextArg, Noted
  <2>3. time' = time
    BY <2>1, <2>2, <1>y DEF HandleFile
  <2> QED
    BY <1>3, <2>3, <1>l, <1>p DEF ListFile, Listing, WInv, walk, K, Lost, DirsIn
<1>4. CASE ListDir
  <2>1. /\ pc = "list" /\ stack = <<>> /\ stack' = stack /\ time' = time /\ pc' = "open"
        /\ saved' = {time[Arg]} /\ Arg \in Nodes /\ Arg' = Arg
    BY <1>4, <1>y DEF ListDir, Listing, WInv, Nodes, Arg, fixed
  <2>2. \A n \in Nodes : time[n] = n
    BY <2>1, <1>p DEF K, Lost, DirsIn
  <2> QED
    BY <2>1, <2>2, <1>y DEF K, Saves
<1>5. CASE BackToList
  <2>1. PICK failed \in BOOLEAN : Restore(Arg, saved, failed) /\ NextArg(ret \/ failed)
    BY <1>5 DEF BackToList
  <2>2. pc = "return" /\ stack = <<>> /\ stack' = stack /\ pc' = "list" /\ ~failed
    BY <1>5, <2>1 DEF BackToList, NextArg, Noted
  <2>3. saved = {Arg} /\ cwd = Arg /\ \A n \in Nodes \ {Arg} : time[n] = n
    BY <2>2, <1>p DEF K, Walking, Leads, Lost, DirsIn
  <2>4. time' = [time EXCEPT ![Arg] = Arg]
    BY <2>1, <2>2, <2>3 DEF Restore
  <2>5. \A n \in Nodes : time'[n] = n
    BY <2>3, <2>4, <1>a
  <2> QED
    BY <2>2, <2>5, <1>l
<1>6. CASE BackToListFails
  BY <1>6 DEF BackToListFails, Noted
<1>7. CASE Finish
  BY <1>7, <1>l, <1>p DEF Finish, WInv, K, Lost, DirsIn
<1>8. CASE OpenDir
  <2> DEFINE fr == [path |-> relative_path, dir |-> cwd, left |-> Entries(cwd),
                    failed |-> FALSE, entry |-> CHOOSE n \in Names : TRUE, saved |-> {}]
  <2>1. fr \in Frames /\ fr.dir = cwd
    BY <1>a, WalkAssumption DEF Frames, Times, Entries, TypeOK
  <2>2. /\ stack' = Append(stack, fr) /\ pc = "open" /\ pc' = "dir"
        /\ time' = [time EXCEPT ![cwd] = Now] /\ UNCHANGED <<arg, saved>>
    BY <1>8 DEF OpenDir, list
  <2> HIDE DEF fr
  <2>3. Lost' = Lost \cup {cwd}
    BY <1>a, <2>1, <2>2, DirsPush DEF Lost
  <2>4. Saves(stack')
    BY <1>a, <1>p, <2>1, <2>2, SavesPush DEF K, Top
  <2>5. \A n \in Nodes \ Lost' : time'[n] = time[n]
    BY <1>a, <2>2, <2>3
  <2> QED
    BY <1>k, <2>2, <2>3, <2>4, <2>5 DEF Walking
<1>9. CASE OpenDirFails
  BY <1>9 DEF OpenDirFails, Noted
<1>10. CASE EndDir
  <2>1. /\ stack # <<>> /\ stack' = Front(stack) /\ cwd' = cwd /\ time' = time
        /\ pc = "dir" /\ pc' = "return" /\ UNCHANGED <<arg, saved>> /\ Top.dir = cwd
    BY <1>10, <1>p DEF EndDir, ReturnFromDir, WInv, list, Placed
  <2>2. Lost' = Lost
    BY <1>a, <2>1, DirsPop DEF Lost, Top
  <2>3. Saves(stack') /\ (stack' # <<>> => Last(stack').saved = {cwd})
    BY <1>a, <1>p, <2>1, SavesPop DEF K, Top
  <2> QED
    BY <1>k, <2>1, <2>2, <2>3 DEF Walking
<1>11. CASE UpDir
  <2>1. PICK failed \in BOOLEAN :
          /\ Restore(Append(Front(cwd), Top.entry), Top.saved, failed)
          /\ SetTop([Top EXCEPT !.failed = @ \/ ret \/ failed])
    BY <1>11 DEF UpDir
  <2> DEFINE fr == [Top EXCEPT !.failed = @ \/ ret \/ failed]
  <2>2. /\ stack # <<>> /\ Top \in Frames /\ pc = "return" /\ pc' = "dir"
        /\ UNCHANGED <<arg, saved>>
    BY <1>11, <1>t DEF UpDir, list
  <2>3. fr \in Frames /\ fr.dir = Top.dir /\ SetTop(fr) /\ fr.failed = (Top.failed \/ ret \/ failed)
    BY <2>1, <2>2, <1>a DEF Frames, TypeOK
  <2> HIDE DEF fr
  <2>4. ~failed
    BY <1>a, <2>2, <2>3, FailedSetTop DEF Noted
  <2>5. DirsIn(stack') = DirsIn(stack) /\ Saves(stack')
    BY <1>a, <1>p, <2>2, <2>3, TopKept DEF K
  <2>6. Append(Front(cwd), Top.entry) = cwd
    <3>1. cwd = Append(Top.dir, Top.entry)
      BY <2>2, <1>p DEF Placed, Below, Top
    <3> QED
      BY <3>1, <2>2, UpFrom DEF Frames
  <2>7. Top.saved = {cwd}
    BY <2>2, <1>p DEF K
  <2>8. time' = [time EXCEPT ![cwd] = cwd]
    BY <2>1, <2>4, <2>6, <2>7 DEF Restore
  <2>9. \A n \in Nodes \ Lost' : time'[n] = n
    <3>1. Lost' = DirsIn(stack) /\ Lost = DirsIn(stack) \cup {cwd}
      BY <2>2, <2>5 DEF Lost
    <3> QED
      BY <1>a, <1>p, <2>8, <3>1 DEF K
  <2>10. saved' = {Arg'}
    BY <2>2, <1>p, <1>f DEF K, Walking, fixed, Arg
  <2> QED
    BY <2>2, <2>5, <2>9, <2>10, <1>y DEF K
<1>12. CASE UpDirFails
  BY <1>12 DEF UpDirFails, ReturnFromDir, Noted
\* A step that takes an entry from the top and enters no directory.
<1>c. ASSUME NEW e \in Names, NEW failed \in BOOLEAN, Consumed(e, failed), stack # <<>>,
             pc = "dir", pc' = "dir", UNCHANGED <<arg, saved>>,
             ~failed => time' = time
      PROVE  K'
  <2> DEFINE fr == [Top EXCEPT !.left = @ \ {e}, !.failed = @ \/ failed]
  <2>1. fr \in Frames /\ fr.dir = Top.dir /\ SetTop(fr)
    BY <1>c, <1>t DEF Frames, Consumed
  <2> HIDE DEF fr
  <2>2. DirsIn(stack') = DirsIn(stack) /\ Saves(stack')
    BY <1>a, <1>c, <1>p, <2>1, TopKept DEF K
  <2>3. ~failed
    BY <1>a, <1>c, FailedConsumed DEF Noted
  <2>4. Lost' = Lost
    BY <1>c, <2>2 DEF Lost
  <2> QED
    BY <1>c, <1>k, <2>2, <2>3, <2>4 DEF Walking
<1>13. ASSUME NEW e \in Names, WalkFile(e) PROVE K'
  <2>1. PICK S \in SUBSET ({"file"} \cup IfKept({"lstat", "utime"})), failed \in BOOLEAN :
          HandleFile(Append(cwd, e), S, failed) /\ Consumed(e, failed)
    BY <1>13 DEF WalkFile
  <2>2. ~failed => time' = time
    BY <2>1, <1>y DEF HandleFile
  <2> QED
    BY <1>13, <1>c, <2>1, <2>2 DEF WalkFile, Delivers, WInv, list
<1>14. ASSUME NEW e \in Names, WalkSkip(e) PROVE K'
  BY <1>14, <1>c DEF WalkSkip, Delivers, WInv, list
<1>15. ASSUME NEW e \in Names, Descend(e) PROVE K'
  <2> DEFINE there == Append(cwd, e)
             fr(S) == [Top EXCEPT !.left = @ \ {e}, !.failed = @ \/ S # {}, !.entry = e,
                         !.saved = IF S = {} THEN IfKept({time[there]}) ELSE {}]
  <2>1. PICK S \in SUBSET IfKept({"lstat"}) : Strikes(S) /\ SetTop(fr(S))
    BY <1>15 DEF Descend
  <2>2. /\ UNCHANGED <<arg, saved, time>> /\ pc' = "open" /\ pc = "dir" /\ cwd' = there
        /\ stack # <<>> /\ there \in tree.dirs /\ Top \in Frames
    BY <1>15, <1>t DEF Descend, Delivers, WInv, list
  <2>3. IfKept({time[there]}) \in Times /\ {} \in Times
    BY <2>2, <1>a DEF Nodes, Times, TypeOK, IfKept
  <2>4. /\ fr(S) \in Frames /\ fr(S).dir = Top.dir /\ SetTop(fr(S))
        /\ fr(S).failed = (Top.failed \/ S # {}) /\ (S = {} => fr(S).saved = {time[there]})
    BY <2>1, <2>2, <2>3, <1>y DEF Frames
  <2> HIDE DEF fr
  <2>5. S = {}
    BY <1>a, <2>2, <2>4, FailedSetTop DEF Noted
  <2>6. DirsIn(stack') = DirsIn(stack) /\ Saves(stack') /\ Last(stack') = fr(S)
    BY <1>a, <1>p, <2>2, <2>4, TopKept DEF K
  \* The directories being read are above there.
  <2>7. there \notin DirsIn(stack)
    <3>1. Leads(Arg, Front(stack), Top.dir) /\ Top.dir = cwd
      BY <1>a, <1>p, <2>2, TrailPop DEF Top, Placed
    <3>2. DirsIn(stack) = DirsIn(Front(stack)) \cup {cwd}
      BY <1>a, <2>2, <3>1, DirsPop DEF Top
    <3>3. ASSUME NEW k \in 1..Len(Front(stack)) PROVE Front(stack)[k].dir # there
      <4>1. Front(stack)[k] \in Frames /\ Len(Front(stack)[k].dir) < Len(cwd)
        BY <1>t, <2>2, <3>1, <3>3 DEF Leads, Passes
      <4>2. Len(there) = Len(cwd) + 1 /\ Len(cwd) \in Nat
        BY <1>a
      <4>3. Len(Front(stack)[k].dir) \in Nat
        BY <4>1 DEF Frames
      <4> QED
        BY <4>1, <4>2, <4>3
    <3>4. there # cwd
      <4>1. Len(there) = Len(cwd) + 1 /\ Len(cwd) \in Nat
        BY <1>a
      <4> QED
        BY <4>1
    <3> QED
      BY <3>2, <3>3, <3>4 DEF DirsIn
  <2>8. time[there] = there
    BY <1>p, <2>2, <2>7 DEF K, Lost, Nodes
  <2>9. Lost' = Lost
    BY <2>2, <2>6 DEF Lost
  <2> QED
    BY <1>k, <2>2, <2>4, <2>5, <2>6, <2>8, <2>9 DEF Walking
<1>16. ASSUME NEW e \in Names, DescendFails(e) PROVE K'
  BY <1>16, <1>a, FailedConsumed DEF DescendFails, Delivers, WInv, Noted
<1>17. ASSUME NEW e \in Names, NoPath(e) PROVE K'
  BY <1>17 DEF NoPath, ReturnFromDir, Noted
<1>18. CASE UNCHANGED vars
  <2>1. Lost' = Lost
    BY <1>18 DEF vars, walk, Lost
  <2> QED
    BY <1>18, <1>k, <1>p, <2>1 DEF vars, fixed, walk, list, K, Top, Walking
<1> QED
  BY <1>1, <1>2, <1>3, <1>4, <1>5, <1>6, <1>7, <1>8, <1>9, <1>10, <1>11, <1>12,
     <1>13, <1>14, <1>15, <1>16, <1>17, <1>18 DEF Next, Walk

\* With --keep-times a run that ends without a failure leaves every file and every
\* directory with the times it had, however deep the calls have nested.
THEOREM TimesAlwaysKept == Spec => []TimesKept
<1>1. FInv /\ KInv => TimesKept
  <2> SUFFICES ASSUME FInv, KInv, pc = "done", keep, ~failure_flag PROVE \A n \in Nodes : time[n] = n
    BY DEF TimesKept
  <2>1. stack = <<>> /\ ~Noted
    BY DEF FInv, Noted, FailedIn
  <2>2. Lost = {}
    BY <2>1 DEF Lost, DirsIn
  <2> QED
    BY <2>1, <2>2 DEF KInv
<1>2. Init => KInv
  BY TimesInit
<1>3. WInv /\ PInv /\ FInv /\ TInv /\ KInv /\ [Next]_vars => KInv'
  BY TimesStep
<1> QED
  BY <1>1, <1>2, <1>3, InvInit, InvStep, PTL DEF Spec
=============================================================================
