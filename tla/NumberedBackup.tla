--------------------------- MODULE NumberedBackup ---------------------------
(***************************************************************************)
(* numbered_backup of lib/backupfile.c: one pass over the directory, in    *)
(* the order in which readdir lists it, finds the version of the next      *)
(* backup.  Versions are compared and incremented as strings of digits, so *)
(* that they cannot overflow, and the name that is built is already one    *)
(* ahead of the largest version seen.  ProcessFile has the number that     *)
(* comes of it.                                                            *)
(***************************************************************************)
EXTENDS ProcessFile, FiniteSetsExt, SequencesExt

CONSTANTS
  Radix,   \* the number of digits, ten in the code
  Entries  \* what may stand between ".~" and "~": sequences of digits

ASSUME RadixAssumption == Radix \in Nat /\ Radix > 1
ASSUME EntriesAssumption == IsFiniteSet(Entries) /\ Entries \subseteq Seq(0 .. Radix - 1)

Nine == Radix - 1

\* A version does not start with the digit 0.
IsVersion(p) == p # <<>> /\ p[1] # 0

\* memcmp: p is not before buf, which is as long.
NotBefore(p, buf) ==
  \A k \in DOMAIN p : p[k] < buf[k] => \E h \in 1 .. k - 1 : p[h] > buf[h]

\* Mutant: a version must be above the name that was built.
SupersedesAbove(p, buf) ==
  Len(p) > Len(buf) \/ (Len(p) = Len(buf) /\ NotBefore(p, buf) /\ p # buf)

\* An entry counts if its version is no smaller than the name built so far.
Supersedes(p, buf) ==
  Len(p) > Len(buf) \/ (Len(p) = Len(buf) /\ NotBefore(p, buf))

\* The version after p: another digit in front of nines only, zeros for the nines
\* at the end, and one more before these.
Increment(p) ==
  LET q == IF \A k \in DOMAIN p : p[k] = Nine THEN <<0>> \o p ELSE p
      last == CHOOSE k \in DOMAIN q : q[k] # Nine /\ \A h \in k + 1 .. Len(q) : q[h] = Nine
  IN [k \in DOMAIN q |-> IF k < last THEN q[k] ELSE IF k = last THEN q[k] + 1 ELSE 0]

\* The version of the next backup, which is 1 if there is none.
NextVersion(listing) ==
  LET buf[k \in 0 .. Len(listing)] ==
        IF k = 0 THEN <<1>>
        ELSE LET p == listing[k] IN
             IF IsVersion(p) /\ Supersedes(p, buf[k - 1]) THEN Increment(p) ELSE buf[k - 1]
  IN buf[Len(listing)]

Number(p) ==
  LET number[k \in 0 .. Len(p)] == IF k = 0 THEN 0 ELSE number[k - 1] * Radix + p[k]
  IN number[Len(p)]

\* In whatever order readdir lists the backups of a file, whichever of them are
\* still there, and whatever else looks like one: the version computed digit by
\* digit is one above the largest, the one that BackupNames takes
\* (lib/backupfile.c:238-299).
NextIsAboveAll ==
  pc \in {"backup", "ended"} =>
    \A listing \in SetToAllKPermutations(
                      {p \in Entries : IsVersion(p) => Number(p) \in Versions(cur)}) :
      Number(NextVersion(listing)) =
        1 + Max({0} \cup {Number(p) : p \in {p \in ToSet(listing) : IsVersion(p)}})
=============================================================================
