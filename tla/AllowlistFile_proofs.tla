-------------------------- MODULE AllowlistFile_proofs --------------------------
(***************************************************************************)
(* Proofs about AllowlistFile, for every set of wallets and environment    *)
(* entries and any number of edits.                                        *)
(*                                                                         *)
(* AdminSeesFile is what the mtime test of reload() is for: a list that is *)
(* not read again must be the list in the file.  MtimeTells says so of     *)
(* every state, and MtimeBehind is why it survives the operator's edits: a *)
(* malformed file is always younger than the snapshot.                     *)
(***************************************************************************)
EXTENDS AllowlistFile, TLAPS

-----------------------------------------------------------------------------

LEMMA InitInv == ASSUME Init PROVE ListInv
<1> USE ConstantsAssumption
<1>1. 0 \in Stamp
  BY DEF Stamp
<1>2. PICK S \in SUBSET Wallet :
        /\ \/ disk = [kind |-> "good", stamp |-> 0, wallets |-> S]
           \/ S = {} /\ disk = [kind |-> "missing", stamp |-> 0, wallets |-> S]
        /\ intended = S
  BY DEF Init
<1>3. /\ disk \in [kind : {"missing", "good", "bad"}, stamp : Stamp,
                   wallets : SUBSET (Wallet \cup {Blank})]
      /\ disk.kind # "good" => disk.wallets = {}
  BY <1>1, <1>2
<1>4. TypeOK
  BY <1>1, <1>2, <1>3 DEF Init, TypeOK
<1>5. MtimeBehind /\ MtimeTells /\ ListKept
  BY <1>2 DEF Init, MtimeBehind, MtimeTells, ListKept
<1>6. QED
  BY <1>4, <1>5 DEF ListInv

\* A missing file, met in place of a reload.
LEMMA FileMissingInv ==
  ASSUME ListInv, NEW k \in {"done", "reload", "reply"}, FileMissing(k),
         change = NoChange, UNCHANGED <<disk, change, history>>, polling' \in BOOLEAN
  PROVE  ListInv'
BY ConstantsAssumption
  DEF FileMissing, Return, ListInv, TypeOK, MtimeBehind, MtimeTells, ListKept, FileWallets,
      Entries, history

\* statSync, and what follows when the mtime is known.
LEMMA ReloadInv ==
  ASSUME ListInv, NEW k \in {"done", "reload", "reply"}, Reload(k),
         change = NoChange, UNCHANGED <<disk, change, history>>, polling' \in BOOLEAN
  PROVE  ListInv'
<1> USE ConstantsAssumption
<1>1. CASE FileMissing(k)
  BY <1>1, FileMissingInv
<1>2. CASE /\ disk.kind # "missing"
           /\ snapshot # NoSnapshot
           /\ snapshot.stamp = disk.stamp
           /\ merged' = FileWallets \cup Env
           /\ Return(k)
           /\ UNCHANGED <<snapshot, statted>>
  BY <1>2
    DEF Return, ListInv, TypeOK, Snapshot, MtimeBehind, MtimeTells, ListKept, FileWallets,
        Entries, history
<1>3. CASE /\ disk.kind # "missing"
           /\ snapshot # NoSnapshot => snapshot.stamp # disk.stamp
           /\ statted' = disk.stamp
           /\ pc' = "read"
           /\ then' = k
           /\ UNCHANGED <<snapshot, merged>>
  BY <1>3
    DEF ListInv, TypeOK, Stamp, MtimeBehind, MtimeTells, ListKept, FileWallets, Entries,
        history
<1>4. QED
  BY <1>1, <1>2, <1>3 DEF Reload

LEMMA ReadFileInv == ASSUME ListInv, ReadFile PROVE ListInv'
<1> USE ConstantsAssumption
<1>1. change = NoChange /\ then \in {"done", "reload", "reply"}
  BY DEF ReadFile, ListInv, TypeOK
<1>2. CASE FileMissing(then)
  <2>1. polling' \in BOOLEAN
    BY DEF ReadFile, ListInv, TypeOK
  <2>2. QED
    BY <1>1, <1>2, <2>1, FileMissingInv DEF ReadFile
<1>3. CASE ReadMalformed /\ Return(then) /\ UNCHANGED statted
  BY <1>1, <1>3
    DEF ReadFile, ReadMalformed, Return, ListInv, TypeOK, MtimeBehind, MtimeTells, ListKept,
        FileWallets, Entries, history
<1>4. CASE ReadGood /\ Return(then) /\ UNCHANGED statted
  <2>1. snapshot' \in Snapshot /\ snapshot' # NoSnapshot
    BY <1>4 DEF ReadGood, ListInv, TypeOK, Snapshot, Entries
  <2>2. TypeOK'
    BY <1>1, <1>4, <2>1
      DEF ReadFile, ReadGood, Return, ListInv, TypeOK, Entries, history
  <2>3. MtimeBehind' /\ MtimeTells' /\ ListKept'
    BY <1>1, <1>4, <2>1
      DEF ReadFile, ReadGood, Return, ListInv, TypeOK, Stamp, MtimeBehind, MtimeTells,
          ListKept, FileWallets, Entries
  <2>4. QED
    BY <2>2, <2>3 DEF ListInv
<1>5. QED
  BY <1>2, <1>3, <1>4 DEF ReadFile

\* The tmp file is written: only the change is new.
LEMMA WriteTmpInv ==
  ASSUME ListInv, pc = "idle", NEW c \in Change, WriteTmp(c)
  PROVE  ListInv'
BY ConstantsAssumption
  DEF WriteTmp, ListInv, TypeOK, MtimeBehind, MtimeTells, ListKept, FileWallets, Entries,
      history

LEMMA RenameInv == ASSUME ListInv, Rename PROVE ListInv'
<1> USE ConstantsAssumption
<1>1. change \in Change /\ FileWallets \subseteq Wallet
  BY DEF Rename, ListInv, TypeOK, FileWallets, Snapshot
<1>2. Apply(change, FileWallets) \subseteq Wallet /\ Apply(change, intended) \subseteq Wallet
  BY <1>1 DEF Apply, Change, ListInv, TypeOK
<1>3. PICK t \in {disk.stamp, disk.stamp + 1} \cap Stamp :
        disk' = [kind |-> "good", stamp |-> t, wallets |-> Apply(change, FileWallets)]
  BY DEF Rename
<1>4. TypeOK'
  BY <1>2, <1>3 DEF Rename, ListInv, TypeOK
<1>5. MtimeBehind' /\ MtimeTells' /\ ListKept'
  BY <1>3 DEF Rename, ListInv, TypeOK, Stamp, MtimeBehind, MtimeTells, ListKept
<1>6. QED
  BY <1>4, <1>5 DEF ListInv

\* The operator's edits: a readable file gets a younger mtime.
LEMMA HandInv ==
  ASSUME ListInv,
         HandSpoil \/ HandDelete \/ \E S \in SUBSET (Wallet \cup {Blank}) : HandEdit(S)
  PROVE  ListInv'
<1> USE ConstantsAssumption
<1>1. CASE HandSpoil
  BY <1>1
    DEF HandSpoil, ListInv, TypeOK, Stamp, Snapshot, MtimeBehind, MtimeTells, ListKept,
        FileWallets, server
<1>2. CASE HandDelete
  BY <1>2
    DEF HandDelete, ListInv, TypeOK, Stamp, Snapshot, MtimeBehind, MtimeTells, ListKept,
        FileWallets, server
<1>3. CASE \E S \in SUBSET (Wallet \cup {Blank}) : HandEdit(S)
  <2>1. PICK S \in SUBSET (Wallet \cup {Blank}) : HandEdit(S)
    BY <1>3
  <2>2. PICK t \in EditStamp \cap Stamp :
          disk' = [kind |-> "good", stamp |-> t, wallets |-> S]
    BY <2>1 DEF HandEdit
  <2>3. t = disk.stamp + 1 \/ (t = disk.stamp /\ disk.kind = "bad")
    BY <2>2 DEF EditStamp
  <2>4. TypeOK'
    BY <2>1, <2>2 DEF HandEdit, ListInv, TypeOK, server
  <2>5. snapshot # NoSnapshot => snapshot.stamp < t /\ snapshot.stamp \in Nat
    BY <2>3 DEF ListInv, TypeOK, Snapshot, Stamp, MtimeBehind
  <2>6. MtimeBehind' /\ MtimeTells' /\ ListKept'
    BY <2>1, <2>2, <2>3, <2>5
      DEF HandEdit, ListInv, TypeOK, Stamp, MtimeBehind, MtimeTells, ListKept, FileWallets,
          server
  <2>7. QED
    BY <2>4, <2>6 DEF ListInv
<1>4. QED
  BY <1>1, <1>2, <1>3

LEMMA StepInv == ASSUME ListInv, [Next]_vars PROVE ListInv'
<1> USE ConstantsAssumption
<1>1. ASSUME pc # "rename" PROVE change = NoChange
  BY <1>1 DEF ListInv, TypeOK
<1>2. polling \in BOOLEAN /\ then \in {"done", "reload", "reply"}
  BY DEF ListInv, TypeOK
<1>3. CASE ReadFile
  BY <1>3, ReadFileInv
<1>4. CASE ReloadAgain
  BY <1>1, <1>2, <1>4, ReloadInv DEF ReloadAgain
<1>5. CASE Poll
  BY <1>1, <1>2, <1>5, ReloadInv DEF Poll
<1>6. CASE AllowlistList
  BY <1>1, <1>2, <1>6, ReloadInv DEF AllowlistList
<1>7. CASE \E w \in Wallet : AllowlistAdd(w)
  <2>1. PICK w \in Wallet : AllowlistAdd(w)
    BY <1>7
  <2>2. [op |-> "add", wallet |-> w] \in Change
    BY DEF Change
  <2>3. QED
    BY <1>1, <1>2, <2>1, <2>2, ReloadInv, WriteTmpInv DEF AllowlistAdd
<1>8. CASE \E w \in Wallet : AllowlistRemove(w)
  <2>1. PICK w \in Wallet : AllowlistRemove(w)
    BY <1>8
  <2>2. [op |-> "remove", wallet |-> w] \in Change
    BY DEF Change
  <2>3. QED
    BY <1>1, <1>2, <2>1, <2>2, ReloadInv, WriteTmpInv DEF AllowlistRemove
<1>9. CASE Rename
  BY <1>9, RenameInv
<1>10. CASE WriteFails
  BY <1>10
    DEF WriteFails, ListInv, TypeOK, MtimeBehind, MtimeTells, ListKept, FileWallets, Entries,
        history
<1>11. CASE Boot
  BY <1>1, <1>2, <1>11, ReloadInv DEF Boot
<1>12. CASE StopPolling
  BY <1>12
    DEF StopPolling, ListInv, TypeOK, MtimeBehind, MtimeTells, ListKept, FileWallets, Entries,
        history
<1>13. CASE Crash
  <2>1. disk.stamp \in Nat /\ 0 \in Stamp
    BY DEF ListInv, TypeOK, Stamp
  <2>2. TypeOK'
    BY <1>13, <2>1 DEF Crash, ListInv, TypeOK, history
  <2>3. MtimeBehind' /\ MtimeTells' /\ ListKept'
    BY <1>13, <2>1 DEF Crash, MtimeBehind, MtimeTells, ListKept
  <2>4. QED
    BY <2>2, <2>3 DEF ListInv
<1>14. CASE HandSpoil \/ HandDelete \/ \E S \in SUBSET (Wallet \cup {Blank}) : HandEdit(S)
  BY <1>14, HandInv
<1>15. CASE UNCHANGED vars
  BY <1>15
    DEF ListInv, TypeOK, MtimeBehind, MtimeTells, ListKept, FileWallets, Entries, vars, server,
        history
<1>16. QED
  BY <1>3, <1>4, <1>5, <1>6, <1>7, <1>8, <1>9, <1>10, <1>11, <1>12, <1>13, <1>14, <1>15
    DEF Next

\* What the cached snapshot and its mtime tell of the file is so in every state,
\* whatever the operator does between any two system calls.
THEOREM ListInvariant == Spec => []ListInv
<1>1. Init => ListInv
  BY InitInv
<1>2. ListInv /\ [Next]_vars => ListInv'
  BY StepInv
<1>3. QED
  BY <1>1, <1>2, PTL DEF Spec

\* Between callbacks the list in force is the snapshot's: reload, add, remove
\* and failed writes never leave one without the other.
THEOREM ListIsSnapshot == Spec => []MergedIsSnapshot
<1>1. ListInv => MergedIsSnapshot
  BY DEF ListInv, ListKept, MergedIsSnapshot
<1>2. QED
  BY <1>1, ListInvariant, PTL

\* A reload that ends at once has read the file before, or found none.
LEMMA ShortReload ==
  ASSUME ListInv, NEW k, Reload(k), pc' # "read", disk.kind = "good"
  PROVE  FileWallets' = Entries /\ merged' = Entries \cup Env
BY DEF Reload, FileMissing, ListInv, MtimeTells, FileWallets

\* The step that answers an admin request leaves the file's entries in the
\* snapshot and in force, whether or not it has just read the file.
LEMMA AnswerIsFile ==
  ASSUME ListInv, [Next]_vars, Answer, disk.kind = "good"
  PROVE  FileWallets' = Entries /\ merged' = Entries \cup Env
<1> USE ConstantsAssumption
<1>1. CASE pc = "idle" /\ Reload("reply")
  BY <1>1, ShortReload DEF Answer
<1>2. CASE then = "reply" /\ then' = "done"
  <2>1. pc \in {"stat", "read"} /\ pc' = "idle"
    BY <1>2 DEF Answer, ListInv, TypeOK
  <2>2. CASE ReadFile
    <3>1. ReadGood
      BY <2>2 DEF ReadFile, FileMissing, ReadMalformed
    <3>2. snapshot' \in Snapshot
      BY <2>2, <3>1 DEF ReadFile, ReadGood, ListInv, TypeOK, Snapshot, Entries
    <3>3. QED
      BY <3>1, <3>2 DEF ReadGood, FileWallets
  <2>3. CASE ReloadAgain
    BY <1>2, <2>1, <2>3, ShortReload DEF ReloadAgain
  <2>4. QED
    BY <1>2, <2>1, <2>2, <2>3
      DEF Next, Poll, AllowlistList, AllowlistAdd, AllowlistRemove, Rename, WriteFails,
          Boot, StopPolling, Crash, HandEdit, HandSpoil, HandDelete, vars, server
<1>3. QED
  BY <1>1, <1>2 DEF Answer

\* An admin is always shown the file as it is, and that list is in force: the
\* mtime test never takes a changed file for the one it knows.
THEOREM AnswersFromFile == Spec => AdminSeesFile
<1>1. ListInv /\ [Next]_vars =>
        [Answer /\ disk.kind = "good" =>
           FileWallets' = Entries /\ merged' = Entries \cup Env]_vars
  BY AnswerIsFile
<1>2. QED
  BY <1>1, ListInvariant, PTL DEF Spec, AdminSeesFile

-----------------------------------------------------------------------------
(***************************************************************************)
(* The file lists what was asked for.                                      *)
(***************************************************************************)

\* FileAsIntended is inductive over the types: a write that starts from the
\* file's own list amounts to the same change of both lists.
LEMMA StepIntended ==
  ASSUME ListInv, FileAsIntended, [Next]_vars
  PROVE  FileAsIntended'
<1> USE ConstantsAssumption
<1>1. CASE Rename
  <2>1. ASSUME ~raced' PROVE Entries = FileWallets /\ Entries = intended
    BY <1>1, <2>1 DEF Rename, FileAsIntended, ListInv, TypeOK
  <2>2. FileWallets \subseteq Wallet /\ change \in Change
    BY <1>1 DEF Rename, ListInv, TypeOK, FileWallets, Snapshot
  <2>3. Apply(change, FileWallets) \subseteq Wallet
    BY <2>2 DEF Apply, Change
  <2>4. disk'.kind = "good" /\ Entries' = Apply(change, FileWallets)
    BY <1>1, <2>3 DEF Rename, Entries
  <2>5. QED
    BY <1>1, <2>1, <2>4 DEF Rename, FileAsIntended
<1>2. CASE HandSpoil
  BY <1>2 DEF HandSpoil, FileAsIntended
<1>3. CASE HandDelete
  BY <1>3 DEF HandDelete, FileAsIntended, Entries
<1>4. CASE \E S \in SUBSET (Wallet \cup {Blank}) : HandEdit(S)
  BY <1>4 DEF HandEdit, FileAsIntended, Entries
<1>5. CASE UNCHANGED <<disk, history>>
  BY <1>5 DEF FileAsIntended, Entries, history
<1>6. QED
  BY <1>1, <1>2, <1>3, <1>4, <1>5
    DEF Next, ReadFile, ReloadAgain, Poll, AllowlistList, AllowlistAdd, AllowlistRemove,
        WriteTmp, WriteFails, Boot, StopPolling, Crash, vars, history

\* Polls, failed writes and crashes never change what the file lists, and an
\* admin's change adds or removes its one wallet.
THEOREM IntendedHolds == Spec => []FileAsIntended
<1>1. Init => FileAsIntended
  BY ConstantsAssumption DEF Init, FileAsIntended, Entries
<1>2. ListInv /\ FileAsIntended /\ [Next]_vars => FileAsIntended'
  BY StepIntended
<1>3. QED
  BY <1>1, <1>2, ListInvariant, PTL DEF Spec
=============================================================================
