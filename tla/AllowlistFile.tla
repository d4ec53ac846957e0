----------------------------- MODULE AllowlistFile -----------------------------
(***************************************************************************)
(* The wallet allowlist (packages/shared/src/allowlist-file.ts) and the    *)
(* admin requests that change it (handleAllowlistList and                  *)
(* handleAllowlistMutate in packages/server/src/websocket.ts, after        *)
(* requireOwner has let them through).                                     *)
(*                                                                         *)
(* The server polls a file that an operator may edit by hand, keeps a      *)
(* snapshot keyed by the file's mtime, and rewrites the file for an admin. *)
(* The server's own code is synchronous, but the operator's editor is      *)
(* another process: it may act between any two system calls, so statSync,  *)
(* readFileSync and renameSync are steps of their own.                     *)
(***************************************************************************)
EXTENDS Naturals

CONSTANTS
  Wallet,      \* base58 addresses
  Blank,       \* an entry of the file that is empty once trimmed
  Env,         \* envFallback, trimmed
  MaxStamp,    \* bound on the mtimes of the file
  NoSnapshot,  \* "snapshot is null"
  NoChange     \* no write in progress

Stamp    == 0 .. MaxStamp
Change   == [op : {"add", "remove"}, wallet : Wallet]
Snapshot == [stamp : Stamp, wallets : SUBSET Wallet]

ASSUME ConstantsAssumption ==
  /\ Env \subseteq Wallet
  /\ Blank \notin Wallet
  /\ MaxStamp \in Nat
  /\ NoSnapshot \notin Snapshot
  /\ NoChange \notin Change

VARIABLES
  disk,      \* the file: whether it is there and well-formed, its mtime and entries
  snapshot,  \* AllowlistFile.snapshot
  merged,    \* AllowlistFile.merged, what current() returns
  polling,   \* AllowlistFile.pollTimer is set
  pc,        \* the system call the server makes next, "idle" between callbacks
  then,      \* what follows the reload in progress
  statted,   \* the mtime statSync returned
  change,    \* the add or remove whose list is about to be renamed into place
  intended,  \* history: the list the edits and the admin changes amount to
  raced      \* history: the file is malformed, or a write did not start from its list

server  == <<snapshot, merged, polling, pc, then, statted, change>>
history == <<intended, raced>>
vars    == <<disk, server, history>>

TypeOK ==
  /\ disk \in [kind : {"missing", "good", "bad"}, stamp : Stamp,
               wallets : SUBSET (Wallet \cup {Blank})]
  /\ disk.kind # "good" => disk.wallets = {}
  /\ snapshot \in Snapshot \cup {NoSnapshot}
  /\ merged \subseteq Wallet
  /\ polling \in BOOLEAN
  /\ pc \in {"down", "idle", "stat", "read", "rename"}
  /\ then \in {"done", "reload", "reply"}
  /\ statted \in Stamp
  /\ change \in Change \cup {NoChange}
  /\ change # NoChange <=> pc = "rename"
  /\ then # "done" => pc \in {"stat", "read"}
  /\ intended \subseteq Wallet
  /\ raced \in BOOLEAN

Init ==
  /\ \E S \in SUBSET Wallet :
       /\ \/ disk = [kind |-> "good", stamp |-> 0, wallets |-> S]
          \/ S = {} /\ disk = [kind |-> "missing", stamp |-> 0, wallets |-> S]
       /\ intended = S
  /\ snapshot = NoSnapshot
  /\ merged = {}
  /\ polling = FALSE
  /\ pc = "down"
  /\ then = "done"
  /\ statted = 0
  /\ change = NoChange
  /\ raced = FALSE

\* The file's part of the list, as far as the server knows.
FileWallets == IF snapshot = NoSnapshot THEN {} ELSE snapshot.wallets

Entries == disk.wallets \ {Blank}

-----------------------------------------------------------------------------
(***************************************************************************)
(* reload().                                                               *)
(***************************************************************************)

\* The reload is over: a second one follows a write, and the admin's answer
\* is sent at the end of the last.
Return(k) ==
  IF k = "reload" THEN pc' = "stat" /\ then' = "reply"
                  ELSE pc' = "idle" /\ then' = "done"

\* FAULT: a missing file empties the list and leaves the snapshot.
FileMissingFault(k) ==
  /\ disk.kind = "missing"
  /\ merged' = Env
  /\ Return(k)
  /\ UNCHANGED <<snapshot, statted>>

\* ENOENT, from statSync or from readFileSync.
FileMissing(k) ==
  /\ disk.kind = "missing"
  /\ snapshot' = NoSnapshot
  /\ merged' = Env
  /\ Return(k)
  /\ UNCHANGED statted

\* statSync; the file is read only if its mtime is new.
Reload(k) ==
  \/ FileMissing(k)
  \/ /\ disk.kind # "missing"
     /\ snapshot # NoSnapshot
     /\ snapshot.stamp = disk.stamp
     /\ merged' = FileWallets \cup Env
     /\ Return(k)
     /\ UNCHANGED <<snapshot, statted>>
  \/ /\ disk.kind # "missing"
     /\ snapshot # NoSnapshot => snapshot.stamp # disk.stamp
     /\ statted' = disk.stamp
     /\ pc' = "read"
     /\ then' = k
     /\ UNCHANGED <<snapshot, merged>>

\* FAULT: a malformed file's mtime is remembered with the list that is kept.
ReadMalformedFault ==
  /\ disk.kind = "bad"
  /\ merged' = FileWallets \cup Env
  /\ snapshot' = IF snapshot = NoSnapshot THEN NoSnapshot
                                          ELSE [snapshot EXCEPT !.stamp = statted]

\* A malformed or unreadable file: the last good list stays, if there is one.
ReadMalformed ==
  /\ disk.kind = "bad"
  /\ merged' = IF snapshot = NoSnapshot THEN Env ELSE merged
  /\ UNCHANGED snapshot

ReadGood ==
  /\ disk.kind = "good"
  /\ snapshot' = [stamp |-> statted, wallets |-> Entries]
  /\ merged' = Entries \cup Env

\* readFileSync and JSON.parse: the content may be younger than the mtime.
ReadFile ==
  /\ pc = "read"
  /\ \/ FileMissing(then)
     \/ (ReadMalformed \/ ReadGood) /\ Return(then) /\ UNCHANGED statted
  /\ UNCHANGED <<disk, polling, change, history>>

\* The reload that follows another one.
ReloadAgain ==
  /\ pc = "stat"
  /\ Reload(then)
  /\ UNCHANGED <<disk, polling, change, history>>

Poll ==
  /\ pc = "idle"
  /\ polling
  /\ Reload("done")
  /\ UNCHANGED <<disk, polling, change, history>>

-----------------------------------------------------------------------------
(***************************************************************************)
(* Admin requests.  Each is answered with the list after a reload.         *)
(***************************************************************************)

AllowlistList ==
  /\ pc = "idle"
  /\ Reload("reply")
  /\ UNCHANGED <<disk, polling, change, history>>

\* FAULT: the file is written in place.
WriteTmpFault(c) ==
  /\ change' = c
  /\ pc' = "rename"
  /\ disk' = [disk EXCEPT !.kind = "bad", !.wallets = {}]
  /\ UNCHANGED <<snapshot, merged, polling, then, statted, history>>

\* writeFile up to the rename: the directory is there, the tmp file written.
WriteTmp(c) ==
  /\ change' = c
  /\ pc' = "rename"
  /\ UNCHANGED <<disk, snapshot, merged, polling, then, statted, history>>

\* addWallet, after the no-op test, or the answer to a no-op.
AllowlistAdd(w) ==
  /\ pc = "idle"
  /\ \/ w \notin FileWallets /\ WriteTmp([op |-> "add", wallet |-> w])
     \/ /\ w \in FileWallets
        /\ Reload("reply")
        /\ UNCHANGED <<disk, polling, change, history>>

\* removeWallet; an entry of the environment is refused (env_only).
AllowlistRemove(w) ==
  /\ pc = "idle"
  /\ w \notin Env
  /\ \/ w \in FileWallets /\ WriteTmp([op |-> "remove", wallet |-> w])
     \/ /\ w \notin FileWallets
        /\ Reload("reply")
        /\ UNCHANGED <<disk, polling, change, history>>

Apply(c, S) == IF c.op = "add" THEN S \cup {c.wallet} ELSE S \ {c.wallet}

\* FAULT: the snapshot outlives the server's own write.
RenameFault ==
  /\ pc = "rename"
  /\ \E t \in {disk.stamp, disk.stamp + 1} \cap Stamp :
       disk' = [kind |-> "good", stamp |-> t, wallets |-> Apply(change, FileWallets)]
  /\ intended' = Apply(change, intended)
  /\ raced' = (raced \/ Entries # FileWallets)
  /\ change' = NoChange
  /\ pc' = "stat"
  /\ then' = "reload"
  /\ UNCHANGED <<snapshot, merged, polling, statted>>

\* renameSync puts the list computed from the snapshot into place, possibly
\* within the mtime tick of the file it replaces.
Rename ==
  /\ pc = "rename"
  /\ \E t \in {disk.stamp, disk.stamp + 1} \cap Stamp :
       disk' = [kind |-> "good", stamp |-> t, wallets |-> Apply(change, FileWallets)]
  /\ intended' = Apply(change, intended)
  /\ raced' = (raced \/ Entries # FileWallets)
  /\ change' = NoChange
  /\ snapshot' = NoSnapshot
  /\ pc' = "stat"
  /\ then' = "reload"
  /\ UNCHANGED <<merged, polling, statted>>

\* writeFile throws: file_write_failed, without a reload.
WriteFails ==
  /\ pc = "rename"
  /\ change' = NoChange
  /\ pc' = "idle"
  /\ UNCHANGED <<disk, snapshot, merged, polling, then, statted, history>>

-----------------------------------------------------------------------------
(***************************************************************************)
(* The process and the operator.                                           *)
(***************************************************************************)

\* new AllowlistFile in the server's constructor: reload, then the poll timer.
Boot ==
  /\ pc = "down"
  /\ Reload("done")
  /\ polling' = TRUE
  /\ UNCHANGED <<disk, change, history>>

\* AllowlistFile.stop(), called by PlexChatServer.stop.
StopPolling ==
  /\ pc = "idle"
  /\ polling' = FALSE
  /\ UNCHANGED <<disk, snapshot, merged, pc, then, statted, change, history>>

\* The process dies between any two system calls.
Crash ==
  /\ pc # "down"
  /\ pc' = "down"
  /\ snapshot' = NoSnapshot
  /\ merged' = {}
  /\ polling' = FALSE
  /\ then' = "done"
  /\ statted' = 0
  /\ change' = NoChange
  /\ UNCHANGED <<disk, history>>

\* A change to a readable file gets a new mtime; a partial write and its
\* completion may share one.
EditStamp == {disk.stamp + 1} \cup {t \in {disk.stamp} : disk.kind = "bad"}

\* The operator saves a well-formed file.
HandEdit(S) ==
  /\ \E t \in EditStamp \cap Stamp : disk' = [kind |-> "good", stamp |-> t, wallets |-> S]
  /\ intended' = S \ {Blank}
  /\ raced' = FALSE
  /\ UNCHANGED server

\* The operator, or a slow editor, leaves a malformed file.
HandSpoil ==
  /\ disk.stamp + 1 \in Stamp
  /\ disk' = [kind |-> "bad", stamp |-> disk.stamp + 1, wallets |-> {}]
  /\ raced' = TRUE
  /\ UNCHANGED <<server, intended>>

HandDelete ==
  /\ disk.kind # "missing"
  /\ disk' = [kind |-> "missing", stamp |-> disk.stamp, wallets |-> {}]
  /\ intended' = {}
  /\ raced' = FALSE
  /\ UNCHANGED server

-----------------------------------------------------------------------------

Next ==
  \/ ReadFile \/ ReloadAgain \/ Poll
  \/ AllowlistList
  \/ \E w \in Wallet : AllowlistAdd(w) \/ AllowlistRemove(w)
  \/ Rename \/ WriteFails
  \/ Boot \/ StopPolling \/ Crash
  \/ \E S \in SUBSET (Wallet \cup {Blank}) : HandEdit(S)
  \/ HandSpoil \/ HandDelete

\* The server's code runs on, and its interval timer fires between requests
\* however many there are.
Fairness ==
  /\ WF_vars(ReadFile)
  /\ WF_vars(ReloadAgain)
  /\ WF_vars(Rename \/ WriteFails)
  /\ SF_vars(Poll)

Spec == Init /\ [][Next]_vars
FairSpec == Spec /\ Fairness

-----------------------------------------------------------------------------
(***************************************************************************)
(* Properties.                                                             *)
(***************************************************************************)

\* Between callbacks the list in use is the snapshot and the environment's
\* entries: authorisation never rests on a list that add and remove, which
\* start from the snapshot, know nothing of.
MergedIsSnapshot == pc = "idle" => merged = FileWallets \cup Env

\* The mtimes the server knows are not ahead of the file's, and behind a
\* malformed one.
MtimeBehind ==
  /\ statted =< disk.stamp
  /\ snapshot # NoSnapshot => snapshot.stamp =< disk.stamp
  /\ snapshot # NoSnapshot /\ disk.kind = "bad" => snapshot.stamp < disk.stamp

\* A well-formed file with the snapshot's mtime has the snapshot's entries.
MtimeTells ==
  snapshot # NoSnapshot /\ disk.kind = "good" /\ snapshot.stamp = disk.stamp =>
    snapshot.wallets = Entries

\* The list in use is the snapshot's, except while a list is being replaced.
ListKept ==
  pc \in {"idle", "rename"} \/ snapshot # NoSnapshot =>
    merged = FileWallets \cup Env

\* What reload relies on: the mtime of the snapshot tells whether the file has
\* changed since, through writes, crashes and edits, and the list in force is the
\* snapshot's, which add and remove start from.
ListInv == TypeOK /\ MtimeBehind /\ MtimeTells /\ ListKept

\* Unless the operator has edited the file behind the server's back, the file is
\* well-formed and lists what edits and admin changes amount to, through failed
\* writes and crashes at any point.
FileAsIntended == ~raced => disk.kind # "bad" /\ Entries = intended

\* The end of the reload that sendAllowlistState makes before it answers.
Answer ==
  /\ pc' = "idle"
  /\ \/ then = "reply" /\ then' = "done"
     \/ pc = "idle" /\ Reload("reply")

\* The answer to an admin request shows the file as it is, and the same list is
\* in force, also when a write falls into the mtime tick of the list it replaces.
AdminSeesFile ==
  [][Answer /\ disk.kind = "good" =>
       FileWallets' = Entries /\ merged' = Entries \cup Env]_vars

\* A wallet that stays in the file of a polling server is allowed for good, and
\* one that stays out of it is refused for good, whatever was read before.
ListFollowsFile ==
  LET Settled == polling /\ disk.kind = "good" IN
  \A w \in Wallet :
    /\ <>[](Settled /\ w \in disk.wallets) => <>[](w \in merged)
    /\ <>[](Settled /\ w \notin disk.wallets \cup Env) => <>[](w \notin merged)

=============================================================================
