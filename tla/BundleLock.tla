----------------------------- MODULE BundleLock -----------------------------
(***************************************************************************)
(* The .motif.lock file that keeps two processes from having one bundle     *)
(* open, as database_manager::create(), open(), close() and                 *)
(* discard_created_bundle() use it.                                         *)
(*                                                                         *)
(* The lock is a POSIX record lock (fcntl F_SETLK).  It belongs to the pair *)
(* of a process and an inode: a process that holds it is granted it again,  *)
(* and loses it as soon as it unlocks or closes ANY descriptor of the file. *)
(* Nothing ties it to the name: an inode that has been unlinked can still   *)
(* be locked through a descriptor, while the name gets another inode.       *)
(***************************************************************************)
EXTENDS Integers, FiniteSets

CONSTANTS
  Managers,      \* database_manager objects
  Processes,
  ProcessOf,     \* the process each manager lives in
  RemovalsFail,  \* a file may resist its removal
  MaxInodes      \* bound: lock files that exist at one time

NoFile  == 0
Inodes  == 1..MaxInodes
Nobody  == "nobody"

ASSUME LockAssumption ==
  /\ ProcessOf \in [Managers -> Processes] /\ Nobody \notin Processes
  /\ RemovalsFail \in BOOLEAN /\ MaxInodes \in Nat \ {0}

VARIABLES
  db,        \* games.db: "none", "bare" (without a schema) or "games"
  manifest,  \* manifest.json exists
  path,      \* the inode .motif.lock names
  owner,     \* the process that holds the lock on each inode
  created,   \* managers that came from create()
  st,        \* how far each manager has got
  fd         \* the inode of each manager's descriptor_

files == <<db, manifest>>
vars  == <<files, path, owner, created, st, fd>>

Goto(m, label) == st' = [st EXCEPT ![m] = label]

\* open_bundle_lock_file(): O_CREAT makes the file when the name is free.
LockFile == IF path = NoFile
            THEN {i \in Inodes : /\ \A m \in Managers : fd[m] # i
                                 /\ owner[i] = Nobody}
            ELSE {path}

OpenLockFile(m, label) ==
  /\ \E i \in LockFile : path' = i /\ fd' = [fd EXCEPT ![m] = i]
  /\ Goto(m, label)
  /\ UNCHANGED <<files, owner, created>>

\* Seeded fault of Grantable: a refusal is taken for success.
GrantableToAll(i, p) == TRUE

Grantable(i, p) == owner[i] \in {Nobody, p}

\* fcntl() on the descriptor; a refused lock closes it.
SetLock(m, label) ==
  /\ IF Grantable(fd[m], ProcessOf[m])
     THEN /\ owner' = [owner EXCEPT ![fd[m]] = ProcessOf[m]]
          /\ Goto(m, label) /\ UNCHANGED fd
     ELSE /\ fd' = [fd EXCEPT ![m] = NoFile]
          /\ Goto(m, "none") /\ UNCHANGED owner
  /\ UNCHANGED <<files, path, created>>

\* ~bundle_lock(): F_UNLCK and close, both of which drop the process's lock.
Release(m, label) ==
  /\ owner' = [owner EXCEPT ![fd[m]] = IF @ = ProcessOf[m] THEN Nobody ELSE @]
  /\ fd' = [fd EXCEPT ![m] = NoFile]
  /\ Goto(m, label)

Init ==
  /\ db = "none" /\ manifest = FALSE /\ path = NoFile
  /\ owner = [i \in Inodes |-> Nobody]
  /\ created = {} /\ st = [m \in Managers |-> "none"] /\ fd = [m \in Managers |-> NoFile]

-----------------------------------------------------------------------------
(* open(). *)

\* The bundle's files are looked for before the lock is taken ...
OpenCheck(m) ==
  /\ st[m] = "none" /\ db # "none" /\ manifest
  /\ Goto(m, "open_checked")
  /\ UNCHANGED <<files, path, owner, created, fd>>

OpenLock(m) ==
  \/ st[m] = "open_checked" /\ OpenLockFile(m, "open_fd")
  \/ st[m] = "open_fd" /\ SetLock(m, "open_locked")

\* ... and used after it.
OpenFinish(m) ==
  /\ st[m] = "open_locked" /\ db = "games" /\ manifest
  /\ Goto(m, "active")
  /\ UNCHANGED <<files, path, owner, created, fd>>

\* sqlite3_open() makes a games.db that has gone, which then has no schema; that
\* and any other error gives the lock up again.
OpenFail(m) ==
  /\ st[m] = "open_locked"
  /\ db' = IF db = "none" THEN "bare" ELSE db
  /\ Release(m, "none")
  /\ UNCHANGED <<manifest, path, created>>

-----------------------------------------------------------------------------
(* create(). *)

\* The lock first, then games.db must not exist.
CreateLock(m) ==
  \/ st[m] = "none" /\ OpenLockFile(m, "create_fd")
  \/ st[m] = "create_fd" /\ SetLock(m, "create_locked")

\* games.db exists or cannot be opened: the lock file stays.
CreateRefused(m) ==
  /\ st[m] = "create_locked"
  /\ Release(m, "none")
  /\ UNCHANGED <<files, path, created>>

CreateDb(m) ==
  /\ st[m] = "create_locked" /\ db = "none"
  /\ db' = "bare" /\ Goto(m, "create_db")
  /\ UNCHANGED <<manifest, path, owner, created, fd>>

\* The schema and the first manifest.
CreateManifest(m) ==
  /\ st[m] = "create_db"
  /\ db' = "games" /\ manifest' = TRUE /\ Goto(m, "create_manager")
  /\ UNCHANGED <<path, owner, created, fd>>

\* When either fails, whatever is there is removed while the lock is held ...
CreateFail(m) ==
  /\ st[m] = "create_db"
  /\ db' \in {db, "games"} /\ manifest' \in (IF db' = "games" THEN {manifest, TRUE} ELSE {manifest})
  /\ Goto(m, "remove_manifest")
  /\ UNCHANGED <<path, owner, created, fd>>

\* The empty postings and the in-use mark.
CreateFinish(m) ==
  /\ st[m] = "create_manager"
  /\ created' = created \cup {m} /\ Goto(m, "active")
  /\ UNCHANGED <<files, path, owner, fd>>

\* ... but when one of these fails, close() comes first and gives the lock up.
CreateClose(m) ==
  /\ st[m] = "create_manager"
  /\ Release(m, "remove_manifest")
  /\ UNCHANGED <<files, path, created>>

-----------------------------------------------------------------------------
(* close() and discard_created_bundle(). *)

Close(m) ==
  /\ st[m] = "active"
  /\ Release(m, "none") /\ created' = created \ {m}
  /\ UNCHANGED <<files, path>>

\* close(), which gives the lock up, then the files.
DiscardClose(m) ==
  /\ st[m] = "active" /\ m \in created
  /\ Release(m, "remove_manifest") /\ created' = created \ {m}
  /\ UNCHANGED <<files, path>>

\* remove_created_bundle_files(): each removal is best effort, and goes by name.
After(gone, there) == {gone} \cup (IF RemovalsFail THEN {there} ELSE {})

RemoveManifest(m) ==
  /\ st[m] = "remove_manifest"
  /\ manifest' \in After(FALSE, manifest) /\ Goto(m, "remove_db")
  /\ UNCHANGED <<db, path, owner, created, fd>>

RemoveDb(m) ==
  /\ st[m] = "remove_db"
  /\ db' \in After("none", db) /\ Goto(m, "remove_lock")
  /\ UNCHANGED <<manifest, path, owner, created, fd>>

RemoveLockFile(m) ==
  /\ st[m] = "remove_lock"
  /\ path' \in After(NoFile, path)
  /\ Goto(m, IF fd[m] = NoFile THEN "none" ELSE "removed")
  /\ UNCHANGED <<files, owner, created, fd>>

\* The failed create() returns, and its bundle_lock goes.
CreateReturn(m) ==
  /\ st[m] = "removed"
  /\ Release(m, "none")
  /\ UNCHANGED <<files, path, created>>

\* The kernel closes a dead process's descriptors.
Exit(p) ==
  LET mine == {m \in Managers : ProcessOf[m] = p}
  IN /\ \E m \in mine : st[m] # "none"
     /\ owner' = [i \in Inodes |-> IF owner[i] = p THEN Nobody ELSE owner[i]]
     /\ fd' = [m \in Managers |-> IF m \in mine THEN NoFile ELSE fd[m]]
     /\ st' = [m \in Managers |-> IF m \in mine THEN "none" ELSE st[m]]
     /\ created' = created \ mine
     /\ UNCHANGED <<files, path>>

Next ==
  \/ \E m \in Managers :
       \/ OpenCheck(m) \/ OpenLock(m) \/ OpenFinish(m) \/ OpenFail(m)
       \/ CreateLock(m) \/ CreateRefused(m) \/ CreateDb(m) \/ CreateManifest(m)
       \/ CreateFail(m) \/ CreateFinish(m) \/ CreateClose(m) \/ CreateReturn(m)
       \/ Close(m) \/ DiscardClose(m)
       \/ RemoveManifest(m) \/ RemoveDb(m) \/ RemoveLockFile(m)
  \/ \E p \in Processes : Exit(p)

Spec == Init /\ [][Next]_vars

-----------------------------------------------------------------------------
Active == {m \in Managers : st[m] = "active"}

\* What the bundle-lock test says: open() rejects a concurrent writer process for
\* the same bundle.
OneWriterProcess ==
  \A m, n \in Active : ProcessOf[m] = ProcessOf[n]

\* The lock excludes every other process for as long as .motif.lock is the file it
\* was taken on: when two processes have the bundle open, one of them opened it
\* through a lock file that a discarded bundle or a failed create() has removed.
\* Refused openers, failed creates that still hold the lock, and dying processes
\* let nobody else in.
OneWriterUnlessRemoved ==
  \A m, n \in Active : ProcessOf[m] = ProcessOf[n] \/ fd[m] # path \/ fd[n] # path
=============================================================================
