-------------------------- MODULE BundleLockProofs --------------------------
(***************************************************************************)
(* What .motif.lock excludes, for any number of processes, managers and    *)
(* lock files.                                                             *)
(***************************************************************************)
EXTENDS BundleLock, TLAPS

\* Where a manager has a descriptor without a lock, and where it has both.
Opening  == {"open_fd", "create_fd"}
Locked   == {"open_locked", "create_locked", "create_db", "create_manager", "active", "removed"}
Removing == {"remove_manifest", "remove_db", "remove_lock"}
Labels   == Opening \cup Locked \cup Removing \cup {"none", "open_checked"}

\* No other database_manager lives in m's process.
Alone(m) == \A n \in Managers : ProcessOf[n] = ProcessOf[m] => n = m

TypeOK ==
  /\ path \in Inodes \cup {NoFile}
  /\ owner \in [Inodes -> Processes \cup {Nobody}]
  /\ st \in [Managers -> Labels] /\ fd \in [Managers -> Inodes \cup {NoFile}]

\* A manager has a descriptor from open_bundle_lock_file() to ~bundle_lock(), and
\* once fcntl() has returned also its process's lock, unless a second manager of
\* that process can have dropped it.
LockInv ==
  \A m \in Managers :
    /\ st[m] \in Opening \cup Locked => fd[m] \in Inodes
    /\ fd[m] \in Inodes => st[m] \in Opening \cup Locked \cup Removing
    /\ fd[m] \in Inodes /\ st[m] \notin Opening /\ Alone(m) => owner[fd[m]] = ProcessOf[m]

Consistent == TypeOK /\ LockInv

LEMMA NoFileIsNoInode == NoFile \notin Inodes
BY LockAssumption DEF NoFile, Inodes

LEMMA LockFileType == ASSUME TypeOK, NEW i \in LockFile PROVE i \in Inodes
BY DEF TypeOK, LockFile

-----------------------------------------------------------------------------
(* Each way to touch the lock. *)

LEMMA OpenLockFileKeeps ==
  ASSUME Consistent, NEW m \in Managers, NEW label \in Opening,
         st[m] \in {"none", "open_checked"}, OpenLockFile(m, label)
  PROVE  Consistent'
<1> USE NoFileIsNoInode DEF Consistent
<1>1. PICK i \in LockFile : path' = i /\ fd' = [fd EXCEPT ![m] = i]
  BY DEF OpenLockFile
<1>2. i \in Inodes
  BY LockFileType
<1>3. st' = [st EXCEPT ![m] = label] /\ owner' = owner
  BY DEF OpenLockFile, Goto
<1>4. TypeOK'
  BY <1>1, <1>2, <1>3 DEF TypeOK, Labels
<1>5. LockInv'
  BY <1>1, <1>2, <1>3 DEF TypeOK, LockInv, Alone, Opening, Locked, Removing
<1> QED BY <1>4, <1>5

\* A process is granted only what nobody else holds, so nobody who is alone in its
\* process loses a lock to it.
LEMMA SetLockKeeps ==
  ASSUME Consistent, NEW m \in Managers, NEW label \in Locked, st[m] \in Opening, SetLock(m, label)
  PROVE  Consistent'
<1> USE LockAssumption, NoFileIsNoInode DEF Consistent
<1>1. fd[m] \in Inodes /\ path' = path
  BY DEF LockInv, SetLock
<1>2. CASE Grantable(fd[m], ProcessOf[m])
  <2>1. /\ owner' = [owner EXCEPT ![fd[m]] = ProcessOf[m]]
        /\ st' = [st EXCEPT ![m] = label] /\ fd' = fd
    BY <1>2 DEF SetLock, Goto
  <2>2. TypeOK'
    BY <1>1, <2>1 DEF TypeOK, Labels
  <2>3. LockInv'
    <3> SUFFICES ASSUME NEW n \in Managers
                 PROVE  /\ st'[n] \in Opening \cup Locked => fd'[n] \in Inodes
                        /\ fd'[n] \in Inodes => st'[n] \in Opening \cup Locked \cup Removing
                        /\ fd'[n] \in Inodes /\ st'[n] \notin Opening /\ Alone(n)
                           => owner'[fd'[n]] = ProcessOf[n]
      BY DEF LockInv, Alone
    <3>1. CASE n = m
      BY <1>1, <2>1, <3>1 DEF TypeOK
    <3>2. CASE n # m
      BY <1>1, <1>2, <2>1, <3>2 DEF TypeOK, LockInv, Grantable, Alone
    <3> QED BY <3>1, <3>2
  <2> QED BY <2>2, <2>3
<1>3. CASE ~Grantable(fd[m], ProcessOf[m])
  <2>1. fd' = [fd EXCEPT ![m] = NoFile] /\ st' = [st EXCEPT ![m] = "none"] /\ owner' = owner
    BY <1>3 DEF SetLock, Goto
  <2>2. TypeOK'
    BY <1>1, <2>1 DEF TypeOK, Labels
  <2>3. LockInv'
    BY <2>1 DEF TypeOK, LockInv, Alone, Opening, Locked
  <2> QED BY <2>2, <2>3
<1> QED BY <1>2, <1>3

\* Giving it up: only the process's own lock goes.
LEMMA ReleaseKeeps ==
  ASSUME Consistent, NEW m \in Managers, NEW label \in {"none", "remove_manifest"},
         st[m] \in Locked, Release(m, label), path' = path
  PROVE  Consistent'
<1> USE LockAssumption, NoFileIsNoInode DEF Consistent, Release, Goto
<1>1. fd[m] \in Inodes
  BY DEF LockInv
<1>2. TypeOK'
  BY <1>1 DEF TypeOK, Labels, Removing
<1>3. LockInv'
  <2> SUFFICES ASSUME NEW n \in Managers
               PROVE  /\ st'[n] \in Opening \cup Locked => fd'[n] \in Inodes
                      /\ fd'[n] \in Inodes => st'[n] \in Opening \cup Locked \cup Removing
                      /\ fd'[n] \in Inodes /\ st'[n] \notin Opening /\ Alone(n)
                         => owner'[fd'[n]] = ProcessOf[n]
    BY DEF LockInv, Alone
  <2>1. CASE n = m
    BY <2>1 DEF TypeOK, Opening, Locked
  <2>2. CASE n # m
    BY <1>1, <2>2 DEF TypeOK, LockInv, Alone
  <2> QED BY <2>1, <2>2
<1> QED BY <1>2, <1>3

\* The steps that leave the lock alone.
LEMMA LabelKeeps ==
  ASSUME Consistent, NEW m \in Managers, NEW label \in Labels \ Opening, st[m] \notin Opening,
         label \in Locked => fd[m] \in Inodes,
         fd[m] \in Inodes => label \in Locked \cup Removing,
         st' = [st EXCEPT ![m] = label], UNCHANGED <<owner, fd>>, path' \in Inodes \cup {NoFile}
  PROVE  Consistent'
<1>1. TypeOK'
  BY DEF Consistent, TypeOK
<1>2. LockInv'
  BY DEF Consistent, TypeOK, LockInv, Alone
<1> QED BY <1>1, <1>2 DEF Consistent

LEMMA ExitKeeps == ASSUME Consistent, NEW p \in Processes, Exit(p) PROVE Consistent'
<1> USE LockAssumption, NoFileIsNoInode DEF Consistent, Exit
<1>1. TypeOK'
  BY DEF TypeOK, Labels
<1>2. LockInv'
  <2> SUFFICES ASSUME NEW n \in Managers
               PROVE  /\ st'[n] \in Opening \cup Locked => fd'[n] \in Inodes
                      /\ fd'[n] \in Inodes => st'[n] \in Opening \cup Locked \cup Removing
                      /\ fd'[n] \in Inodes /\ st'[n] \notin Opening /\ Alone(n)
                         => owner'[fd'[n]] = ProcessOf[n]
    BY DEF LockInv, Alone
  <2>1. CASE ProcessOf[n] = p
    BY <2>1 DEF TypeOK, Opening, Locked
  <2>2. CASE ProcessOf[n] # p
    BY <2>2 DEF TypeOK, LockInv, Alone
  <2> QED BY <2>1, <2>2
<1> QED BY <1>1, <1>2

-----------------------------------------------------------------------------
LEMMA ConsistentInit == Init => Consistent
BY NoFileIsNoInode DEF Init, Consistent, TypeOK, LockInv, Labels, Opening, Locked, Removing

LEMMA ConsistentStep == Consistent /\ [Next]_vars => Consistent'
<1> SUFFICES ASSUME Consistent, [Next]_vars PROVE Consistent'
  OBVIOUS
<1> USE DEF Labels, Opening, Locked, Removing
<1>1. ASSUME NEW m \in Managers, OpenCheck(m) \/ OpenFinish(m)
      PROVE  Consistent'
  BY <1>1, LabelKeeps DEF OpenCheck, OpenFinish, Goto, Consistent, TypeOK, LockInv
<1>2. ASSUME NEW m \in Managers, OpenLock(m) \/ CreateLock(m)
      PROVE  Consistent'
  BY <1>2, OpenLockFileKeeps, SetLockKeeps DEF OpenLock, CreateLock
<1>3. ASSUME NEW m \in Managers, OpenFail(m) \/ CreateRefused(m) \/ CreateReturn(m)
      PROVE  Consistent'
  BY <1>3, ReleaseKeeps DEF OpenFail, CreateRefused, CreateReturn
<1>4. ASSUME NEW m \in Managers, CreateDb(m) \/ CreateManifest(m) \/ CreateFail(m) \/ CreateFinish(m)
      PROVE  Consistent'
  BY <1>4, LabelKeeps DEF CreateDb, CreateManifest, CreateFail, CreateFinish, Goto, Consistent, TypeOK, LockInv
<1>5. ASSUME NEW m \in Managers, CreateClose(m) \/ Close(m) \/ DiscardClose(m)
      PROVE  Consistent'
  BY <1>5, ReleaseKeeps DEF CreateClose, Close, DiscardClose
<1>6. ASSUME NEW m \in Managers, RemoveManifest(m) \/ RemoveDb(m)
      PROVE  Consistent'
  BY <1>6, LabelKeeps DEF RemoveManifest, RemoveDb, Goto, Consistent, TypeOK, LockInv
<1>7. ASSUME NEW m \in Managers, RemoveLockFile(m)
      PROVE  Consistent'
  <2>1. path' \in Inodes \cup {NoFile} /\ st[m] = "remove_lock" /\ UNCHANGED <<owner, fd>>
    BY <1>7 DEF RemoveLockFile, After, Consistent, TypeOK
  <2>2. st' = [st EXCEPT ![m] = IF fd[m] = NoFile THEN "none" ELSE "removed"]
    BY <1>7 DEF RemoveLockFile, Goto
  <2>3. fd[m] = NoFile <=> fd[m] \notin Inodes
    BY NoFileIsNoInode DEF Consistent, TypeOK
  <2>4. CASE fd[m] = NoFile
    BY <2>1, <2>2, <2>3, <2>4, LabelKeeps
  <2>5. CASE fd[m] # NoFile
    BY <2>1, <2>2, <2>3, <2>5, LabelKeeps
  <2> QED BY <2>4, <2>5
<1>8. ASSUME NEW p \in Processes, Exit(p)
      PROVE  Consistent'
  BY <1>8, ExitKeeps
<1>9. CASE UNCHANGED vars
  BY <1>9 DEF vars, Consistent, TypeOK, LockInv, Alone
<1> QED
  BY <1>1, <1>2, <1>3, <1>4, <1>5, <1>6, <1>7, <1>8, <1>9 DEF Next

LEMMA ConsistentAlways == Spec => []Consistent
BY ConsistentInit, ConsistentStep, PTL DEF Spec

\* Two managers that are alone in their processes and have the same lock file open
\* are one.
LEMMA OneHolder ==
  ASSUME Consistent, NEW m \in Active, NEW n \in Active, Alone(m), Alone(n), fd[m] = fd[n]
  PROVE  ProcessOf[m] = ProcessOf[n]
BY DEF Consistent, LockInv, Active, Locked, Opening

\* Where no process has two managers, the lock excludes every other process for as
\* long as .motif.lock is the file it was taken on: only the unlink of a discarded
\* bundle or of a failed create() can let a second writer in.
THEOREM ExclusiveUnlessRemoved ==
  (\A m \in Managers : Alone(m)) => (Spec => []OneWriterUnlessRemoved)
<1> SUFFICES ASSUME \A m \in Managers : Alone(m) PROVE Spec => []OneWriterUnlessRemoved
  OBVIOUS
<1>1. Consistent => OneWriterUnlessRemoved
  BY OneHolder DEF OneWriterUnlessRemoved, Active
<1> QED
  BY <1>1, ConsistentAlways, PTL

-----------------------------------------------------------------------------
\* .motif.lock, once it exists, keeps its inode.
LockFileStays == path # NoFile => path' = path

\* Every descriptor is one of the file .motif.lock names.
OneFile == \A m \in Managers : fd[m] \in Inodes => fd[m] = path

LEMMA OneFileStep ==
  Consistent /\ OneFile /\ [Next]_vars /\ [LockFileStays]_vars => OneFile'
<1> SUFFICES ASSUME Consistent, OneFile, [Next]_vars, [LockFileStays]_vars PROVE OneFile'
  OBVIOUS
<1> USE NoFileIsNoInode DEF Consistent, TypeOK
<1>1. ASSUME NEW m \in Managers, NEW label, OpenLockFile(m, label) PROVE OneFile'
  <2>1. PICK i \in LockFile : path' = i /\ fd' = [fd EXCEPT ![m] = i]
    BY <1>1 DEF OpenLockFile
  <2>2. path # NoFile => i = path
    BY <2>1 DEF LockFile
  <2>3. path = NoFile => \A n \in Managers : fd[n] \notin Inodes
    BY DEF OneFile
  <2> QED BY <2>1, <2>2, <2>3 DEF OneFile
<1>2. CASE /\ path' = path \/ path' = NoFile
           /\ \A n \in Managers : fd'[n] \in {fd[n], NoFile}
  <2>1. \/ path' = path
        \/ path = NoFile
    BY <1>2 DEF LockFileStays, vars
  <2> QED BY <1>2, <2>1 DEF OneFile
<1>3. ASSUME NEW m \in Managers, NEW label, Release(m, label) \/ SetLock(m, label)
      PROVE  \A n \in Managers : fd'[n] \in {fd[n], NoFile}
  BY <1>3 DEF Release, SetLock
<1>4. ASSUME NEW m \in Managers, OpenLock(m) \/ CreateLock(m) PROVE OneFile'
  <2>1. CASE \E label : SetLock(m, label)
    BY <1>2, <1>3, <2>1 DEF SetLock
  <2> QED BY <1>1, <1>4, <2>1 DEF OpenLock, CreateLock
<1>5. ASSUME NEW m \in Managers,
             \/ OpenFail(m) \/ CreateRefused(m) \/ CreateReturn(m)
             \/ CreateClose(m) \/ Close(m) \/ DiscardClose(m)
      PROVE  OneFile'
  BY <1>2, <1>3, <1>5 DEF OpenFail, CreateRefused, CreateReturn, CreateClose, Close, DiscardClose
<1>6. ASSUME NEW m \in Managers,
             \/ OpenCheck(m) \/ OpenFinish(m) \/ CreateDb(m) \/ CreateManifest(m) \/ CreateFail(m)
             \/ CreateFinish(m) \/ RemoveManifest(m) \/ RemoveDb(m) \/ RemoveLockFile(m)
      PROVE  OneFile'
  BY <1>2, <1>6 DEF OpenCheck, OpenFinish, CreateDb, CreateManifest, CreateFail, CreateFinish,
     RemoveManifest, RemoveDb, RemoveLockFile, After
<1>7. ASSUME NEW p \in Processes, Exit(p) PROVE OneFile'
  BY <1>2, <1>7 DEF Exit
<1>8. CASE UNCHANGED vars
  BY <1>8 DEF vars, OneFile
<1> QED
  BY <1>4, <1>5, <1>6, <1>7, <1>8 DEF Next

\* What the bundle-lock test says holds for every history in which nobody removes
\* .motif.lock, however openers, creators and dying processes interleave between
\* the look for the files, the open of the lock file, the lock and the first use.
THEOREM ExclusiveWhileLockFileStays ==
  (\A m \in Managers : Alone(m)) =>
    (Spec /\ [][LockFileStays]_vars => []OneWriterProcess)
<1> SUFFICES ASSUME \A m \in Managers : Alone(m)
             PROVE  Spec /\ [][LockFileStays]_vars => []OneWriterProcess
  OBVIOUS
<1>1. Init => OneFile
  BY NoFileIsNoInode DEF Init, OneFile
<1>2. Consistent /\ OneFile => OneWriterProcess
  <2> SUFFICES ASSUME Consistent, OneFile, NEW m \in Active, NEW n \in Active
               PROVE  ProcessOf[m] = ProcessOf[n]
    BY DEF OneWriterProcess
  <2>1. m \in Managers /\ n \in Managers /\ fd[m] \in Inodes /\ fd[n] \in Inodes
    BY DEF Consistent, LockInv, Active, Locked
  <2>2. fd[m] = fd[n]
    BY <2>1 DEF OneFile
  <2> QED BY <2>1, <2>2, OneHolder
<1> QED
  BY <1>1, <1>2, OneFileStep, ConsistentAlways, PTL DEF Spec
=============================================================================
