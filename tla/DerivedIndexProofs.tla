------------------------- MODULE DerivedIndexProofs -------------------------
(* Safety of DerivedIndex, and at the end of PowerLoss, for every game set *)
(* and every bound.                                                        *)
EXTENDS PowerLoss, FiniteSetTheorems, TLAPS

(* Types of what the actions build. *)

LEMMA MaxSeqNat == MaxSeq \in Nat
BY BoundsAssumption DEF MaxSeq

LEMMA EmptyTypes ==
  /\ NoReaders \in [Kinds -> Images \cup {None}]
  /\ NoEntries \in [Kinds -> Entries \cup {None}]
  /\ EmptyStore \in Images
  /\ [n \in ArtifactNames |-> None] \in [ArtifactNames -> Images \cup {None, Corrupt}]
  /\ "postings" \in Kinds /\ "tree" \in Kinds
BY DEF Kinds, NoReaders, NoEntries, EmptyStore, Images

LEMMA MakeManifestType ==
  /\ make_manifest \in Manifests /\ make_manifest # None
  /\ make_manifest.entry = NoEntries
<1>1. make_manifest \in Manifests /\ make_manifest.entry = NoEntries
  BY MaxSeqNat, EmptyTypes DEF make_manifest, Manifests
<1> QED
  BY <1>1, SentinelAssumption

LEMMA InUseType ==
  ASSUME NEW m \in Manifests, NEW b \in BOOLEAN
  PROVE  /\ InUse(m, b) \in Manifests /\ InUse(m, b) # None
         /\ InUse(m, b).gen = m.gen /\ InUse(m, b).seq = m.seq
         /\ InUse(m, b).entry = m.entry
BY SentinelAssumption DEF Manifests, InUse

LEMMA InvalidatedType ==
  ASSUME NEW m \in Manifests
  PROVE  /\ Invalidated(m) \in Manifests /\ Invalidated(m) # None
         /\ Invalidated(m).entry = NoEntries
<1>1. Invalidated(m) \in Manifests /\ Invalidated(m).entry = NoEntries
  BY EmptyTypes DEF Manifests, Invalidated
<1> QED
  BY <1>1, SentinelAssumption

LEMMA WithEntryType ==
  ASSUME NEW m \in Manifests, NEW k \in Kinds, NEW e \in Entries, m.seq < MaxSeq
  PROVE  /\ WithEntry(m, k, e) \in Manifests /\ WithEntry(m, k, e) # None
         /\ WithEntry(m, k, e).gen = m.gen /\ WithEntry(m, k, e).seq = m.seq + 1
         /\ WithEntry(m, k, e).entry = [m.entry EXCEPT ![k] = e]
<1>1. m.seq + 1 \in 0..MaxSeq
  BY MaxSeqNat DEF Manifests
<1>2. [m.entry EXCEPT ![k] = e] \in [Kinds -> Entries \cup {None}]
  BY DEF Manifests
<1>3. WithEntry(m, k, e) \in Manifests
  BY <1>1, <1>2 DEF Manifests, WithEntry
<1> QED
  BY <1>3, SentinelAssumption DEF WithEntry

LEMMA EntryNames ==
  ASSUME NEW m \in Manifests, NEW k \in Kinds
  PROVE  /\ <<k, m.seq>> \in ArtifactNames
         /\ m.entry[k] # None => m.entry[k] \in Entries /\ <<k, m.entry[k].seq>> \in ArtifactNames
BY DEF Manifests, Entries, ArtifactNames

(* What count_games() tells of two stores. *)

LEMMA CountNat == ASSUME NEW img PROVE count_games(img) \in Nat
<1>1. IsFiniteSet({g \in Games : img[g] # Absent})
  BY FiniteAssumption, FS_Subset
<1> QED
  BY <1>1, FS_CardinalityType DEF count_games

LEMMA PrunedCount ==
  ASSUME NEW img \in Images, NEW gone,
         NEW rest, rest = [g \in Games |-> IF g \in gone THEN Absent ELSE img[g]]
  PROVE  rest \in Images /\ (rest = img \/ count_games(rest) < count_games(img))
<1> DEFINE P == {g \in Games : img[g] # Absent}
           Q == {g \in Games : rest[g] # Absent}
<1>1. rest \in Images
  BY DEF Images
<1>2. Q \subseteq P /\ IsFiniteSet(P)
  BY FiniteAssumption, FS_Subset
<1>3. Q = P => rest = img
  BY DEF Images
<1>4. Q # P => Cardinality(Q) < Cardinality(P)
  BY <1>2, FS_Subset, FS_CardinalityType
<1> QED
  BY <1>1, <1>3, <1>4 DEF count_games

LEMMA EmptyCount ==
  ASSUME NEW img \in Images
  PROVE  img = EmptyStore \/ count_games(EmptyStore) < count_games(img)
<1>1. EmptyStore = [g \in Games |-> IF g \in Games THEN Absent ELSE img[g]]
  BY DEF EmptyStore
<1> QED
  BY <1>1, PrunedCount

(* The initial state, and each action in turn. *)

LEMMA SoundInit == Init => Sound
<1> SUFFICES ASSUME Init PROVE Sound
  OBVIOUS
<1>1. TypeOK
  BY EmptyTypes DEF Init, TypeOK, StorageTypeOK, ManagerTypeOK, CallTypeOK, BudgetTypeOK, Labels
<1>2. SessionInv
  BY DEF Init, SessionInv, OpenLabels, Labels
<1>3. EntryInv /\ CallInv
  BY DEF Init, EntryInv, CallInv, NoReaders
<1> QED
  BY <1>1, <1>2, <1>3 DEF Sound

LEMMA CreateSchemaStep == ASSUME Sound, CreateSchema PROVE Sound'
<1> USE SentinelAssumption DEF Sound, TypeOK, CreateSchema, manager, Goto
<1>1. StorageTypeOK'
  BY EmptyTypes DEF StorageTypeOK, CallTypeOK
<1>2. ManagerTypeOK'
  BY EmptyTypes DEF ManagerTypeOK, StorageTypeOK
<1>3. CallTypeOK'
  BY EmptyTypes DEF CallTypeOK, Labels
<1>4. BudgetTypeOK'
  BY DEF BudgetTypeOK
<1>5. SessionInv'
  BY EmptyTypes DEF SessionInv, OpenLabels, Labels, StorageTypeOK, ManagerTypeOK, CallTypeOK
<1>6. EntryInv'
  BY EmptyTypes DEF EntryInv, SessionInv, OpenLabels, Labels
<1>7. CallInv'
  BY EmptyTypes DEF CallInv, SessionInv, OpenLabels, Labels
<1> QED
  BY <1>1, <1>2, <1>3, <1>4, <1>5, <1>6, <1>7

LEMMA CreateManifestStep == ASSUME Sound, NEW o, CreateManifest(o) PROVE Sound'
<1> USE SentinelAssumption DEF Sound, TypeOK, CreateManifest, Goto, write_manifest, Fail, was_published
<1>1. StorageTypeOK'
  BY MakeManifestType, EmptyTypes DEF StorageTypeOK, CallTypeOK
<1>2. ManagerTypeOK'
  BY MakeManifestType, EmptyTypes DEF ManagerTypeOK, StorageTypeOK
<1>3. CallTypeOK'
  BY MakeManifestType, EmptyTypes DEF CallTypeOK, Labels
<1>4. BudgetTypeOK'
  BY DEF BudgetTypeOK
<1>5. SessionInv'
  BY MakeManifestType, EmptyTypes DEF SessionInv, OpenLabels, Labels, StorageTypeOK, ManagerTypeOK, CallTypeOK
<1>6. EntryInv'
  BY MakeManifestType, EmptyTypes DEF EntryInv, SessionInv, OpenLabels, Labels, NoReaders, NoEntries
<1>7. CallInv'
  BY MakeManifestType, EmptyTypes DEF CallInv, SessionInv, OpenLabels, Labels, NoEntries
<1> QED
  BY <1>1, <1>2, <1>3, <1>4, <1>5, <1>6, <1>7

LEMMA OpenStep == ASSUME Sound, NEW u, OpenBundle(u) PROVE Sound'
<1> USE SentinelAssumption DEF Sound, TypeOK, OpenBundle, storage, Goto, Fail
<1>1. StorageTypeOK'
  BY EmptyTypes DEF StorageTypeOK, CallTypeOK
<1>2. ManagerTypeOK'
  BY EmptyTypes DEF ManagerTypeOK, StorageTypeOK, Manifests, Entries
<1>3. CallTypeOK'
  BY EmptyTypes DEF CallTypeOK, Labels
<1>4. BudgetTypeOK'
  BY DEF BudgetTypeOK
<1>5. SessionInv'
  BY EmptyTypes DEF SessionInv, OpenLabels, Labels, StorageTypeOK, ManagerTypeOK, CallTypeOK
<1>6. EntryInv'
  BY EmptyTypes DEF EntryInv, SessionInv, OpenLabels, Labels
<1>7. CallInv'
  BY EmptyTypes DEF CallInv, SessionInv, OpenLabels, Labels
<1> QED
  BY <1>1, <1>2, <1>3, <1>4, <1>5, <1>6, <1>7

LEMMA MarkInUseStep == ASSUME Sound, NEW o, MarkInUse(o) PROVE Sound'
<1> USE SentinelAssumption DEF Sound, TypeOK, MarkInUse, Goto, Return, write_manifest, Fail, was_published
<1>0. mem \in Manifests
  BY DEF ManagerTypeOK, SessionInv, OpenLabels, Labels
<1>a. /\ disk # None /\ disk' # None /\ disk'.entry = disk.entry
      /\ disk'.gen = disk.gen /\ disk'.seq = disk.seq
  BY <1>0, InUseType DEF SessionInv
<1>b. mem' # None /\ mem'.entry = mem.entry /\ reader' = reader /\ games' = games
  BY <1>0, InUseType
<1>1. StorageTypeOK'
  BY <1>0, InUseType, EmptyTypes DEF StorageTypeOK, CallTypeOK
<1>2. ManagerTypeOK'
  BY <1>0, InUseType, EmptyTypes DEF ManagerTypeOK, StorageTypeOK
<1>3. CallTypeOK'
  BY <1>0, InUseType, EmptyTypes DEF CallTypeOK, Labels
<1>4. BudgetTypeOK'
  BY DEF BudgetTypeOK
<1>5. SessionInv'
  BY <1>0, InUseType, EmptyTypes DEF SessionInv, OpenLabels, Labels, StorageTypeOK, ManagerTypeOK, CallTypeOK
<1>6. EntryInv'
  BY <1>a, <1>b DEF EntryInv
<1>7. CallInv'
  BY <1>0, InUseType, EmptyTypes DEF CallInv, SessionInv, OpenLabels, Labels
<1> QED
  BY <1>1, <1>2, <1>3, <1>4, <1>5, <1>6, <1>7

LEMMA CloseStep == ASSUME Sound, NEW o, CloseManager(o) PROVE Sound'
<1> USE SentinelAssumption DEF Sound, TypeOK, CloseManager, Goto, Gone, write_manifest, Fail, was_published
<1>0. mem \in Manifests
  BY DEF ManagerTypeOK, SessionInv, OpenLabels, Labels
<1>a. /\ disk # None /\ disk' # None /\ disk'.entry = disk.entry
      /\ disk'.gen = disk.gen /\ disk'.seq = disk.seq
  BY <1>0, InUseType DEF SessionInv
<1>1. StorageTypeOK'
  BY <1>0, InUseType, EmptyTypes DEF StorageTypeOK, CallTypeOK
<1>2. ManagerTypeOK'
  BY <1>0, InUseType, EmptyTypes DEF ManagerTypeOK, StorageTypeOK
<1>3. CallTypeOK'
  BY <1>0, InUseType, EmptyTypes DEF CallTypeOK, Labels
<1>4. BudgetTypeOK'
  BY DEF BudgetTypeOK
<1>5. SessionInv'
  BY <1>0, InUseType, EmptyTypes DEF SessionInv, OpenLabels, Labels, StorageTypeOK, ManagerTypeOK, CallTypeOK
<1>6. EntryInv'
  BY <1>0, <1>a DEF EntryInv, SessionInv, NoReaders
<1>7. CallInv'
  BY <1>0, InUseType, EmptyTypes DEF CallInv, SessionInv, OpenLabels, Labels
<1> QED
  BY <1>1, <1>2, <1>3, <1>4, <1>5, <1>6, <1>7

LEMMA DiscardStep == ASSUME Sound, DiscardCreatedBundle PROVE Sound'
<1> USE SentinelAssumption DEF Sound, TypeOK, DiscardCreatedBundle, Goto, storage, manager, budget
<1>1. StorageTypeOK'
  BY DEF StorageTypeOK, CallTypeOK
<1>2. ManagerTypeOK'
  BY DEF ManagerTypeOK, StorageTypeOK
<1>3. CallTypeOK'
  BY DEF CallTypeOK, Labels
<1>4. BudgetTypeOK'
  BY DEF BudgetTypeOK
<1>5. SessionInv'
  BY DEF SessionInv, OpenLabels, Labels, StorageTypeOK, ManagerTypeOK, CallTypeOK
<1>6. EntryInv'
  BY DEF EntryInv, SessionInv, OpenLabels, Labels
<1>7. CallInv'
  BY DEF CallInv, SessionInv, OpenLabels, Labels
<1> QED
  BY <1>1, <1>2, <1>3, <1>4, <1>5, <1>6, <1>7

LEMMA RemoveManifestStep == ASSUME Sound, RemoveManifest PROVE Sound'
<1> USE SentinelAssumption DEF Sound, TypeOK, RemoveManifest, Goto, manager, Fail
<1>1. StorageTypeOK'
  BY DEF StorageTypeOK, CallTypeOK
<1>2. ManagerTypeOK'
  BY DEF ManagerTypeOK, StorageTypeOK
<1>3. CallTypeOK'
  BY DEF CallTypeOK, Labels
<1>4. BudgetTypeOK'
  BY DEF BudgetTypeOK
<1>5. SessionInv'
  BY DEF SessionInv, OpenLabels, Labels, StorageTypeOK, ManagerTypeOK, CallTypeOK
<1>6. EntryInv'
  BY DEF EntryInv, SessionInv, OpenLabels, Labels
<1>7. CallInv'
  BY DEF CallInv, SessionInv, OpenLabels, Labels
<1> QED
  BY <1>1, <1>2, <1>3, <1>4, <1>5, <1>6, <1>7

LEMMA RemoveDbStep == ASSUME Sound, RemoveDb PROVE Sound'
<1> USE SentinelAssumption DEF Sound, TypeOK, RemoveDb, Goto, manager, Fail
<1>1. StorageTypeOK'
  BY EmptyTypes DEF StorageTypeOK, CallTypeOK
<1>2. ManagerTypeOK'
  BY EmptyTypes DEF ManagerTypeOK, StorageTypeOK
<1>3. CallTypeOK'
  BY EmptyTypes DEF CallTypeOK, Labels
<1>4. BudgetTypeOK'
  BY DEF BudgetTypeOK
<1>5. SessionInv'
  BY EmptyTypes DEF SessionInv, OpenLabels, Labels, StorageTypeOK, ManagerTypeOK, CallTypeOK
<1>6. EntryInv'
  BY EmptyTypes DEF EntryInv, SessionInv, OpenLabels, Labels
<1>7. CallInv'
  BY EmptyTypes DEF CallInv, SessionInv, OpenLabels, Labels
<1> QED
  BY <1>1, <1>2, <1>3, <1>4, <1>5, <1>6, <1>7

LEMMA RemoveArtifactsStep == ASSUME Sound, RemoveArtifacts PROVE Sound'
<1> USE SentinelAssumption DEF Sound, TypeOK, RemoveArtifacts, Goto, Gone, Fail
<1>1. StorageTypeOK'
  BY EmptyTypes DEF StorageTypeOK, CallTypeOK
<1>2. ManagerTypeOK'
  BY EmptyTypes DEF ManagerTypeOK, StorageTypeOK
<1>3. CallTypeOK'
  BY EmptyTypes DEF CallTypeOK, Labels
<1>4. BudgetTypeOK'
  BY DEF BudgetTypeOK
<1>5. SessionInv'
  BY EmptyTypes DEF SessionInv, OpenLabels, Labels, StorageTypeOK, ManagerTypeOK, CallTypeOK
<1>6. EntryInv'
  BY EmptyTypes DEF EntryInv, SessionInv, OpenLabels, Labels, NoReaders
<1>7. CallInv'
  BY EmptyTypes DEF CallInv, SessionInv, OpenLabels, Labels
<1> QED
  BY <1>1, <1>2, <1>3, <1>4, <1>5, <1>6, <1>7

LEMMA BeginMutationStep == ASSUME Sound, NEW t \in {"edit", "import"}, BeginMutation(t) PROVE Sound'
<1> USE SentinelAssumption DEF Sound, TypeOK, BeginMutation, Goto, storage, manager
<1>1. StorageTypeOK'
  BY DEF StorageTypeOK, CallTypeOK
<1>2. ManagerTypeOK'
  BY DEF ManagerTypeOK, StorageTypeOK
<1>3. CallTypeOK'
  BY DEF CallTypeOK, Labels
<1>4. BudgetTypeOK'
  BY DEF BudgetTypeOK
<1>5. SessionInv'
  BY DEF SessionInv, OpenLabels, Labels, StorageTypeOK, ManagerTypeOK, CallTypeOK
<1>6. EntryInv'
  BY DEF EntryInv, SessionInv, OpenLabels, Labels
<1>7. CallInv'
  BY DEF CallInv, SessionInv, OpenLabels, Labels
<1> QED
  BY <1>1, <1>2, <1>3, <1>4, <1>5, <1>6, <1>7

LEMMA ReconcileStep == ASSUME Sound, NEW gone, Reconcile(gone) PROVE Sound'
<1> USE SentinelAssumption DEF Sound, TypeOK, Reconcile, Goto, Return, Fail, manager
<1>a. games' \in Images /\ (games' = games \/ count_games(games') < count_games(games))
  BY PrunedCount DEF StorageTypeOK
<1>1. StorageTypeOK'
  BY <1>a DEF StorageTypeOK
<1>2. ManagerTypeOK'
  BY DEF ManagerTypeOK
<1>3. CallTypeOK'
  BY EmptyTypes DEF CallTypeOK, Labels
<1>4. BudgetTypeOK'
  BY DEF BudgetTypeOK
<1>5. SessionInv'
  BY DEF SessionInv, OpenLabels, Labels
<1>6. EntryInv'
  BY DEF EntryInv
<1>7. CallInv'
  BY DEF CallInv, SessionInv, OpenLabels, Labels
<1> QED
  BY <1>1, <1>2, <1>3, <1>4, <1>5, <1>6, <1>7

LEMMA MarkStaleStep == ASSUME Sound, NEW o, MarkStale(o) PROVE Sound'
<1> USE SentinelAssumption DEF Sound, TypeOK, MarkStale, Goto, Return, write_manifest, Fail, was_published
<1>0. mem \in Manifests
  BY DEF ManagerTypeOK, SessionInv, OpenLabels, Labels
<1>a. {<<k, mem.entry[k].seq>> : k \in {j \in Kinds : mem.entry[j] # None}} \subseteq ArtifactNames
  BY <1>0, EntryNames
<1>1. StorageTypeOK'
  BY <1>0, InvalidatedType, EmptyTypes DEF StorageTypeOK, CallTypeOK
<1>2. ManagerTypeOK'
  BY <1>0, InvalidatedType, EmptyTypes DEF ManagerTypeOK, StorageTypeOK
<1>3. CallTypeOK'
  BY <1>a, EmptyTypes DEF CallTypeOK, Labels
<1>4. BudgetTypeOK'
  BY DEF BudgetTypeOK
<1>5. SessionInv'
  BY <1>0, InvalidatedType, EmptyTypes DEF SessionInv, OpenLabels, Labels, StorageTypeOK, ManagerTypeOK, CallTypeOK
<1>6. EntryInv'
  BY <1>0, InvalidatedType, EmptyTypes DEF EntryInv, SessionInv, OpenLabels, Labels, NoEntries, NoReaders
<1>7. CallInv'
  BY <1>0, InvalidatedType, EmptyTypes DEF CallInv, SessionInv, OpenLabels, Labels, NoEntries
<1> QED
  BY <1>1, <1>2, <1>3, <1>4, <1>5, <1>6, <1>7

LEMMA UnlinkStaleStep == ASSUME Sound, NEW n, UnlinkStale(n) PROVE Sound'
<1> USE SentinelAssumption DEF Sound, TypeOK, UnlinkStale, Unlink, Goto, Return, manager, Fail
<1>1. StorageTypeOK'
  BY EmptyTypes DEF StorageTypeOK, CallTypeOK
<1>2. ManagerTypeOK'
  BY EmptyTypes DEF ManagerTypeOK, StorageTypeOK
<1>3. CallTypeOK'
  BY EmptyTypes DEF CallTypeOK, Labels
<1>4. BudgetTypeOK'
  BY DEF BudgetTypeOK
<1>5. SessionInv'
  BY EmptyTypes DEF SessionInv, OpenLabels, Labels, StorageTypeOK, ManagerTypeOK, CallTypeOK
<1>6. EntryInv'
  BY EmptyTypes DEF EntryInv, SessionInv, OpenLabels, Labels, CallInv
<1>7. CallInv'
  BY EmptyTypes DEF CallInv, SessionInv, OpenLabels, Labels
<1> QED
  BY <1>1, <1>2, <1>3, <1>4, <1>5, <1>6, <1>7

LEMMA CommitStep == ASSUME Sound, NEW g \in Games, NEW v \in Versions \cup {Absent}, Commit([games EXCEPT ![g] = v]) PROVE Sound'
<1> USE SentinelAssumption DEF Sound, TypeOK, Commit, Return, call, manager, budget
<1>1. StorageTypeOK'
  BY EmptyTypes DEF StorageTypeOK, CallTypeOK, Images
<1>2. ManagerTypeOK'
  BY EmptyTypes DEF ManagerTypeOK, StorageTypeOK
<1>3. CallTypeOK'
  BY EmptyTypes DEF CallTypeOK, Labels
<1>4. BudgetTypeOK'
  BY DEF BudgetTypeOK
<1>5. SessionInv'
  BY EmptyTypes DEF SessionInv, OpenLabels, Labels, StorageTypeOK, ManagerTypeOK, CallTypeOK
<1>6. EntryInv'
  BY EmptyTypes DEF EntryInv, SessionInv, OpenLabels, Labels, CallInv, NoEntries, Kinds
<1>7. CallInv'
  BY EmptyTypes DEF CallInv, SessionInv, OpenLabels, Labels, NoEntries
<1> QED
  BY <1>1, <1>2, <1>3, <1>4, <1>5, <1>6, <1>7

LEMMA EndImportStep == ASSUME Sound, EndImport PROVE Sound'
<1> USE SentinelAssumption DEF Sound, TypeOK, EndImport, Goto, Return, storage, manager, budget
<1>1. StorageTypeOK'
  BY EmptyTypes DEF StorageTypeOK, CallTypeOK
<1>2. ManagerTypeOK'
  BY EmptyTypes DEF ManagerTypeOK, StorageTypeOK
<1>3. CallTypeOK'
  BY EmptyTypes DEF CallTypeOK, Labels
<1>4. BudgetTypeOK'
  BY DEF BudgetTypeOK
<1>5. SessionInv'
  BY EmptyTypes DEF SessionInv, OpenLabels, Labels, StorageTypeOK, ManagerTypeOK, CallTypeOK
<1>6. EntryInv'
  BY EmptyTypes DEF EntryInv, SessionInv, OpenLabels, Labels
<1>7. CallInv'
  BY EmptyTypes DEF CallInv, SessionInv, OpenLabels, Labels
<1> QED
  BY <1>1, <1>2, <1>3, <1>4, <1>5, <1>6, <1>7

LEMMA BeginRebuildStep == ASSUME Sound, NEW k \in Kinds, BeginRebuild(k) PROVE Sound'
<1> USE SentinelAssumption DEF Sound, TypeOK, BeginRebuild, Goto, storage, manager
<1>1. StorageTypeOK'
  BY DEF StorageTypeOK, CallTypeOK
<1>2. ManagerTypeOK'
  BY DEF ManagerTypeOK, StorageTypeOK
<1>3. CallTypeOK'
  BY DEF CallTypeOK, Labels
<1>4. BudgetTypeOK'
  BY DEF BudgetTypeOK
<1>5. SessionInv'
  BY DEF SessionInv, OpenLabels, Labels, StorageTypeOK, ManagerTypeOK, CallTypeOK
<1>6. EntryInv'
  BY DEF EntryInv, SessionInv, OpenLabels, Labels
<1>7. CallInv'
  BY DEF CallInv, SessionInv, OpenLabels, Labels
<1> QED
  BY <1>1, <1>2, <1>3, <1>4, <1>5, <1>6, <1>7

LEMMA BuildStep == ASSUME Sound, BuildStaged PROVE Sound'
<1> USE SentinelAssumption DEF Sound, TypeOK, BuildStaged, Goto, RebuildFailed, Return, manager, Fail, NewName
<1>0. mem \in Manifests
  BY DEF ManagerTypeOK, SessionInv, OpenLabels, Labels
<1>1. StorageTypeOK'
  BY <1>0, EntryNames, EmptyTypes DEF StorageTypeOK, CallTypeOK
<1>2. ManagerTypeOK'
  BY <1>0, EntryNames, EmptyTypes DEF ManagerTypeOK, StorageTypeOK
<1>3. CallTypeOK'
  BY <1>0, EntryNames, EmptyTypes DEF CallTypeOK, Labels, StorageTypeOK
<1>4. BudgetTypeOK'
  BY DEF BudgetTypeOK
<1>5. SessionInv'
  BY <1>0, EntryNames, EmptyTypes DEF SessionInv, OpenLabels, Labels, StorageTypeOK, ManagerTypeOK, CallTypeOK
<1>6. EntryInv'
  BY <1>0, EntryNames, EmptyTypes DEF EntryInv, SessionInv, OpenLabels, Labels
<1>7. CallInv'
  BY <1>0, EntryNames, EmptyTypes DEF CallInv, SessionInv, OpenLabels, Labels
<1> QED
  BY <1>1, <1>2, <1>3, <1>4, <1>5, <1>6, <1>7

LEMMA RenameStep == ASSUME Sound, RenameStaged PROVE Sound'
<1> USE SentinelAssumption DEF Sound, TypeOK, RenameStaged, Goto, RebuildFailed, Return, manager, Fail, NewName
<1>0. mem \in Manifests
  BY DEF ManagerTypeOK, SessionInv, OpenLabels, Labels
<1>1. StorageTypeOK'
  BY <1>0, EntryNames, EmptyTypes DEF StorageTypeOK, CallTypeOK, CallInv
<1>2. ManagerTypeOK'
  BY <1>0, EntryNames, EmptyTypes DEF ManagerTypeOK, StorageTypeOK
<1>3. CallTypeOK'
  BY <1>0, EntryNames, EmptyTypes DEF CallTypeOK, Labels
<1>4. BudgetTypeOK'
  BY DEF BudgetTypeOK
<1>5. SessionInv'
  BY <1>0, EntryNames, EmptyTypes DEF SessionInv, OpenLabels, Labels, StorageTypeOK, ManagerTypeOK, CallTypeOK
<1>6. EntryInv'
  BY <1>0, EntryNames, EmptyTypes DEF EntryInv, SessionInv, OpenLabels, Labels
<1>7. CallInv'
  BY <1>0, EntryNames, EmptyTypes DEF CallInv, SessionInv, OpenLabels, Labels, StorageTypeOK, CallTypeOK
<1> QED
  BY <1>1, <1>2, <1>3, <1>4, <1>5, <1>6, <1>7

LEMMA PublishStep == ASSUME Sound, NEW o, Publish(o) PROVE Sound'
<1> USE SentinelAssumption DEF Sound, TypeOK, Publish, Goto, RebuildFailed, Return, NewName, write_manifest, Fail, was_published
<1>0. mem \in Manifests
  BY DEF ManagerTypeOK, SessionInv, OpenLabels, Labels
<1> DEFINE e == [seq |-> mem.seq, gen |-> mem.gen, image |-> games]
<1> DEFINE c == WithEntry(mem, kind, e)
<1>a. /\ mem.seq < MaxSeq /\ files[<<kind, mem.seq>>] = games /\ kind \in Kinds
      /\ games \in Images /\ e \in Entries
  BY <1>0 DEF CallInv, StorageTypeOK, CallTypeOK, Manifests, Entries, NewName
<1>b. /\ c \in Manifests /\ c # None /\ c.gen = mem.gen /\ c.seq = mem.seq + 1
      /\ c.entry = [mem.entry EXCEPT ![kind] = e]
  BY <1>0, <1>a, WithEntryType
<1>c. /\ disk' = IF o = "not_published" THEN disk ELSE c
      /\ mem' = IF o = "not_published" THEN mem ELSE c
      /\ reader' = IF o = "not_published" THEN reader ELSE [reader EXCEPT ![kind] = games]
  BY <1>a
<1>d. <<kind, mem.seq>> \in ArtifactNames
  BY <1>0, <1>a, EntryNames
<1>e. mem.entry[kind] # None => <<kind, mem.entry[kind].seq>> \in ArtifactNames
  BY <1>0, <1>a, EntryNames
<1> HIDE DEF c
<1>1. StorageTypeOK'
  BY <1>0, <1>a, <1>b, <1>c, <1>d DEF StorageTypeOK, CallTypeOK
<1>2. ManagerTypeOK'
  BY <1>0, <1>a, <1>b, <1>c, <1>d DEF ManagerTypeOK, StorageTypeOK
<1>3. CallTypeOK'
  BY <1>a, <1>d, <1>e, EmptyTypes DEF CallTypeOK, Labels
<1>4. BudgetTypeOK'
  BY DEF BudgetTypeOK
<1>5. SessionInv'
  BY <1>0, <1>a, <1>b, <1>c, <1>d DEF SessionInv, OpenLabels, Labels, StorageTypeOK, ManagerTypeOK, CallTypeOK
<1>6. EntryInv'
  <2>1. CASE o = "not_published"
    BY <2>1, <1>c DEF EntryInv
  <2>2. CASE o # "not_published"
    <3>1. /\ disk # None /\ mem.entry = disk.entry /\ mem.gen = disk.gen /\ mem.seq = disk.seq
      BY <1>0 DEF SessionInv
    <3>2. disk' = c /\ mem' = c /\ reader' = [reader EXCEPT ![kind] = games] /\ games' = games
      BY <1>c, <2>2
    <3>3. mem.entry \in [Kinds -> Entries \cup {None}] /\ mem.seq \in Nat /\ reader \in [Kinds -> Images \cup {None}]
      BY <1>0, MaxSeqNat DEF Manifests, ManagerTypeOK
    <3>4. ASSUME NEW k \in Kinds, c.entry[k] # None
          PROVE  c.entry[k].gen = c.gen /\ c.entry[k].seq < c.seq
      <4>1. CASE k = kind
        BY <4>1, <1>a, <1>b, <3>3
      <4>2. CASE k # kind
        <5>1. c.entry[k] = disk.entry[k] /\ disk.entry[k] \in Entries
          BY <4>2, <1>b, <3>1, <3>3, <3>4
        <5>2. disk.entry[k].gen = disk.gen /\ disk.entry[k].seq < disk.seq
          BY <5>1, <3>1, <3>4 DEF EntryInv
        <5>3. disk.entry[k].seq \in Nat /\ disk.seq \in Nat
          BY <5>1, <3>1, <3>3, MaxSeqNat DEF Entries
        <5> QED
          BY <5>1, <5>2, <5>3, <1>b, <3>1
      <4> QED
        BY <4>1, <4>2
    <3>5. ASSUME NEW k \in Kinds, reader'[k] # None
          PROVE  c.entry[k] # None /\ reader'[k] = c.entry[k].image
      BY <3>2, <3>3, <3>5, <1>a, <1>b DEF EntryInv
    <3> QED
      BY <3>2, <3>4, <3>5, <1>b DEF EntryInv
  <2> QED
    BY <2>1, <2>2
<1>7. CallInv'
  BY <1>0, <1>a, <1>b, <1>c, <1>d DEF CallInv, SessionInv, OpenLabels, Labels, EntryInv, Manifests
<1> QED
  BY <1>1, <1>2, <1>3, <1>4, <1>5, <1>6, <1>7

LEMMA UnlinkPreviousStep == ASSUME Sound, NEW n, UnlinkPrevious(n) PROVE Sound'
<1> USE SentinelAssumption DEF Sound, TypeOK, UnlinkPrevious, Unlink, Goto, RebuildSucceeded, Return, manager, Fail
<1>1. StorageTypeOK'
  BY EmptyTypes DEF StorageTypeOK, CallTypeOK
<1>2. ManagerTypeOK'
  BY EmptyTypes DEF ManagerTypeOK, StorageTypeOK
<1>3. CallTypeOK'
  BY EmptyTypes DEF CallTypeOK, Labels
<1>4. BudgetTypeOK'
  BY DEF BudgetTypeOK
<1>5. SessionInv'
  BY EmptyTypes DEF SessionInv, OpenLabels, Labels, StorageTypeOK, ManagerTypeOK, CallTypeOK
<1>6. EntryInv'
  BY EmptyTypes DEF EntryInv, SessionInv, OpenLabels, Labels
<1>7. CallInv'
  BY EmptyTypes DEF CallInv, SessionInv, OpenLabels, Labels
<1> QED
  BY <1>1, <1>2, <1>3, <1>4, <1>5, <1>6, <1>7

LEMMA CrashStep == ASSUME Sound, Crash PROVE Sound'
<1> USE SentinelAssumption DEF Sound, TypeOK, Crash, Gone, storage
<1>1. StorageTypeOK'
  BY EmptyTypes DEF StorageTypeOK, CallTypeOK
<1>2. ManagerTypeOK'
  BY EmptyTypes DEF ManagerTypeOK, StorageTypeOK
<1>3. CallTypeOK'
  BY EmptyTypes DEF CallTypeOK, Labels
<1>4. BudgetTypeOK'
  BY DEF BudgetTypeOK
<1>5. SessionInv'
  BY EmptyTypes DEF SessionInv, OpenLabels, Labels, StorageTypeOK, ManagerTypeOK, CallTypeOK
<1>6. EntryInv'
  BY EmptyTypes DEF EntryInv, SessionInv, OpenLabels, Labels, NoReaders
<1>7. CallInv'
  BY EmptyTypes DEF CallInv, SessionInv, OpenLabels, Labels
<1> QED
  BY <1>1, <1>2, <1>3, <1>4, <1>5, <1>6, <1>7

LEMMA DamageStep == ASSUME Sound, NEW n \in ArtifactNames, Damage(n) PROVE Sound'
<1> USE SentinelAssumption DEF Sound, TypeOK, Damage, Fail, manager, call
<1>1. StorageTypeOK'
  BY DEF StorageTypeOK, CallTypeOK
<1>2. ManagerTypeOK'
  BY DEF ManagerTypeOK, StorageTypeOK
<1>3. CallTypeOK'
  BY DEF CallTypeOK, Labels
<1>4. BudgetTypeOK'
  BY DEF BudgetTypeOK
<1>5. SessionInv'
  BY DEF SessionInv, OpenLabels, Labels, StorageTypeOK, ManagerTypeOK, CallTypeOK
<1>6. EntryInv'
  BY DEF EntryInv, SessionInv, OpenLabels, Labels
<1>7. CallInv'
  BY DEF CallInv, SessionInv, OpenLabels, Labels
<1> QED
  BY <1>1, <1>2, <1>3, <1>4, <1>5, <1>6, <1>7

LEMMA StutterStep == Sound /\ UNCHANGED vars => Sound'
<1> SUFFICES ASSUME Sound, UNCHANGED vars PROVE Sound'
  OBVIOUS
<1> USE DEF Sound, vars, storage, manager, call, budget
<1>1. TypeOK'
  BY DEF TypeOK, StorageTypeOK, ManagerTypeOK, CallTypeOK, BudgetTypeOK
<1>2. SessionInv' /\ EntryInv' /\ CallInv'
  BY DEF SessionInv, EntryInv, CallInv, NewName
<1> QED
  BY <1>1, <1>2

LEMMA SoundStep == Sound /\ [Next]_vars => Sound'
<1> SUFFICES ASSUME Sound, [Next]_vars PROVE Sound'
  OBVIOUS
<1>1. CASE User
  BY <1>1, CreateSchemaStep, DiscardStep, BeginMutationStep, ReconcileStep, BeginRebuildStep DEF User
<1>2. CASE Step
  BY <1>2, CreateManifestStep, MarkInUseStep, MarkStaleStep, PublishStep, RemoveManifestStep,
     RemoveDbStep, RemoveArtifactsStep, UnlinkStaleStep, UnlinkPreviousStep, CommitStep,
     EndImportStep, BuildStep, RenameStep DEF Step
<1>3. CASE Open \/ Close
  BY <1>3, OpenStep, CloseStep DEF Open, Close
<1>4. CASE Environment
  BY <1>4, CrashStep, DamageStep DEF Environment
<1>5. CASE UNCHANGED vars
  BY <1>5, StutterStep
<1> QED
  BY <1>1, <1>2, <1>3, <1>4, <1>5 DEF Next

(* What a step does to the images manifest.json names and to the rows. *)

LEMMA EntriesChange ==
  ASSUME Sound, [Next]_vars
  PROVE  \/ disk' = None
         \/ disk' # None /\ disk'.entry = NoEntries
         \/ disk # None /\ disk' # None /\ disk'.entry = disk.entry /\ games' = games
         \/ /\ disk' = disk
            /\ games' = EmptyStore \/ count_games(games') < count_games(games)
         \/ /\ disk # None /\ disk' # None /\ games' = games /\ kind \in Kinds
            /\ \E e \in Entries : e.image = games /\ disk'.entry = [disk.entry EXCEPT ![kind] = e]
<1>1. CASE \E gone \in SUBSET Games : Reconcile(gone)
  <2>1. PICK gone \in SUBSET Games : Reconcile(gone)
    BY <1>1
  <2>2. games' = games \/ count_games(games') < count_games(games)
    BY <2>1, PrunedCount DEF Reconcile, Sound, TypeOK, StorageTypeOK
  <2> QED
    BY <2>1, <2>2 DEF Reconcile
<1>2. CASE \E g \in Games, v \in Versions \cup {Absent} : Commit([games EXCEPT ![g] = v])
  <2>1. pc = "mutate" /\ disk' = disk
    BY <1>2 DEF Commit
  <2> QED
    BY <2>1 DEF Sound, SessionInv, CallInv, OpenLabels, Labels
<1>3. CASE CreateSchema \/ RemoveDb
  BY <1>3 DEF CreateSchema, RemoveDb
<1>4. CASE \E o \in WriteOutcomes : CreateManifest(o)
  BY <1>4, MakeManifestType DEF CreateManifest, write_manifest
<1>5. CASE \E o \in WriteOutcomes : MarkInUse(o) \/ CloseManager(o)
  <2>1. mem \in Manifests /\ disk # None /\ mem.entry = disk.entry
    BY <1>5 DEF MarkInUse, CloseManager, Sound, TypeOK, ManagerTypeOK, SessionInv, OpenLabels, Labels
  <2>2. mem # None
    BY <2>1, SentinelAssumption
  <2>3. \A b \in BOOLEAN : InUse(mem, b) # None /\ InUse(mem, b).entry = mem.entry
    BY <2>1, InUseType
  <2> QED
    BY <1>5, <2>1, <2>2, <2>3 DEF MarkInUse, CloseManager, write_manifest
<1>6. CASE \E o \in WriteOutcomes : MarkStale(o)
  <2>1. mem \in Manifests /\ disk # None
    BY <1>6 DEF MarkStale, Sound, TypeOK, ManagerTypeOK, SessionInv, OpenLabels, Labels
  <2>2. Invalidated(mem) # None /\ Invalidated(mem).entry = NoEntries
    BY <2>1, InvalidatedType
  <2> QED
    BY <1>6, <2>1, <2>2 DEF MarkStale, write_manifest
<1>7. CASE \E o \in WriteOutcomes : Publish(o)
  <2>1. /\ mem \in Manifests /\ disk # None /\ mem.entry = disk.entry /\ kind \in Kinds
        /\ mem.seq < MaxSeq /\ files[<<kind, mem.seq>>] = games /\ games \in Images
    BY <1>7 DEF Publish, Sound, TypeOK, StorageTypeOK, ManagerTypeOK, CallTypeOK, SessionInv, CallInv,
       OpenLabels, Labels, NewName
  <2> DEFINE e == [seq |-> mem.seq, gen |-> mem.gen, image |-> games]
  <2>2. e \in Entries /\ e.image = games
    BY <2>1 DEF Manifests, Entries
  <2>3. WithEntry(mem, kind, e) # None /\ WithEntry(mem, kind, e).entry = [mem.entry EXCEPT ![kind] = e]
    BY <2>1, <2>2, WithEntryType
  <2>4. games' = games /\ (disk' = disk \/ disk' = WithEntry(mem, kind, e))
    BY <1>7, <2>1 DEF Publish, write_manifest, NewName
  <2> QED
    BY <2>1, <2>2, <2>3, <2>4
<1>8. CASE RemoveManifest
  BY <1>8 DEF RemoveManifest
<1>9. CASE UNCHANGED <<disk, games>>
  BY <1>9
<1> QED
  BY <1>1, <1>2, <1>3, <1>4, <1>5, <1>6, <1>7, <1>8, <1>9 DEF Next, User, Step, Open, Close, Environment,
     DiscardCreatedBundle, BeginMutation, BeginRebuild, RemoveArtifacts, UnlinkStale, UnlinkPrevious,
     EndImport, BuildStaged, RenameStaged, OpenBundle, Crash, Damage, storage, vars

\* Fewer rows, or none, are described by what described them all.
LEMMA FewerDescribed ==
  ASSUME NEW m \in Manifests \cup {None}, NEW rows, NEW rest, Describes(m, rows),
         rest = EmptyStore \/ count_games(rest) < count_games(rows)
  PROVE  Describes(m, rest)
<1> SUFFICES ASSUME m # None, NEW k \in Kinds, m.entry[k] # None
             PROVE  m.entry[k].image = rest \/ count_games(rest) < count_games(m.entry[k].image)
  BY DEF Describes
<1>1. m.entry[k].image \in Images
  BY EntryNames DEF Entries
<1>2. CASE rest = EmptyStore
  BY <1>1, <1>2, EmptyCount
<1>3. CASE count_games(rest) < count_games(rows)
  BY <1>3, CountNat DEF Describes
<1> QED
  BY <1>2, <1>3

LEMMA DescribesStep == Sound /\ [Next]_vars /\ Describes(disk, games) => Describes(disk, games)'
<1> SUFFICES ASSUME Sound, [Next]_vars, Describes(disk, games) PROVE Describes(disk', games')
  BY DEF Describes
<1>0. disk \in Manifests \cup {None} /\ disk' \in Manifests \cup {None}
  BY SoundStep DEF Sound, TypeOK, StorageTypeOK
<1>1. CASE disk' = None
  BY <1>1 DEF Describes
<1>2. CASE disk' # None /\ disk'.entry = NoEntries
  BY <1>2 DEF Describes, NoEntries
<1>3. CASE disk # None /\ disk' # None /\ disk'.entry = disk.entry /\ games' = games
  BY <1>3 DEF Describes
<1>4. CASE disk' = disk /\ (games' = EmptyStore \/ count_games(games') < count_games(games))
  BY <1>0, <1>4, FewerDescribed
<1>5. CASE /\ disk # None /\ disk' # None /\ games' = games /\ kind \in Kinds
           /\ \E e \in Entries : e.image = games /\ disk'.entry = [disk.entry EXCEPT ![kind] = e]
  <2>1. PICK e \in Entries : e.image = games /\ disk'.entry = [disk.entry EXCEPT ![kind] = e]
    BY <1>5
  <2>2. disk.entry \in [Kinds -> Entries \cup {None}]
    BY <1>0, <1>5 DEF Manifests
  <2> SUFFICES ASSUME NEW k \in Kinds, disk'.entry[k] # None
               PROVE  disk'.entry[k].image = games \/ count_games(games) < count_games(disk'.entry[k].image)
    BY <1>5 DEF Describes
  <2>3. CASE k = kind
    BY <2>1, <2>2, <2>3
  <2>4. CASE k # kind
    BY <1>5, <2>1, <2>2, <2>4 DEF Describes
  <2> QED
    BY <2>3, <2>4
<1> QED
  BY <1>1, <1>2, <1>3, <1>4, <1>5, EntriesChange

LEMMA ConsistentInit == Init => Consistent
BY SoundInit DEF Init, Consistent, Describes

LEMMA ConsistentStep == Consistent /\ [Next]_vars => Consistent'
BY SoundStep, DescribesStep DEF Consistent

(* The inductive invariant: memory, manifest, artifacts and canonical rows     *)
(* stay consistent across every failed or interrupted effect of any operation. *)
THEOREM Consistency == Spec => []Consistent
BY ConsistentInit, ConsistentStep, PTL DEF Spec

(* Every variable keeps its type, whatever effects fail. *)
THEOREM TypeCorrect == Spec => []TypeOK
<1>1. Consistent => TypeOK
  BY DEF Consistent, Sound
<1> QED
  BY <1>1, Consistency, PTL

-----------------------------------------------------------------------------
LEMMA ConsistentIsExact == Consistent => AnswersAreExact
<1> SUFFICES ASSUME Consistent, NEW k \in Kinds, Answering(k)
             PROVE  reader[k] = games
  BY DEF AnswersAreExact
<1>1. /\ reader[k] # None /\ count_games(games) = count_games(reader[k])
  BY DEF Answering, postings_cover_canonical_games, tree_covers_canonical_games, Covers, Kinds
<1>2. /\ disk # None /\ disk.entry[k] # None /\ reader[k] = disk.entry[k].image
  BY <1>1 DEF Consistent, Sound, SessionInv, EntryInv
<1>3. reader[k] = games \/ count_games(games) < count_games(reader[k])
  BY <1>2 DEF Consistent, Describes
<1> QED
  BY <1>1, <1>3, CountNat

(* A query answered from an index is answered about the current canonical      *)
(* games: the generation-and-count rule of postings_cover_canonical_games() and *)
(* of query_unfiltered_opening_stats() suffices, for any number of games,       *)
(* failures and crashes.                                                        *)
THEOREM Exactness == Spec => []AnswersAreExact
BY Consistency, ConsistentIsExact, PTL

-----------------------------------------------------------------------------
LEMMA GamesChange ==
  ASSUME Consistent, [Next]_vars
  PROVE  \/ UNCHANGED games
         \/ /\ mem # None /\ mem' = mem /\ db /\ db' /\ mem.entry = NoEntries
            /\ \E g \in Games, v \in Versions \cup {Absent} : games' = [games EXCEPT ![g] = v]
         \/ /\ count_games(games') < count_games(games)
            /\ \E gone \in SUBSET Games :
                 games' = [g \in Games |-> IF g \in gone THEN Absent ELSE games[g]]
            /\ mem # None /\ mem' = mem /\ reader' = reader
         \/ /\ mem = None /\ mem' = None /\ games' = EmptyStore /\ (~db \/ ~db')
<1>0. CASE \E gone \in SUBSET Games : Reconcile(gone)
  <2>1. PICK gone \in SUBSET Games : Reconcile(gone)
    BY <1>0
  <2>2. games' = games \/ count_games(games') < count_games(games)
    BY <2>1, PrunedCount DEF Reconcile, Consistent, Sound, TypeOK, StorageTypeOK
  <2>3. mem # None /\ mem' = mem /\ reader' = reader
    BY <2>1 DEF Reconcile, manager, Consistent, Sound, SessionInv, OpenLabels, Labels
  <2> QED
    BY <2>1, <2>2, <2>3 DEF Reconcile
<1>1. CASE User /\ ~\E gone \in SUBSET Games : Reconcile(gone)
  BY <1>1 DEF User, CreateSchema, DiscardCreatedBundle, BeginMutation, BeginRebuild, storage,
     manager, Consistent, Sound, SessionInv, OpenLabels
<1>2. CASE \E g \in Games, v \in Versions \cup {Absent} : Commit([games EXCEPT ![g] = v])
  <2>1. pc = "mutate" /\ mem' = mem /\ db' = db
    BY <1>2 DEF Commit, manager
  <2>2. mem # None /\ mem.entry = NoEntries /\ db
    BY <2>1 DEF Consistent, Sound, SessionInv, CallInv, OpenLabels, Labels
  <2>3. \E g \in Games, v \in Versions \cup {Absent} : games' = [games EXCEPT ![g] = v]
    BY <1>2 DEF Commit
  <2> QED
    BY <2>1, <2>2, <2>3
<1>3. CASE RemoveDb
  BY <1>3 DEF RemoveDb, manager, Consistent, Sound, SessionInv, OpenLabels
<1>4. CASE Step /\ ~RemoveDb
           /\ ~\E g \in Games, v \in Versions \cup {Absent} : Commit([games EXCEPT ![g] = v])
  BY <1>4 DEF Step, CreateManifest, MarkInUse, MarkStale, Publish, RemoveManifest, RemoveArtifacts,
     UnlinkStale, UnlinkPrevious, EndImport, BuildStaged, RenameStaged, storage
<1>5. CASE Open \/ Close
  BY <1>5 DEF Open, Close, OpenBundle, CloseManager, storage
<1>6. CASE Environment
  BY <1>6 DEF Environment, Crash, Damage, storage
<1>7. CASE UNCHANGED vars
  BY <1>7 DEF vars, storage
<1> QED
  BY <1>0, <1>1, <1>2, <1>3, <1>4, <1>5, <1>6, <1>7 DEF Next

(* No canonical row is added or changed while manifest.json still names an      *)
(* index, and a row removed then makes the game count differ.                   *)
THEOREM InvalidationFirst == Spec => MutationsFollowInvalidation
<1>1. Consistent /\ [Next]_vars
        => [games' # games /\ db /\ db' =>
              disk.entry = NoEntries \/ count_games(games') < count_games(games)]_vars
  BY GamesChange DEF Consistent, Sound, SessionInv
<1> QED
  BY <1>1, Consistency, PTL DEF Spec, MutationsFollowInvalidation

-----------------------------------------------------------------------------
(* Only the artifacts actions name themselves change: a build's new name, which *)
(* no entry can have, and the doomed ones, which no entry has any more.         *)
LEMMA ArtifactsKept ==
  ASSUME Consistent, [Next]_vars, NEW k \in Kinds, disk # None, disk.entry[k] # None,
         pc \notin {"closed", "remove_artifacts"}
  PROVE  files'[<<k, disk.entry[k].seq>>] = files[<<k, disk.entry[k].seq>>]
<1> DEFINE n == <<k, disk.entry[k].seq>>
<1>1. n \in ArtifactNames /\ disk.entry[k].seq < disk.seq /\ n \notin doomed
      /\ files \in [ArtifactNames -> Images \cup {None, Corrupt}]
      /\ disk.entry[k].seq \in Int /\ disk.seq \in Int
  <2>1. disk \in Manifests /\ files \in [ArtifactNames -> Images \cup {None, Corrupt}]
    BY DEF Consistent, Sound, TypeOK, StorageTypeOK
  <2>2. disk.entry[k] \in Entries /\ n \in ArtifactNames
    BY <2>1, EntryNames
  <2>3. disk.entry[k].seq \in Int /\ disk.seq \in Int
    BY <2>1, <2>2, MaxSeqNat DEF Manifests, Entries
  <2> QED
    BY <2>1, <2>2, <2>3 DEF Consistent, Sound, EntryInv, CallInv
<1>2. pc \in {"build", "staged", "publish"} => NewName # n
  BY <1>1 DEF Consistent, Sound, SessionInv, OpenLabels, Labels, NewName
<1> HIDE DEF n
<1>3. CASE BuildStaged \/ RenameStaged \/ \E o \in WriteOutcomes : Publish(o)
  BY <1>1, <1>2, <1>3 DEF BuildStaged, RenameStaged, Publish, n
<1>4. CASE \E names \in SUBSET doomed : UnlinkStale(names) \/ UnlinkPrevious(names)
  BY <1>1, <1>4 DEF UnlinkStale, UnlinkPrevious, Unlink, n
<1>5. CASE UNCHANGED files
  BY <1>5
<1>6. CASE User \/ Open \/ Close \/ Environment
  BY <1>6 DEF User, Open, Close, Environment, CreateSchema, DiscardCreatedBundle, BeginMutation,
     Reconcile, BeginRebuild, OpenBundle, CloseManager, Crash, Damage, storage
<1>7. CASE Step
  BY <1>3, <1>4, <1>5, <1>7 DEF Step, CreateManifest, MarkInUse, MarkStale, RemoveManifest,
     RemoveDb, RemoveArtifacts, Commit, EndImport, storage
<1> QED
  BY <1>5, <1>6, <1>7 DEF Next, vars, storage

(* The artifact a standing manifest entry refers to is never touched by any     *)
(* operation, including a rebuild that reuses the number of a failed one.       *)
THEOREM ArtifactsStay == Spec => PublishedArtifactsStay
<1>1. Consistent /\ [Next]_vars
        => [\A k \in Kinds :
              /\ disk # None /\ disk.entry[k] # None
              /\ disk' # None /\ disk'.entry[k] = disk.entry[k]
              /\ pc \notin {"closed", "remove_artifacts"}
              => LET n == <<k, disk.entry[k].seq>>
                 IN files[n] = disk.entry[k].image => files'[n] = files[n]]_vars
  BY ArtifactsKept
<1> QED
  BY <1>1, Consistency, PTL DEF Spec, PublishedArtifactsStay

-----------------------------------------------------------------------------
(* What a session answers from changes only in open(), close(), an              *)
(* invalidation, the in-use mark and a publication.                             *)
LEMMA SessionChange ==
  ASSUME Consistent, [Next]_vars, mem # None, mem' # None, pc # "stale"
  PROVE  \/ UNCHANGED <<mem, reader>>
         \/ mem' = InUse(mem, TRUE) /\ UNCHANGED reader
         \/ \E o \in WriteOutcomes : Publish(o)
<1>1. pc \in OpenLabels
  BY DEF Consistent, Sound, SessionInv
<1>2. CASE User
  BY <1>2 DEF User, CreateSchema, DiscardCreatedBundle, BeginMutation, Reconcile, BeginRebuild, manager
<1>3. CASE Step
  BY <1>1, <1>3 DEF Step, CreateManifest, MarkInUse, MarkStale, RemoveManifest, RemoveDb,
     RemoveArtifacts, Gone, UnlinkStale, UnlinkPrevious, Commit, EndImport, BuildStaged,
     RenameStaged, manager, OpenLabels, Labels
<1>4. CASE Open \/ Close
  BY <1>1, <1>4 DEF Open, Close, OpenBundle, CloseManager, Gone, OpenLabels, Labels
<1>5. CASE Environment
  BY <1>5 DEF Environment, Crash, Damage, Gone, manager
<1>6. CASE UNCHANGED vars
  BY <1>6 DEF vars, manager
<1> QED
  BY <1>2, <1>3, <1>4, <1>5, <1>6 DEF Next

(* A publication installs a reader of the canonical games, or none.            *)
LEMMA PublishCovers ==
  ASSUME Consistent, NEW o \in WriteOutcomes, Publish(o), Covers(mem, reader)
  PROVE  Covers(mem', reader')
<1> DEFINE e == [seq |-> mem.seq, gen |-> mem.gen, image |-> files[NewName]]
<1>1. pc = "publish" /\ games' = games
  BY DEF Publish
<1>2. /\ mem # None /\ mem \in Manifests /\ mem.seq < MaxSeq /\ files[NewName] = games
      /\ games \in Images /\ kind \in Kinds /\ reader \in [Kinds -> Images \cup {None}]
      /\ mem.gen \in Nat /\ mem.seq \in 0..MaxSeq
  BY <1>1 DEF Consistent, Sound, TypeOK, StorageTypeOK, ManagerTypeOK, CallTypeOK, SessionInv, CallInv,
     OpenLabels, Labels, Manifests
<1>3. CASE mem' = WithEntry(mem, kind, e) /\ reader' = [reader EXCEPT ![kind] = files[NewName]]
  <2>1. e \in Entries /\ e.gen = mem.gen
    BY <1>2 DEF Entries
  <2> HIDE DEF e
  <2>2. /\ mem' # None /\ mem'.gen = mem.gen /\ mem'.entry = [mem.entry EXCEPT ![kind] = e]
    BY <1>2, <1>3, <2>1, WithEntryType
  <2>3. e # None /\ games # None
    BY <1>2, <2>1, SentinelAssumption
  <2>4. mem.entry \in [Kinds -> Entries \cup {None}]
    BY <1>2 DEF Manifests
  <2>5. CASE kind = "postings"
    <3>1. mem'.entry["postings"] = e /\ reader'["postings"] = games
      BY <1>2, <1>3, <2>2, <2>4, <2>5
    <3> QED
      BY <1>1, <2>1, <2>2, <2>3, <3>1 DEF Covers
  <2>6. CASE kind # "postings"
    <3>1. mem'.entry["postings"] = mem.entry["postings"] /\ reader'["postings"] = reader["postings"]
      BY <1>2, <1>3, <2>2, <2>4, <2>6, EmptyTypes
    <3> QED
      BY <1>1, <2>2, <3>1 DEF Covers
  <2> QED
    BY <2>5, <2>6
<1>4. CASE UNCHANGED <<mem, reader>>
  BY <1>1, <1>4 DEF Covers
<1> QED
  BY <1>3, <1>4 DEF Publish

(* A rebuild that fails at any of its effects leaves the generation it meant to *)
(* replace in service; only an invalidation or the end of the session stops it. *)
THEOREM ServiceKept == Spec => RebuildKeepsService
<1>1. Consistent /\ [Next]_vars
        => [postings_cover_canonical_games /\ mem' # None /\ pc # "stale" /\ games' = games
              => postings_cover_canonical_games']_vars
  <2> SUFFICES ASSUME Consistent, [Next]_vars, Covers(mem, reader), mem' # None, pc # "stale",
                      games' = games
               PROVE  postings_cover_canonical_games'
    BY DEF postings_cover_canonical_games
  <2>1. mem # None
    BY DEF Covers
  <2>2. CASE UNCHANGED <<mem, reader>>
    BY <2>2 DEF postings_cover_canonical_games, Covers
  <2>3. CASE mem' = InUse(mem, TRUE) /\ UNCHANGED reader
    <3>1. mem \in Manifests
      BY <2>1 DEF Consistent, Sound, TypeOK, ManagerTypeOK
    <3>2. mem'.gen = mem.gen /\ mem'.entry = mem.entry
      BY <2>3, <3>1, InUseType
    <3> QED
      BY <2>3, <3>2 DEF postings_cover_canonical_games, Covers
  <2>4. CASE \E o \in WriteOutcomes : Publish(o)
    BY <2>4, PublishCovers DEF postings_cover_canonical_games, Covers
  <2> QED
    BY <2>1, <2>2, <2>3, <2>4, SessionChange
<1> QED
  BY <1>1, Consistency, PTL DEF Spec, RebuildKeepsService

-----------------------------------------------------------------------------
(* The bundle refines the abstract promise.                                    *)
THEOREM Refinement == Spec => FailsClosed
<1>1. Init => Promise!Init
  BY DEF Init, Promise!Init, Promise!Unavailable, served, Answering, NoReaders, EmptyStore,
     postings_cover_canonical_games, tree_covers_canonical_games, Covers
<1>2. Consistent' => AnswersAreExact'
  BY ConsistentIsExact, PTL
<1>3. Consistent /\ Consistent' /\ [Next]_vars => [Promise!Next]_<<games, served>>
  <2> SUFFICES ASSUME Consistent, Consistent', [Next]_vars
               PROVE  Promise!Next \/ UNCHANGED <<games, served>>
    OBVIOUS
  <2>1. AnswersAreExact'
    BY <1>2
  <2>2. CASE UNCHANGED games
    <3> DEFINE available == {k \in Kinds : Answering(k)'}
    <3>1. served' = [k \in Kinds |-> IF k \in available THEN games ELSE None]
      BY <2>1, <2>2 DEF served, AnswersAreExact
    <3>2. Promise!Switch(available)
      BY <3>1, <2>2 DEF Promise!Switch
    <3> QED
      BY <3>2 DEF Promise!Next
  <2>3. ASSUME mem # None, mem' = mem, mem.entry = NoEntries,
               NEW g \in Games, NEW v \in Versions \cup {Absent}, games' = [games EXCEPT ![g] = v]
        PROVE  Promise!Next
    <3>1. served = Promise!Unavailable /\ served' = Promise!Unavailable
      BY <2>3 DEF served, Promise!Unavailable, Answering, postings_cover_canonical_games,
         tree_covers_canonical_games, Covers, NoEntries, Kinds
    <3> QED
      BY <3>1, <2>3 DEF Promise!Next, Promise!Mutate
  <2>4. ASSUME count_games(games') < count_games(games), mem # None, mem' = mem, reader' = reader,
               NEW gone \in SUBSET Games,
               games' = [g \in Games |-> IF g \in gone THEN Absent ELSE games[g]]
        PROVE  Promise!Next
    <3>1. ASSUME NEW k \in Kinds, reader[k] # None
          PROVE  count_games(games') # count_games(reader[k])
      <4>1. disk # None /\ disk.entry[k] # None /\ reader[k] = disk.entry[k].image
        BY <3>1, <2>4 DEF Consistent, Sound, SessionInv, EntryInv
      <4>2. reader[k] = games \/ count_games(games) < count_games(reader[k])
        BY <4>1 DEF Consistent, Describes
      <4> QED
        BY <4>2, <2>4, CountNat
    <3>2. served' = Promise!Unavailable
      BY <3>1, <2>4 DEF served, Promise!Unavailable, Answering, postings_cover_canonical_games,
         tree_covers_canonical_games, Covers, Kinds
    <3>3. Promise!Prune(gone)
      BY <3>2, <2>4 DEF Promise!Prune
    <3> QED
      BY <3>3 DEF Promise!Next
  <2>5. ASSUME mem = None, mem' = None, games' = EmptyStore
        PROVE  Promise!Next
    <3>1. served = Promise!Unavailable /\ served' = Promise!Unavailable
      BY <2>5 DEF served, Promise!Unavailable, Answering, postings_cover_canonical_games,
         tree_covers_canonical_games, Covers, Kinds
    <3> QED
      BY <3>1, <2>5 DEF Promise!Next, Promise!Discard, EmptyStore
  <2> QED
    BY <2>2, <2>3, <2>5, <2>4, GamesChange
<1> QED
  BY <1>1, <1>3, Consistency, PTL DEF Spec, FailsClosed, Promise!Spec

-----------------------------------------------------------------------------
(* PowerLoss: what a power failure can and cannot make of the answers, with *)
(* synchronous = NORMAL and directory syncs that fail.                       *)

Directories ==
  [disk : Manifests \cup {None}, files : [ArtifactNames -> Images \cup {None, Corrupt}]]

\* The entries of m belong to its generation and were numbered before its next.
Numbered(m) ==
  m # None => \A k \in Kinds : m.entry[k] # None =>
    m.entry[k].gen = m.gen /\ m.entry[k].seq < m.seq

SyncTypeOK ==
  /\ synced \in Directories
  /\ recoverable \cup replaced \subseteq Images \cup {None}
  /\ Numbered(synced.disk)

\* What would come back if the power failed now.  Unless a write has reported an
\* error, the manifest as last synced is the present one, or the present one has
\* been removed from a bundle that is being discarded.  Unless something is in
\* doubt, the entries of either describe the rows.
SyncInv ==
  /\ unconfirmed \/ synced.disk = disk \/ (disk = None /\ mem = None)
  /\ doubt # {} \/ Describes(disk, games)
  /\ doubt # {} \/ unconfirmed \/ Describes(synced.disk, games)

PInv == Sound /\ SyncTypeOK /\ SyncInv

-----------------------------------------------------------------------------
(* What a step leaves of the synced directory. *)

\* Right after a sync the directory is the present one.
LEMMA SyncedNow ==
  ASSUME Sound', synced' = directory', doubt' # {} \/ Describes(disk', games'),
         (recoverable \cup replaced)' \subseteq Images \cup {None}
  PROVE  SyncTypeOK' /\ SyncInv'
<1>1. synced'.disk = disk' /\ synced' \in Directories
  <2>1. disk' \in Manifests \cup {None} /\ files' \in [ArtifactNames -> Images \cup {None, Corrupt}]
    BY DEF Sound, TypeOK, StorageTypeOK
  <2>2. synced' = [disk |-> disk', files |-> files']
    BY DEF directory
  <2> QED BY <2>1, <2>2 DEF Directories
<1>2. Numbered(disk')
  BY DEF Sound, EntryInv, Numbered
<1>3. SyncTypeOK'
  BY <1>1, <1>2 DEF SyncTypeOK, Numbered
<1>4. SyncInv'
  BY <1>1 DEF SyncInv, Describes
<1> QED BY <1>3, <1>4

\* Without a sync the manifest may only go, in a bundle that nobody has open.
LEMMA SyncKept ==
  ASSUME Sound', SyncTypeOK, SyncInv, UNCHANGED <<synced, unconfirmed>>,
         disk' = disk \/ disk' = None,
         doubt' # {} \/ Describes(disk', games'),
         (disk' # None /\ mem' # None)
           \/ (doubt' = doubt /\ (games' = games \/ games' = EmptyStore))
  PROVE  SyncInv'
<1>1. disk' = None => mem' = None
  BY DEF Sound, SessionInv
<1>2. unconfirmed \/ synced.disk = disk' \/ (disk' = None /\ mem' = None)
  BY <1>1 DEF SyncInv
<1>3. doubt' # {} \/ unconfirmed \/ Describes(synced.disk, games')
  <2>1. CASE synced.disk = disk'
    BY <2>1
  <2>2. CASE unconfirmed
    BY <2>2
  <2>3. CASE disk' = None /\ mem' = None
    <3>1. doubt' = doubt /\ (games' = games \/ games' = EmptyStore)
      BY <2>3
    <3>2. synced.disk \in Manifests \cup {None}
      BY DEF SyncTypeOK, Directories
    <3> QED BY <3>1, <3>2, FewerDescribed DEF SyncInv
  <2> QED BY <1>2, <2>1, <2>2, <2>3
<1> QED BY <1>2, <1>3 DEF SyncInv, Describes

\* A step that touches neither the synced directory nor what is recoverable of
\* games.db leaves their types alone.
LEMMA TypeKept ==
  ASSUME SyncTypeOK, synced' = synced, (recoverable \cup replaced)' \subseteq Images \cup {None}
  PROVE  SyncTypeOK'
BY DEF SyncTypeOK, Numbered

\* What holds after a step of the manager or of the process.
LEMMA BundleStep ==
  ASSUME PInv, [Next]_vars
  PROVE  Sound' /\ (doubt # {} \/ Describes(disk', games'))
<1>1. Describes(disk, games) => Describes(disk', games')
  BY DescribesStep DEF PInv, Describes
<1> QED BY <1>1, SoundStep DEF PInv, SyncInv

-----------------------------------------------------------------------------
(* Each step in turn. *)

\* Nothing is on disk yet.
LEMMA PInitInv == PInit => PInv
<1> SUFFICES ASSUME PInit PROVE PInv
  OBVIOUS
<1>1. Sound
  BY SoundInit DEF PInit
<1>2. synced = [disk |-> disk, files |-> files] /\ disk = None
  BY DEF PInit, Init, directory
<1>3. synced \in Directories /\ synced.disk = None
  <2>1. disk \in Manifests \cup {None} /\ files \in [ArtifactNames -> Images \cup {None, Corrupt}]
    BY <1>1 DEF Sound, TypeOK, StorageTypeOK
  <2> QED BY <1>2, <2>1 DEF Directories
<1>4. SyncTypeOK
  BY <1>3 DEF PInit, SyncTypeOK, Numbered
<1>5. SyncInv
  BY <1>2, <1>3 DEF SyncInv, Describes
<1> QED BY <1>1, <1>4, <1>5 DEF PInv

\* A manifest write syncs, or leaves the manifest that was there, or reports that
\* it did neither.
LEMMA SyncsInv ==
  ASSUME PInv, [Next]_vars, NEW o \in WriteOutcomes, Syncs(o), UNCHANGED doubt, games' = games,
         recoverable' \subseteq Images \cup {None},
         o = "not_published" => disk' = disk
  PROVE  PInv'
<1>1. Sound' /\ (doubt' # {} \/ Describes(disk', games'))
  BY BundleStep
<1>2. recoverable' \cup replaced' \subseteq Images \cup {None}
  BY DEF Syncs, PInv, SyncTypeOK
<1>3. CASE o = "published"
  <2>1. synced' = directory'
    BY <1>3 DEF Syncs
  <2> QED BY <1>1, <1>2, <2>1, SyncedNow DEF PInv
<1>4. CASE o = "published_not_durable"
  <2>1. synced' = synced /\ unconfirmed' = TRUE
    BY <1>4 DEF Syncs
  <2>2. SyncTypeOK'
    BY <1>2, <2>1, TypeKept DEF PInv
  <2>3. SyncInv'
    BY <1>1, <2>1 DEF SyncInv, Describes
  <2> QED BY <1>1, <2>2, <2>3 DEF PInv
<1>5. CASE o = "not_published"
  <2>1. synced' = synced /\ (unconfirmed' <=> unconfirmed) /\ disk' = disk
    BY <1>5 DEF Syncs
  <2>2. SyncTypeOK'
    BY <1>2, <2>1, TypeKept DEF PInv
  <2>3. disk' = None => mem' = None
    BY <1>1 DEF Sound, SessionInv
  <2>4. SyncInv'
    BY <1>1, <2>1, <2>3 DEF PInv, SyncInv, Describes
  <2> QED BY <1>1, <2>2, <2>4 DEF PInv
<1> QED BY <1>3, <1>4, <1>5, OutcomeAssumption

LEMMA WritesInv ==
  ASSUME PInv, NEW o \in WriteOutcomes, Writes(o)
  PROVE  PInv'
<1>1. Next
  BY DEF Writes, Next, Step
<1>2. games' = games /\ (o = "not_published" => disk' = disk)
  BY DEF Writes, CreateManifest, MarkInUse, MarkStale, Publish, write_manifest
<1>3. recoverable' \subseteq Images \cup {None}
  BY DEF Writes, PInv, SyncTypeOK
<1>4. Syncs(o) /\ UNCHANGED doubt
  BY DEF Writes
<1> QED BY <1>1, <1>2, <1>3, <1>4, SyncsInv

\* close() leaves the last commit in games.db itself.
LEMMA ClosesInv ==
  ASSUME PInv, NEW o \in WriteOutcomes, Closes(o)
  PROVE  PInv'
<1>1. Next
  BY DEF Closes, Next, Close
<1>2. games' = games /\ (o = "not_published" => disk' = disk)
  BY DEF Closes, CloseManager, write_manifest
<1>3. recoverable' \subseteq Images \cup {None}
  BY DEF Closes, PInv, Sound, TypeOK, StorageTypeOK
<1>4. Syncs(o) /\ UNCHANGED doubt
  BY DEF Closes
<1> QED BY <1>1, <1>2, <1>3, <1>4, SyncsInv

\* Rows change only in a session, whose manifest is the one last synced unless a
\* write has reported an error; a commit finds no index named there.
LEMMA CommitsInv ==
  ASSUME PInv, Commits
  PROVE  PInv'
<1>1. Next
  BY DEF Commits, Next, User, Step
<1>2. /\ disk' = disk /\ mem' = mem /\ synced' = synced /\ unconfirmed' = unconfirmed
      /\ replaced' = replaced /\ recoverable' = recoverable \cup {games'}
      /\ pc \in {"mutate", "idle"}
  BY DEF Commits, Commit, Reconcile, manager
<1>3. mem' # None /\ disk' # None
  BY <1>2 DEF PInv, Sound, SessionInv, OpenLabels, Labels
<1>4. Sound' /\ (doubt # {} \/ Describes(disk', games'))
  BY <1>1, BundleStep
<1>5. doubt' # {} \/ Describes(disk', games')
  <2>1. CASE pc = "mutate"
    <3>1. disk.entry = NoEntries
      BY <1>2, <1>3, <2>1 DEF PInv, Sound, SessionInv, CallInv
    <3> QED BY <1>2, <3>1 DEF Describes, NoEntries
  <2>2. CASE pc # "mutate"
    <3>1. doubt' = doubt
      BY <2>2 DEF Commits, Commit
    <3> QED BY <1>4, <3>1
  <2> QED BY <2>1, <2>2
<1>6. recoverable' \cup replaced' \subseteq Images \cup {None}
  BY <1>2, <1>4 DEF PInv, SyncTypeOK, Sound, TypeOK, StorageTypeOK
<1>7. SyncTypeOK'
  BY <1>2, <1>6, TypeKept DEF PInv
<1>8. SyncInv'
  BY <1>2, <1>3, <1>4, <1>5, SyncKept DEF PInv
<1> QED BY <1>4, <1>7, <1>8 DEF PInv

\* A games.db that is new or gone holds nothing, whatever manifest comes back.
LEMMA ReplacesInv ==
  ASSUME PInv, Replaces
  PROVE  PInv'
<1>1. Next
  BY DEF Replaces, Next, User, Step
<1>2. /\ disk' = disk /\ synced' = synced /\ unconfirmed' = unconfirmed /\ doubt' = doubt
      /\ games' = EmptyStore \/ games' = games
  BY DEF Replaces, CreateSchema, RemoveDb
<1>3. Sound' /\ (doubt' # {} \/ Describes(disk', games'))
  BY <1>1, <1>2, BundleStep
<1>4. recoverable' \cup replaced' \subseteq Images \cup {None}
  BY <1>3 DEF Replaces, PInv, SyncTypeOK, Sound, TypeOK, StorageTypeOK
<1>5. SyncTypeOK'
  BY <1>2, <1>4, TypeKept DEF PInv
<1>6. SyncInv'
  BY <1>2, <1>3, SyncKept DEF PInv
<1> QED BY <1>3, <1>5, <1>6 DEF PInv

\* The other steps sync nothing and touch of the directory only artifacts, or
\* remove the manifest; a checkpoint of SQLite's own touches nothing of it.
LEMMA OthersInv ==
  ASSUME PInv, Others \/ Checkpoint \/ UNCHANGED pvars
  PROVE  PInv'
<1>1. [Next]_vars
  BY DEF Others, Checkpoint, pvars, Next, User, Step, Environment
<1>2. /\ games' = games /\ synced' = synced /\ unconfirmed' = unconfirmed /\ doubt' = doubt
      /\ replaced' = replaced /\ (recoverable' = recoverable \/ recoverable' = {games})
      /\ disk' = disk \/ disk' = None
  BY DEF Others, Checkpoint, DiscardCreatedBundle, BeginMutation, BeginRebuild, RemoveManifest,
     RemoveArtifacts, UnlinkStale, UnlinkPrevious, EndImport, BuildStaged, RenameStaged, Open,
     OpenBundle, Crash, storage, vars, pvars
<1>3. Sound' /\ (doubt' # {} \/ Describes(disk', games'))
  BY <1>1, <1>2, BundleStep
<1>4. recoverable' \cup replaced' \subseteq Images \cup {None}
  BY <1>2 DEF PInv, SyncTypeOK, Sound, TypeOK, StorageTypeOK
<1>5. SyncTypeOK'
  BY <1>2, <1>4, TypeKept DEF PInv
<1>6. SyncInv'
  BY <1>2, <1>3, SyncKept DEF PInv
<1> QED BY <1>3, <1>5, <1>6 DEF PInv

\* The power fails: whichever pieces come back, the manifest among them describes
\* the rows among them, or what it relied on has been taken and is in doubt.
LEMMA PowerFailureInv ==
  ASSUME PInv, PowerFailure
  PROVE  PInv'
<1>1. /\ disk' \in {disk, synced.disk}
      /\ synced' = directory' /\ replaced' = {} /\ crashes' = crashes + 1
      /\ ops' = ops /\ failures' = failures
      /\ mem' = None /\ reader' = NoReaders /\ created' = FALSE
      /\ pc' = "closed" /\ task' = "none" /\ kind' = "postings"
      /\ staged' = None /\ doomed' = {} /\ failed' = FALSE
  BY DEF PowerFailure, Gone
<1>2. /\ games \in Images /\ disk \in Manifests \cup {None} /\ synced.disk \in Manifests \cup {None}
      /\ files \in [ArtifactNames -> Images \cup {None, Corrupt}]
      /\ synced.files \in [ArtifactNames -> Images \cup {None, Corrupt}]
  BY DEF PInv, Sound, TypeOK, StorageTypeOK, SyncTypeOK, Directories
<1>3. PICK rows \in recoverable \cup replaced :
        /\ db' = (rows # None)
        /\ games' = IF rows = None THEN EmptyStore ELSE rows
        /\ recoverable' = {rows}
  BY DEF PowerFailure
<1>4. rows \in Images \cup {None}
  BY <1>3 DEF PInv, SyncTypeOK
<1>5. db' \in BOOLEAN /\ games' \in Images
  <2>1. db' \in BOOLEAN
    BY <1>3
  <2>2. games' \in Images
    BY <1>3, <1>4, EmptyTypes
  <2> QED BY <2>1, <2>2
<1>6. doubt' # {} \/ Describes(disk', games')
  <2> SUFFICES ASSUME doubt' = {} PROVE Describes(disk', games')
    OBVIOUS
  <2>1. doubt = {} /\ ~(db' /\ games' # games) /\ ~(unconfirmed /\ disk' # disk)
    BY DEF PowerFailure
  <2>2. games' = games \/ games' = EmptyStore
    BY <1>3, <2>1
  <2>3. Describes(disk', games)
    BY <1>1, <2>1 DEF PInv, SyncInv
  <2> QED BY <1>1, <1>2, <2>2, <2>3, FewerDescribed
<1>7. files' \in [ArtifactNames -> Images \cup {None, Corrupt}]
  <2>1. PICK back : files' = [n \in ArtifactNames |-> IF n \in back THEN synced.files[n] ELSE files[n]]
    BY DEF PowerFailure
  <2> QED BY <1>2, <2>1
<1>8. StorageTypeOK'
  BY <1>1, <1>2, <1>5, <1>7 DEF StorageTypeOK
<1>9. ManagerTypeOK'
  <2>1. created' \in BOOLEAN
    BY <1>1
  <2> QED BY <1>1, <2>1, EmptyTypes DEF ManagerTypeOK
<1>10. CallTypeOK'
  <2>1. failed' \in BOOLEAN
    BY <1>1
  <2> QED BY <1>1, <2>1, EmptyTypes DEF CallTypeOK, Labels
<1>11. BudgetTypeOK'
  BY <1>1 DEF PInv, Sound, TypeOK, BudgetTypeOK
<1>12. SessionInv'
  BY <1>1 DEF SessionInv, OpenLabels, Labels
<1>13. EntryInv'
  <2>1. \A k \in Kinds : reader'[k] = None
    BY <1>1 DEF NoReaders
  <2>2. Numbered(disk')
    BY <1>1 DEF PInv, Sound, EntryInv, SyncTypeOK, Numbered
  <2> QED BY <2>1, <2>2 DEF EntryInv, Numbered
<1>14. CallInv'
  BY <1>1 DEF CallInv
<1>15. Sound'
  BY <1>8, <1>9, <1>10, <1>11, <1>12, <1>13, <1>14 DEF Sound, TypeOK
<1>16. (recoverable \cup replaced)' \subseteq Images \cup {None}
  BY <1>1, <1>3, <1>4
<1> QED BY <1>1, <1>6, <1>15, <1>16, SyncedNow DEF PInv

\* The invariant, for every number of operations, failed effects, process deaths
\* and power failures: memory, manifest and artifacts stay sound, and so does what
\* would come back if the power failed now, up to what is recorded as in doubt.
THEOREM PowerConsistency == PSpec => []PInv
<1>1. PInv /\ [PNext]_pvars => PInv'
  BY WritesInv, ClosesInv, CommitsInv, ReplacesInv, OthersInv, PowerFailureInv DEF PNext
<1> QED BY PInitInv, <1>1, PTL DEF PSpec

\* An index that answers is the image of the canonical games, also after a power
\* failure between any two effects and with any directory sync failing, unless a
\* power failure took commits that were not checkpointed or a manifest whose write
\* had reported an error, and no row was committed since.
THEOREM PowerExactness == PSpec => []ExactUnlessPowerTookIt
<1>1. PInv => ExactUnlessPowerTookIt
  BY ConsistentIsExact DEF PInv, SyncInv, Consistent, ExactUnlessPowerTookIt
<1> QED BY PowerConsistency, <1>1, PTL
=============================================================================
