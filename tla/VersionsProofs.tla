----------------------------- MODULE VersionsProofs -----------------------------
(***************************************************************************)
(* Proofs about versions of the program at work side by side.  About       *)
(* IndexVersions, for any number of servers, of extractor versions, of     *)
(* changes and of kills: types, the one writer of the side file that       *)
(* servers share, and who sees to a row that a swap lost.  About Launcher, *)
(* for any number of launches and of versions: a launch runs what it asked *)
(* for unless something it is told of came in between, and launches that   *)
(* are over leave nothing half done.                                       *)
(***************************************************************************)
EXTENDS IndexVersions, Launcher, FiniteSetTheorems, TLAPS

-----------------------------------------------------------------------------
(* IndexVersions. *)

ServerPlaces == {"none", "off", "create", "check", "decide", "live", "reconcile"}
                    \cup Building \cup Rescanning
Rows    == 0..MaxFileChanges
Indexes == [kind : Kinds, meta : Nat, by : SUBSET Nat, row : Rows]

VersionsTypeOK ==
    /\ content \in Rows
    /\ idx \in Indexes /\ side \in Indexes /\ own \in [Servers -> Indexes]
    /\ parent \in {0, 1} /\ foreign \in Relations
    /\ rebuildLock \in Servers \cup {NoServer}
    /\ spc \in [Servers -> ServerPlaces]
    /\ seen \in [Servers -> Rows]
    /\ todo \in SUBSET Servers /\ unlocked \in SUBSET Servers
    /\ orphaned \in BOOLEAN
    /\ mishaps \in 0..MaxMishaps

(* A server that decides or rebuilds holds `rebuild.lock`, or it went on   *)
(* without it.                                                             *)
BuildersHoldTheLock ==
    \A s \in Servers : spc[s] \in {"decide"} \cup Building =>
        rebuildLock = s \/ s \in unlocked

(* A server that watches has the event of every change that the side file  *)
(* it is scanning missed.                                                  *)
MissedIsTodo ==
    \A s \in Servers :
        /\ spc[s] = "ownWrite" /\ seen[s] # content => s \in todo
        /\ spc[s] \in {"ownSwap", "ownGap"} /\ own[s].row # content => s \in todo

VersionsInv ==
    /\ VersionsTypeOK
    /\ BuildersHoldTheLock
    /\ MissedIsTodo
    /\ SwappedRowsAreSeenTo

-----------------------------------------------------------------------------
(* Types. *)

(* An index that an extractor writes whole is an index.                    *)
LEMMA OkType ==
    ASSUME NEW v \in Nat, NEW row \in Rows
    PROVE  /\ Ok(v, row) \in Indexes /\ Ok(v, row).kind = "ok"
           /\ Ok(v, row).row = row
BY DEF Ok, Indexes, Kinds

(* A missing index is one of the kinds.                                    *)
LEMMA GoneType == Gone \in Indexes /\ Gone.kind = "missing"
BY ServerBounds DEF Gone, Indexes, Kinds, Rows

(* An extractor has a version.                                             *)
LEMMA VersionType == \A s \in Servers : Extractor[s] \in Nat
BY ExtractorAssumption

(* After an update, or the forced scan that takes its place, the index is  *)
(* there and its row is that of the file.                                  *)
LEMMA UpdatedType ==
    ASSUME VersionsTypeOK, NEW s \in Servers
    PROVE  /\ Updated(s) \in Indexes /\ Updated(s).row = content
           /\ idx.kind = "ok" => Updated(s).kind = "ok"
<1>1. content \in Rows /\ idx \in Indexes /\ Extractor[s] \in Nat
  BY VersionType DEF VersionsTypeOK
<1>2. CASE ~Accepts(s)
  BY <1>1, <1>2, OkType DEF Updated
<1>3. CASE Accepts(s)
  BY <1>1, <1>3 DEF Updated, Indexes
<1> QED BY <1>2, <1>3

(* A step moves one server, or none.                                       *)
LEMMA PlaceType ==
    ASSUME VersionsTypeOK, NEW s \in Servers, NEW place \in ServerPlaces, ServerAt(s, place)
    PROVE  spc' \in [Servers -> ServerPlaces]
BY DEF VersionsTypeOK, ServerAt

(* Of the mishaps there are no more than the bound.                        *)
LEMMA MishapType == VersionsTypeOK /\ Mishap => mishaps' \in 0..MaxMishaps
BY ServerBounds DEF VersionsTypeOK, Mishap

(* The first state has the types.                                          *)
LEMMA VersionsTypeInit == VersionsInit => VersionsTypeOK
<1> SUFFICES ASSUME VersionsInit PROVE VersionsTypeOK
  OBVIOUS
<1>1. 0 \in Rows /\ 0 \in 0..MaxMishaps
  BY ServerBounds DEF Rows
<1>2. idx \in Indexes
  <2>1. ASSUME NEW s \in Servers, idx = Ok(Extractor[s], 0) PROVE idx \in Indexes
    BY <2>1, <1>1, OkType, VersionType
  <2>2. ASSUME idx \in [kind : {"torn", "legacy"}, meta : {0}, by : {{0}}, row : {0}]
        PROVE  idx \in Indexes
    BY <2>2, <1>1 DEF Indexes, Kinds
  <2> QED BY <2>1, <2>2, GoneType DEF VersionsInit
<1> QED BY <1>1, <1>2, GoneType
        DEF VersionsInit, VersionsIdle, VersionsTypeOK, ServerPlaces

(* A step of one server, or its failure, or its end.                       *)
AnyStep(s) ==
    \/ ServerStep(s) \/ GoUnlocked(s) \/ ScanFails(s) \/ SwapRefused(s)
    \/ OwnSwapRefused(s) \/ ReconcileFails(s) \/ KillServer(s)

(* Every step keeps the types.                                             *)
LEMMA VersionsTypeStep == VersionsTypeOK /\ [VersionsNext]_idxVars => VersionsTypeOK'
<1> SUFFICES ASSUME VersionsTypeOK, [VersionsNext]_idxVars PROVE VersionsTypeOK'
  OBVIOUS
<1> USE DEF ServerPlaces, Building, Rescanning
<1>1. CASE UNCHANGED idxVars
  BY <1>1 DEF idxVars, VersionsTypeOK
<1>2. CASE ChangeFile
  <2>1. content' \in Rows
    BY <1>2, ServerBounds DEF ChangeFile, VersionsTypeOK, Rows
  <2> QED BY <1>2, <2>1 DEF ChangeFile, VersionsTypeOK, stores, given, log
<1>3. ASSUME NEW s \in Servers, AnyStep(s) PROVE VersionsTypeOK'
  <2>1. CASE StartServer(s)
    BY <2>1 DEF StartServer, ServerAt, VersionsTypeOK, stores, given, log
  <2>2. CASE TakeLock(s)
    BY <2>2 DEF TakeLock, ServerAt, VersionsTypeOK, stores, given, log
  <2>3. CASE Decide(s)
    BY <2>3, GoneType DEF Decide, ServerAt, FreeLock, VersionsTypeOK, stores, given, log
  <2>4. CASE ScanReads(s)
    BY <2>4 DEF ScanReads, ServerAt, VersionsTypeOK, stores, given, log
  <2>5. CASE ScanWrites(s)
    BY <2>5, OkType, VersionType DEF ScanWrites, ServerAt, VersionsTypeOK, stores, given, log
  <2>6. CASE Swap(s)
    BY <2>6, GoneType DEF Swap, ServerAt, FreeLock, VersionsTypeOK, stores, given, log
  <2>7. CASE RenameAfterRemoval(s)
    BY <2>7, GoneType DEF RenameAfterRemoval, ServerAt, FreeLock, VersionsTypeOK, stores, given, log
  <2>8. CASE CreateByScan(s)
    BY <2>8, OkType, VersionType DEF CreateByScan, ServerAt, VersionsTypeOK, stores, given, log
  <2>9. CASE CreateByCopy(s)
    BY <2>9, OkType, VersionType DEF CreateByCopy, ServerAt, VersionsTypeOK, stores, given, log
  <2>10. CASE Reconcile(s)
    <3>1. CASE NeedsNewArtifact(s)
      BY <2>10, <3>1, GoneType DEF Reconcile, ServerAt, VersionsTypeOK, stores, given, log
    <3>2. CASE ~NeedsNewArtifact(s)
      <4>1. idx' \in Indexes
        BY <2>10, <3>2, OkType, VersionType, UpdatedType DEF Reconcile, VersionsTypeOK
      <4> QED BY <2>10, <3>2, <4>1 DEF Reconcile, ServerAt, VersionsTypeOK, given
    <3> QED BY <3>1, <3>2
  <2>11. CASE OwnScanReads(s)
    BY <2>11 DEF OwnScanReads, ServerAt, VersionsTypeOK, stores, given, log
  <2>12. CASE OwnScanWrites(s)
    BY <2>12, OkType, VersionType DEF OwnScanWrites, ServerAt, VersionsTypeOK, stores, given, log
  <2>13. CASE OwnSwap(s)
    BY <2>13, GoneType DEF OwnSwap, ServerAt, VersionsTypeOK, stores, given, log
  <2>14. CASE UpdateFile(s)
    BY <2>14, UpdatedType DEF UpdateFile, ServerAt, VersionsTypeOK, stores, given, log
  <2>15. CASE GoUnlocked(s)
    BY <2>15, MishapType DEF GoUnlocked, ServerAt, VersionsTypeOK, stores, given, log
  <2>16. CASE ScanFails(s)
    BY <2>16, MishapType, GoneType DEF ScanFails, ServerAt, FreeLock, VersionsTypeOK, stores, given, log
  <2>17. CASE SwapRefused(s)
    BY <2>17, MishapType, GoneType DEF SwapRefused, ServerAt, VersionsTypeOK, stores, given, log
  <2>18. CASE OwnSwapRefused(s)
    BY <2>18, MishapType, GoneType DEF OwnSwapRefused, ServerAt, VersionsTypeOK, stores, given, log
  <2>19. CASE ReconcileFails(s)
    BY <2>19, MishapType, GoneType DEF ReconcileFails, ServerAt, VersionsTypeOK, stores, given, log
  <2>20. CASE KillServer(s)
    BY <2>20, MishapType DEF KillServer, ServerAt, FreeLock, VersionsTypeOK, stores, given, log
  <2> QED BY <1>3, <2>1, <2>2, <2>3, <2>4, <2>5, <2>6, <2>7, <2>8, <2>9, <2>10, <2>11, <2>12,
             <2>13, <2>14, <2>15, <2>16, <2>17, <2>18, <2>19, <2>20 DEF AnyStep,
             ServerStep
<1> QED BY <1>1, <1>2, <1>3 DEF VersionsNext, AnyStep

(* Every variable has its type, for any servers, versions and failures.    *)
THEOREM VersionsTypeCorrect == VersionsSpec => []VersionsTypeOK
BY VersionsTypeInit, VersionsTypeStep, PTL DEF VersionsSpec

-----------------------------------------------------------------------------
(* The lock of the rebuild, and the events of the changes. *)

(* Every step keeps the lock with the servers that rebuild under it: a     *)
(* server that is waiting takes it only when it is free, and no server     *)
(* frees the lock of another.                                              *)
LEMMA BuildersStep ==
    VersionsTypeOK /\ BuildersHoldTheLock /\ [VersionsNext]_idxVars => BuildersHoldTheLock'
<1> SUFFICES ASSUME VersionsTypeOK, BuildersHoldTheLock, [VersionsNext]_idxVars
             PROVE  BuildersHoldTheLock'
  OBVIOUS
<1> USE DEF Building
<1>1. CASE UNCHANGED idxVars
  BY <1>1 DEF idxVars, BuildersHoldTheLock
<1>2. CASE ChangeFile
  BY <1>2 DEF ChangeFile, BuildersHoldTheLock, log
<1>3. ASSUME NEW s \in Servers, AnyStep(s) PROVE BuildersHoldTheLock'
  <2>1. CASE StartServer(s)
    BY <2>1 DEF StartServer, ServerAt, VersionsTypeOK, BuildersHoldTheLock, log
  <2>2. CASE TakeLock(s)
    BY <2>2, ExtractorAssumption DEF TakeLock, ServerAt, VersionsTypeOK, BuildersHoldTheLock, log
  <2>3. CASE Decide(s)
    BY <2>3 DEF Decide, ServerAt, FreeLock, VersionsTypeOK, BuildersHoldTheLock, log
  <2>4. CASE ScanReads(s)
    BY <2>4 DEF ScanReads, ServerAt, VersionsTypeOK, BuildersHoldTheLock, log
  <2>5. CASE ScanWrites(s)
    BY <2>5 DEF ScanWrites, ServerAt, VersionsTypeOK, BuildersHoldTheLock, log
  <2>6. CASE Swap(s)
    BY <2>6 DEF Swap, ServerAt, FreeLock, VersionsTypeOK, BuildersHoldTheLock, log
  <2>7. CASE RenameAfterRemoval(s)
    BY <2>7 DEF RenameAfterRemoval, ServerAt, FreeLock, VersionsTypeOK, BuildersHoldTheLock, log
  <2>8. CASE CreateByScan(s)
    BY <2>8 DEF CreateByScan, ServerAt, VersionsTypeOK, BuildersHoldTheLock, log
  <2>9. CASE CreateByCopy(s)
    BY <2>9 DEF CreateByCopy, ServerAt, VersionsTypeOK, BuildersHoldTheLock, log
  <2>10. CASE Reconcile(s)
    BY <2>10 DEF Reconcile, ServerAt, VersionsTypeOK, BuildersHoldTheLock, log
  <2>11. CASE OwnScanReads(s)
    BY <2>11 DEF OwnScanReads, ServerAt, VersionsTypeOK, BuildersHoldTheLock, log
  <2>12. CASE OwnScanWrites(s)
    BY <2>12 DEF OwnScanWrites, ServerAt, VersionsTypeOK, BuildersHoldTheLock, log
  <2>13. CASE OwnSwap(s)
    BY <2>13 DEF OwnSwap, ServerAt, VersionsTypeOK, BuildersHoldTheLock, log
  <2>14. CASE UpdateFile(s)
    BY <2>14 DEF UpdateFile, ServerAt, VersionsTypeOK, BuildersHoldTheLock, log
  <2>15. CASE GoUnlocked(s)
    BY <2>15 DEF GoUnlocked, ServerAt, VersionsTypeOK, BuildersHoldTheLock, log
  <2>16. CASE ScanFails(s)
    BY <2>16 DEF ScanFails, ServerAt, FreeLock, VersionsTypeOK, BuildersHoldTheLock, log
  <2>17. CASE SwapRefused(s)
    BY <2>17 DEF SwapRefused, ServerAt, VersionsTypeOK, BuildersHoldTheLock, log
  <2>18. CASE OwnSwapRefused(s)
    BY <2>18 DEF OwnSwapRefused, ServerAt, VersionsTypeOK, BuildersHoldTheLock, log
  <2>19. CASE ReconcileFails(s)
    BY <2>19 DEF ReconcileFails, ServerAt, VersionsTypeOK, BuildersHoldTheLock, log
  <2>20. CASE KillServer(s)
    BY <2>20 DEF KillServer, ServerAt, FreeLock, VersionsTypeOK, BuildersHoldTheLock, log
  <2> QED BY <1>3, <2>1, <2>2, <2>3, <2>4, <2>5, <2>6, <2>7, <2>8, <2>9, <2>10, <2>11,
             <2>12, <2>13, <2>14, <2>15, <2>16, <2>17, <2>18, <2>19, <2>20 DEF AnyStep,
             ServerStep
<1> QED BY <1>1, <1>2, <1>3 DEF VersionsNext, AnyStep

(* A change that a scan into a server's own side file missed stays on the  *)
(* list of that server until it is live, killed or failed.                 *)
LEMMA MissedStep ==
    VersionsTypeOK /\ MissedIsTodo /\ [VersionsNext]_idxVars => MissedIsTodo'
<1> SUFFICES ASSUME VersionsTypeOK, MissedIsTodo, [VersionsNext]_idxVars
             PROVE  MissedIsTodo'
  OBVIOUS
<1>1. CASE UNCHANGED idxVars
  BY <1>1 DEF idxVars, MissedIsTodo
<1>2. CASE ChangeFile
  BY <1>2 DEF ChangeFile, MissedIsTodo, Watching, Rescanning, stores
<1>3. ASSUME NEW s \in Servers, AnyStep(s) PROVE MissedIsTodo'
  <2>1. CASE StartServer(s)
    BY <2>1 DEF StartServer, ServerAt, VersionsTypeOK, MissedIsTodo, stores
  <2>2. CASE TakeLock(s)
    BY <2>2 DEF TakeLock, ServerAt, VersionsTypeOK, MissedIsTodo, stores
  <2>3. CASE Decide(s)
    BY <2>3 DEF Decide, ServerAt, VersionsTypeOK, MissedIsTodo, stores
  <2>4. CASE ScanReads(s)
    BY <2>4 DEF ScanReads, ServerAt, VersionsTypeOK, MissedIsTodo, stores
  <2>5. CASE ScanWrites(s)
    BY <2>5 DEF ScanWrites, ServerAt, VersionsTypeOK, MissedIsTodo, stores
  <2>6. CASE Swap(s)
    BY <2>6 DEF Swap, ServerAt, VersionsTypeOK, MissedIsTodo, stores
  <2>7. CASE RenameAfterRemoval(s)
    BY <2>7 DEF RenameAfterRemoval, ServerAt, VersionsTypeOK, MissedIsTodo, stores
  <2>8. CASE CreateByScan(s)
    BY <2>8 DEF CreateByScan, ServerAt, VersionsTypeOK, MissedIsTodo, stores
  <2>9. CASE CreateByCopy(s)
    BY <2>9 DEF CreateByCopy, ServerAt, VersionsTypeOK, MissedIsTodo, stores
  <2>10. CASE Reconcile(s)
    BY <2>10 DEF Reconcile, ServerAt, VersionsTypeOK, MissedIsTodo, stores
  <2>11. CASE OwnScanReads(s)
    BY <2>11 DEF OwnScanReads, ServerAt, VersionsTypeOK, MissedIsTodo, stores
  <2>12. CASE OwnScanWrites(s)
    BY <2>12, OkType, VersionType DEF OwnScanWrites, ServerAt, VersionsTypeOK, MissedIsTodo, stores
  <2>13. CASE OwnSwap(s)
    BY <2>13 DEF OwnSwap, ServerAt, VersionsTypeOK, MissedIsTodo, stores
  <2>14. CASE UpdateFile(s)
    BY <2>14 DEF UpdateFile, ServerAt, VersionsTypeOK, MissedIsTodo, stores
  <2>15. CASE GoUnlocked(s)
    BY <2>15 DEF GoUnlocked, ServerAt, VersionsTypeOK, MissedIsTodo, stores
  <2>16. CASE ScanFails(s)
    BY <2>16 DEF ScanFails, ServerAt, VersionsTypeOK, MissedIsTodo, stores
  <2>17. CASE SwapRefused(s)
    BY <2>17 DEF SwapRefused, ServerAt, VersionsTypeOK, MissedIsTodo, stores
  <2>18. CASE OwnSwapRefused(s)
    BY <2>18 DEF OwnSwapRefused, ServerAt, VersionsTypeOK, MissedIsTodo, stores
  <2>19. CASE ReconcileFails(s)
    BY <2>19 DEF ReconcileFails, ServerAt, VersionsTypeOK, MissedIsTodo, stores
  <2>20. CASE KillServer(s)
    BY <2>20 DEF KillServer, ServerAt, VersionsTypeOK, MissedIsTodo, stores
  <2> QED BY <1>3, <2>1, <2>2, <2>3, <2>4, <2>5, <2>6, <2>7, <2>8, <2>9, <2>10, <2>11,
             <2>12, <2>13, <2>14, <2>15, <2>16, <2>17, <2>18, <2>19, <2>20 DEF AnyStep,
             ServerStep
<1> QED BY <1>1, <1>2, <1>3 DEF VersionsNext, AnyStep

-----------------------------------------------------------------------------
(* Who sees to a row that differs from the file. *)

(* A step that leaves the row, the file and the events as they are, and    *)
(* makes no server live and takes none off its reconcile, changes nothing. *)
LEMMA SeenStill ==
    ASSUME VersionsTypeOK, SwappedRowsAreSeenTo, NEW s \in Servers, NEW place,
           spc' = [spc EXCEPT ![s] = place],
           place # "live",
           spc[s] \in {"reconcile"} \cup Rescanning => place \in {"reconcile"} \cup Rescanning,
           UNCHANGED <<content, todo, orphaned>>,
           idx' = idx \/ idx'.kind = "missing"
    PROVE  SwappedRowsAreSeenTo'
BY DEF VersionsTypeOK, SwappedRowsAreSeenTo

(* After a step that writes the row of the file nothing is to be seen to.  *)
LEMMA SeenWritten ==
    idx'.row = content' => SwappedRowsAreSeenTo'
BY DEF SwappedRowsAreSeenTo

(* While a server has the event of the change, or reconciles, it is seen to.*)
LEMMA SeenByOne ==
    ASSUME NEW s \in Servers,
           s \in todo' \/ orphaned' \/ spc'[s] \in {"reconcile"} \cup Rescanning
    PROVE  SwappedRowsAreSeenTo'
BY DEF SwappedRowsAreSeenTo

(* Every step leaves a row that differs from the file to somebody.         *)
LEMMA SeenStep ==
    VersionsTypeOK /\ MissedIsTodo /\ SwappedRowsAreSeenTo /\ [VersionsNext]_idxVars
        => SwappedRowsAreSeenTo'
<1> SUFFICES ASSUME VersionsTypeOK, MissedIsTodo, SwappedRowsAreSeenTo, [VersionsNext]_idxVars
             PROVE  SwappedRowsAreSeenTo'
  OBVIOUS
<1>1. CASE UNCHANGED idxVars
  BY <1>1 DEF idxVars, SwappedRowsAreSeenTo
<1>2. CASE ChangeFile
  <2>1. CASE \E s \in Servers : spc[s] = "live"
    BY <1>2, <2>1, SeenByOne DEF ChangeFile, Watching
  <2>2. CASE \A s \in Servers : spc[s] # "live"
    BY <1>2, <2>2 DEF ChangeFile, SwappedRowsAreSeenTo
  <2> QED BY <2>1, <2>2
<1>3. ASSUME NEW s \in Servers, AnyStep(s) PROVE SwappedRowsAreSeenTo'
  <2>1. CASE StartServer(s)
    BY <2>1, SeenStill DEF StartServer, ServerAt, log, Rescanning
  <2>2. CASE TakeLock(s)
    BY <2>2, SeenStill DEF TakeLock, ServerAt, log, Rescanning
  <2>3. CASE Decide(s)
    <3>1. CASE Rebuilds(s)
      BY <2>3, <3>1, SeenStill DEF Decide, ServerAt, log, Rescanning
    <3>2. CASE ~Rebuilds(s)
      BY <2>3, <3>2, SeenByOne DEF Decide, ServerAt, VersionsTypeOK
    <3> QED BY <3>1, <3>2
  <2>4. CASE ScanReads(s)
    BY <2>4, SeenStill DEF ScanReads, ServerAt, log, Rescanning
  <2>5. CASE ScanWrites(s)
    BY <2>5, SeenStill DEF ScanWrites, ServerAt, log, Rescanning
  <2>6. CASE Swap(s)
    <3>1. CASE side.kind = "missing"
      BY <2>6, <3>1, SeenStill DEF Swap, ServerAt, log, Rescanning
    <3>2. CASE side.kind # "missing"
      BY <2>6, <3>2, SeenByOne DEF Swap, ServerAt, VersionsTypeOK
    <3> QED BY <3>1, <3>2
  <2>7. CASE RenameAfterRemoval(s)
    <3>1. CASE side.kind = "missing"
      BY <2>7, <3>1, SeenStill DEF RenameAfterRemoval, ServerAt, log, Rescanning
    <3>2. CASE side.kind # "missing"
      BY <2>7, <3>2, SeenByOne DEF RenameAfterRemoval, ServerAt, VersionsTypeOK
    <3> QED BY <3>1, <3>2
  <2>8. CASE CreateByScan(s)
    BY <2>8, SeenByOne DEF CreateByScan, ServerAt, VersionsTypeOK
  <2>9. CASE CreateByCopy(s)
    BY <2>9, SeenWritten, OkType, VersionType DEF CreateByCopy, VersionsTypeOK
  <2>10. CASE Reconcile(s)
    <3>1. CASE NeedsNewArtifact(s)
      BY <2>10, <3>1, SeenByOne DEF Reconcile, ServerAt, VersionsTypeOK, Rescanning
    <3>2. CASE ~NeedsNewArtifact(s)
      BY <2>10, <3>2, SeenWritten, OkType, VersionType, UpdatedType DEF Reconcile, VersionsTypeOK
    <3> QED BY <3>1, <3>2
  <2>11. CASE OwnScanReads(s)
    BY <2>11, SeenByOne DEF OwnScanReads, ServerAt, VersionsTypeOK, Rescanning
  <2>12. CASE OwnScanWrites(s)
    BY <2>12, SeenByOne DEF OwnScanWrites, ServerAt, VersionsTypeOK, Rescanning
  <2>13. CASE OwnSwap(s)
    <3>1. CASE own[s].row = content
      BY <2>13, <3>1, SeenWritten DEF OwnSwap
    <3>2. CASE own[s].row # content
      BY <2>13, <3>2, SeenByOne DEF OwnSwap, MissedIsTodo
    <3> QED BY <3>1, <3>2
  <2>14. CASE UpdateFile(s)
    <3>1. CASE idx.kind = "ok" /\ ~NeedsNewArtifact(s)
      BY <2>14, <3>1, SeenWritten, UpdatedType DEF UpdateFile
    <3>2. CASE ~(idx.kind = "ok" /\ ~NeedsNewArtifact(s))
      BY <2>14, <3>2, SeenByOne DEF UpdateFile, ServerAt, VersionsTypeOK
    <3> QED BY <3>1, <3>2
  <2>15. CASE GoUnlocked(s)
    BY <2>15, SeenStill DEF GoUnlocked, ServerAt, log, Rescanning
  <2>16. CASE ScanFails(s)
    BY <2>16, SeenStill DEF ScanFails, ServerAt, log, Rescanning
  <2>17. CASE SwapRefused(s)
    BY <2>17, SeenStill, GoneType DEF SwapRefused, ServerAt, log, Rescanning
  <2>18. CASE OwnSwapRefused(s)
    BY <2>18, SeenByOne DEF OwnSwapRefused, ServerAt, VersionsTypeOK, Rescanning
  <2>19. CASE ReconcileFails(s)
    BY <2>19, SeenByOne DEF ReconcileFails, ServerAt, VersionsTypeOK, Rescanning
  <2>20. CASE KillServer(s)
    <3>1. CASE s \in todo \/ spc[s] \in {"reconcile"} \cup Rescanning
      BY <2>20, <3>1, SeenByOne DEF KillServer
    <3>2. CASE ~(s \in todo \/ spc[s] \in {"reconcile"} \cup Rescanning)
      <4>1. todo' = todo /\ orphaned' = orphaned
        BY <2>20, <3>2 DEF KillServer, VersionsTypeOK
      <4> QED BY <2>20, <3>2, <4>1, SeenStill DEF KillServer, ServerAt
    <3> QED BY <3>1, <3>2
  <2> QED BY <1>3, <2>1, <2>2, <2>3, <2>4, <2>5, <2>6, <2>7, <2>8, <2>9, <2>10, <2>11,
             <2>12, <2>13, <2>14, <2>15, <2>16, <2>17, <2>18, <2>19, <2>20 DEF AnyStep,
             ServerStep
<1> QED BY <1>1, <1>2, <1>3 DEF VersionsNext, AnyStep

-----------------------------------------------------------------------------
(* The theorems. *)

(* The invariant holds at first.                                           *)
LEMMA VersionsInvInit == VersionsInit => VersionsInv
<1> SUFFICES ASSUME VersionsInit PROVE VersionsInv
  OBVIOUS
<1>1. BuildersHoldTheLock /\ MissedIsTodo /\ SwappedRowsAreSeenTo
  BY DEF VersionsInit, VersionsIdle, BuildersHoldTheLock, MissedIsTodo, SwappedRowsAreSeenTo,
         Building
<1> QED BY <1>1, VersionsTypeInit DEF VersionsInv

(* The locks, the lists and the types hold of every reachable state.       *)
THEOREM VersionsInvariantHolds == VersionsSpec => []VersionsInv
<1>1. VersionsInv /\ [VersionsNext]_idxVars => VersionsInv'
  BY VersionsTypeStep, BuildersStep, MissedStep, SeenStep DEF VersionsInv
<1> QED BY <1>1, VersionsInvInit, PTL DEF VersionsSpec

(* A set whose members are all the same has one of them at most.           *)
LEMMA AtMostOne ==
    ASSUME NEW S, \A a, b \in S : a = b
    PROVE  Cardinality(S) <= 1
<1>1. CASE S = {}
  BY <1>1, FS_EmptySet
<1>2. ASSUME NEW a \in S PROVE Cardinality(S) <= 1
  <2>1. S = {a}
    BY <1>2
  <2> QED BY <2>1, FS_Singleton
<1> QED BY <1>1, <1>2

(* While every server got the lock, one at most is between the removal of  *)
(* the shared side file and the swap, so none swaps in the other's half.   *)
THEOREM OneWriterOfTheSideFile == VersionsSpec => []SideFileHasOneWriter
<1>1. VersionsInv => SideFileHasOneWriter
  <2> SUFFICES ASSUME VersionsInv, unlocked = {}
               PROVE  Cardinality({s \in Servers : spc[s] \in Building}) <= 1
    BY DEF SideFileHasOneWriter
  <2>1. \A s \in Servers : spc[s] \in Building => rebuildLock = s
    BY DEF VersionsInv, BuildersHoldTheLock
  <2>2. \A a, b \in {s \in Servers : spc[s] \in Building} : a = b
    BY <2>1
  <2> QED BY <2>2, AtMostOne
<1> QED BY <1>1, VersionsInvariantHolds, PTL

(* A row that a swap took back to an older content is seen to by a server  *)
(* that has the event or reconciles, unless one that had it was killed or  *)
(* failed, whatever versions take the index from each other.               *)
THEOREM LostRowsAreSeenTo == VersionsSpec => []SwappedRowsAreSeenTo
<1>1. VersionsInv => SwappedRowsAreSeenTo
  BY DEF VersionsInv
<1> QED BY <1>1, VersionsInvariantHolds, PTL

-----------------------------------------------------------------------------
(* Launcher. *)

LaunchPlaces == Busy \cup {"off", "start", "exec", "fallback", "run", "failed"}

(* What the proofs need of the types; `runs` is a function of whatever.    *)
LaunchesKnown ==
    /\ lpc \in [Launches -> LaunchPlaces]
    /\ tries \in [Launches -> Nat]
    /\ temp \in [Launches -> {"none", "open", "lost"}]
    /\ shelf \in [Versions -> SUBSET {"sidecar", "archive"}]
    /\ staged \in SUBSET Launches /\ blamed \in SUBSET Launches
    /\ packages \in SUBSET Versions /\ folders \in SUBSET Versions
    /\ runs = [l \in Launches |-> runs[l]]

(* A temporary file is of a download under way.                            *)
TempsAreDownloads ==
    \A l \in Launches : temp[l] # "none" => lpc[l] \in {"sidecar", "archive"}

(* A launch that nothing disturbed is the only one of its version at work, *)
(* and finds what its earlier steps made.                                  *)
Undisturbed(l) ==
    /\ runs[l] = Version[l]
    /\ lpc[l] \notin {"bad", "fallback", "failed"}
    /\ temp[l] # "lost"
    /\ lpc[l] = "read" => "sidecar" \in shelf[Version[l]]
    /\ lpc[l] \in {"hash", "unpack"} => "archive" \in shelf[Version[l]]
    /\ lpc[l] = "place" => l \in staged
    /\ lpc[l] \in {"prune", "good", "exec"} => Version[l] \in packages
    /\ lpc[l] \in Busy => Peers(l) = {}
UnblamedAreUndisturbed == \A l \in Launches \ blamed : Undisturbed(l)

(* What is half done belongs to a launch at work on that version.          *)
AtWorkOn(v) == \E l \in Launches : Version[l] = v /\ lpc[l] \in Busy
StagesAreUsed  == \A l \in staged : lpc[l] \in {"place", "prune", "good", "bad"}
ShelvesAreUsed == \A v \in Versions : shelf[v] # {} => AtWorkOn(v)
FoldersAreUsed ==
    /\ packages \subseteq folders
    /\ \A v \in folders \ packages : AtWorkOn(v)
HalfDoneIsUsed == StagesAreUsed /\ ShelvesAreUsed /\ FoldersAreUsed

LauncherInv ==
    /\ LaunchesKnown
    /\ TempsAreDownloads
    /\ UnblamedAreUndisturbed
    /\ HalfDoneIsUsed

(* A step of one launch, with its faults.                                  *)
AnyLaunchStep(l) == LaunchStep(l) \/ EndDownload(l, TRUE) \/ DownloadFails(l)

-----------------------------------------------------------------------------
(* Types. *)

(* Every launch asks for a version.                                        *)
LEMMA AsksForVersion == \A l \in Launches : Version[l] \in Versions
BY LaunchVersions

(* Every step keeps the types, and downloads with the temporary files.     *)
LEMMA KnownStep ==
    LaunchesKnown /\ TempsAreDownloads /\ [LauncherNext]_launchVars
        => (LaunchesKnown /\ TempsAreDownloads)'
<1> SUFFICES ASSUME LaunchesKnown, TempsAreDownloads, [LauncherNext]_launchVars
             PROVE  (LaunchesKnown /\ TempsAreDownloads)'
  OBVIOUS
<1> USE DEF LaunchPlaces, Busy, LaunchesKnown, TempsAreDownloads
<1>1. CASE UNCHANGED launchVars
  BY <1>1 DEF launchVars, cache
<1>2. ASSUME NEW l \in Launches, AnyLaunchStep(l) PROVE (LaunchesKnown /\ TempsAreDownloads)'
  <2>1. CASE Start(l)
    BY <2>1 DEF Start, Peers, cache
  <2>2. CASE BeginDownload(l)
    BY <2>2, AsksForVersion DEF BeginDownload, Touch
  <2>3. CASE EndDownload(l, FALSE)
    BY <2>3, AsksForVersion DEF EndDownload, Shelved, LaunchFault, cache
  <2>4. CASE EndDownload(l, TRUE)
    BY <2>4, AsksForVersion DEF EndDownload, Shelved, LaunchFault, cache
  <2>5. CASE DownloadLost(l)
    BY <2>5 DEF DownloadLost, TryAgain, cache
  <2>6. CASE DownloadFails(l)
    BY <2>6 DEF DownloadFails, TryAgain, LaunchFault, cache
  <2>7. CASE ReadSidecar(l)
    BY <2>7 DEF ReadSidecar, Proceed, cache
  <2>8. CASE Hash(l)
    BY <2>8 DEF Hash, Proceed, cache
  <2>9. CASE Unpack(l)
    BY <2>9 DEF Unpack, Proceed, cache
  <2>10. CASE Place(l)
    BY <2>10, AsksForVersion DEF Place, Touch, cache
  <2>11. CASE Prune(l)
    BY <2>11 DEF Prune, Without, Discard, Empty
  <2>12. CASE CleanUp(l)
    BY <2>12, AsksForVersion DEF CleanUp, Without, Touch, Discard, Empty
  <2>13. CASE Fallback(l)
    BY <2>13 DEF Fallback, Proceed, cache
  <2>14. CASE Exec(l)
    BY <2>14 DEF Exec, Proceed, cache
  <2> QED BY <1>2, <2>1, <2>2, <2>3, <2>4, <2>5, <2>6, <2>7, <2>8, <2>9, <2>10, <2>11,
             <2>12, <2>13, <2>14 DEF AnyLaunchStep, LaunchStep
<1> QED BY <1>1, <1>2 DEF LauncherNext, AnyLaunchStep

-----------------------------------------------------------------------------
(* A launch that nothing disturbed. *)

(* Every step keeps each launch that it does not blame on its way, and the *)
(* only one of its version at work.                                        *)
LEMMA UndisturbedStep ==
    LaunchesKnown /\ TempsAreDownloads /\ UnblamedAreUndisturbed /\ [LauncherNext]_launchVars
        => UnblamedAreUndisturbed'
<1> SUFFICES ASSUME LaunchesKnown, TempsAreDownloads, UnblamedAreUndisturbed,
                    [LauncherNext]_launchVars
             PROVE  UnblamedAreUndisturbed'
  OBVIOUS
<1> USE DEF LaunchPlaces, Busy, LaunchesKnown, TempsAreDownloads, UnblamedAreUndisturbed,
            Undisturbed, Peers
<1>1. CASE UNCHANGED launchVars
  BY <1>1 DEF launchVars, cache
<1>2. ASSUME NEW l \in Launches, AnyLaunchStep(l) PROVE UnblamedAreUndisturbed'
  <2>1. CASE Start(l)
    BY <2>1 DEF Start
  <2>2. CASE BeginDownload(l)
    BY <2>2, AsksForVersion DEF BeginDownload
  <2>3. CASE EndDownload(l, FALSE)
    BY <2>3, AsksForVersion DEF EndDownload, Shelved, LaunchFault
  <2>4. CASE EndDownload(l, TRUE)
    BY <2>4, AsksForVersion DEF EndDownload, Shelved, LaunchFault
  <2>5. CASE DownloadLost(l)
    BY <2>5 DEF DownloadLost, TryAgain
  <2>6. CASE DownloadFails(l)
    BY <2>6 DEF DownloadFails, TryAgain, LaunchFault
  <2>7. CASE ReadSidecar(l)
    BY <2>7 DEF ReadSidecar, Proceed
  <2>8. CASE Hash(l)
    BY <2>8 DEF Hash, Proceed
  <2>9. CASE Unpack(l)
    BY <2>9 DEF Unpack, Proceed
  <2>10. CASE Place(l)
    BY <2>10, AsksForVersion DEF Place
  <2>11. CASE Prune(l)
    BY <2>11, AsksForVersion DEF Prune, Without, Outdated
  <2>12. CASE CleanUp(l)
    BY <2>12, AsksForVersion DEF CleanUp, Without
  <2>13. CASE Fallback(l)
    BY <2>13 DEF Fallback, Proceed
  <2>14. CASE Exec(l)
    BY <2>14 DEF Exec, Proceed
  <2> QED BY <1>2, <2>1, <2>2, <2>3, <2>4, <2>5, <2>6, <2>7, <2>8, <2>9, <2>10, <2>11,
             <2>12, <2>13, <2>14 DEF AnyLaunchStep, LaunchStep
<1> QED BY <1>1, <1>2 DEF LauncherNext, AnyLaunchStep

-----------------------------------------------------------------------------
(* What is half done. *)

(* Every step leaves stages, downloads and folders without a binary only   *)
(* to launches at work.                                                    *)
LEMMA HalfDoneStep ==
    LaunchesKnown /\ HalfDoneIsUsed /\ [LauncherNext]_launchVars => HalfDoneIsUsed'
<1> SUFFICES ASSUME LaunchesKnown, HalfDoneIsUsed, [LauncherNext]_launchVars
             PROVE  HalfDoneIsUsed'
  OBVIOUS
<1> USE DEF LaunchPlaces, Busy, LaunchesKnown, HalfDoneIsUsed, StagesAreUsed, ShelvesAreUsed,
            FoldersAreUsed, AtWorkOn
<1>1. CASE UNCHANGED launchVars
  BY <1>1 DEF launchVars, cache
<1>2. ASSUME NEW l \in Launches, AnyLaunchStep(l) PROVE HalfDoneIsUsed'
  <2>1. CASE Start(l)
    BY <2>1, AsksForVersion DEF Start, cache
  <2>2. CASE BeginDownload(l)
    BY <2>2, AsksForVersion DEF BeginDownload, Touch
  <2>3. CASE EndDownload(l, FALSE)
    BY <2>3, AsksForVersion DEF EndDownload, Shelved, cache
  <2>4. CASE EndDownload(l, TRUE)
    BY <2>4, AsksForVersion DEF EndDownload, Shelved, cache
  <2>5. CASE DownloadLost(l)
    BY <2>5, AsksForVersion DEF DownloadLost, TryAgain, cache
  <2>6. CASE DownloadFails(l)
    BY <2>6, AsksForVersion DEF DownloadFails, TryAgain, cache
  <2>7. CASE ReadSidecar(l)
    BY <2>7, AsksForVersion DEF ReadSidecar, Proceed, cache
  <2>8. CASE Hash(l)
    BY <2>8, AsksForVersion DEF Hash, Proceed, cache
  <2>9. CASE Unpack(l)
    BY <2>9, AsksForVersion DEF Unpack, Proceed, cache
  <2>10. CASE Place(l)
    BY <2>10, AsksForVersion DEF Place, Touch, cache
  <2>11. CASE Prune(l)
    BY <2>11, AsksForVersion DEF Prune, Discard, Empty
  <2>12. CASE CleanUp(l)
    BY <2>12, AsksForVersion DEF CleanUp, Touch, Discard, Empty
  <2>13. CASE Fallback(l)
    BY <2>13, AsksForVersion DEF Fallback, Proceed, cache
  <2>14. CASE Exec(l)
    BY <2>14, AsksForVersion DEF Exec, Proceed, cache
  <2> QED BY <1>2, <2>1, <2>2, <2>3, <2>4, <2>5, <2>6, <2>7, <2>8, <2>9, <2>10, <2>11,
             <2>12, <2>13, <2>14 DEF AnyLaunchStep, LaunchStep
<1> QED BY <1>1, <1>2 DEF LauncherNext, AnyLaunchStep

-----------------------------------------------------------------------------
(* The theorems. *)

(* The invariant holds at first.                                           *)
LEMMA LauncherInvInit == LauncherInit => LauncherInv
<1> SUFFICES ASSUME LauncherInit PROVE LauncherInv
  OBVIOUS
<1>1. LaunchesKnown
  BY LaunchVersions DEF LauncherInit, NoFiles, LaunchesKnown, LaunchPlaces, Busy, Empty
<1>2. TempsAreDownloads /\ HalfDoneIsUsed
  BY DEF LauncherInit, NoFiles, TempsAreDownloads, HalfDoneIsUsed, StagesAreUsed,
         ShelvesAreUsed, FoldersAreUsed, Empty
<1>3. UnblamedAreUndisturbed
  BY DEF LauncherInit, NoFiles, UnblamedAreUndisturbed, Undisturbed, Busy
<1> QED BY <1>1, <1>2, <1>3 DEF LauncherInv

(* Launches at work own what is half done, and those that nothing          *)
(* disturbed find what they made, in every reachable state.                *)
THEOREM LauncherInvariantHolds == LauncherSpec => []LauncherInv
<1>1. LauncherInv /\ [LauncherNext]_launchVars => LauncherInv'
  BY KnownStep, UndisturbedStep, HalfDoneStep DEF LauncherInv
<1> QED BY <1>1, LauncherInvInit, PTL DEF LauncherSpec

(* A launch runs the version that it asked for, whatever launches of other *)
(* versions download, prune and remove, unless it met a fault, a launch of *)
(* its own version, or a prune of its version while it was at work.        *)
THEOREM LaunchesRunTheirVersion == LauncherSpec => []OtherVersionsDoNotDisturb
<1>1. LauncherInv => OtherVersionsDoNotDisturb
  BY DEF LauncherInv, UnblamedAreUndisturbed, Undisturbed, OtherVersionsDoNotDisturb
<1> QED BY <1>1, LauncherInvariantHolds, PTL

(* When all launches are over, no stage and no download is left, and every *)
(* version with a folder has its binary, however they overlapped, failed   *)
(* and pruned each other.                                                  *)
THEOREM CacheIsClean == LauncherSpec => []NothingIsLeft
<1>1. LauncherInv => NothingIsLeft
  <2> SUFFICES ASSUME LauncherInv, \A l \in Launches : lpc[l] \in {"run", "failed"}
               PROVE  /\ staged = {} /\ shelf = [v \in Versions |-> Empty]
                      /\ folders = packages
    BY DEF NothingIsLeft
  <2>1. \A v : ~AtWorkOn(v)
    BY DEF AtWorkOn, Busy
  <2>2. staged = {}
    BY DEF LauncherInv, HalfDoneIsUsed, StagesAreUsed, LaunchesKnown
  <2>3. folders = packages
    BY <2>1 DEF LauncherInv, HalfDoneIsUsed, FoldersAreUsed
  <2>4. shelf = [v \in Versions |-> Empty]
    BY <2>1 DEF LauncherInv, HalfDoneIsUsed, ShelvesAreUsed, LaunchesKnown, Empty
  <2> QED BY <2>2, <2>3, <2>4
<1> QED BY <1>1, LauncherInvariantHolds, PTL
===============================================================================
