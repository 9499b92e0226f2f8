-------------------------- MODULE VolumeCacheProof --------------------------
(* Proof, for any number of tasks, volumes and inodes, that a file of the     *)
(* volume cache that no two tasks downloaded at once is complete.             *)
EXTENDS VolumeCache, TLAPS

\* What a download relies on: the temporary name and the final name never refer
\* to the same inode; a task that has a file of the volume open has the one the
\* temporary name refers to, alone, and has written it before it renames it.
DownloadsSound ==
    \A v \in Volumes \ overlapped :
        /\ tmp[v] # NoInode => tmp[v] # local[v]
        /\ \A t \in Tasks : HasOpen(t, v) =>
              /\ dl[t].ino = tmp[v]
              /\ dl[t].pc = "rename" => data[v][dl[t].ino] = "full"
              /\ \A u \in Tasks : HasOpen(u, v) => u = t

CacheInv == CacheTypeOK /\ DownloadsSound /\ CachedVolumeComplete

-----------------------------------------------------------------------------

\* A fresh inode is one that the volume does not use.
LEMMA FreshInode ==
    ASSUME NEW v, Unused(v) # {}
    PROVE  (CHOOSE i \in Unused(v) : TRUE) \in Unused(v)
BY Zenon

\* The cache starts with complete files only.
LEMMA CacheInitInv == CacheInit => CacheInv
<1> SUFFICES ASSUME CacheInit PROVE CacheInv
    OBVIOUS
<1>1. FirstInode \in Inodes
    BY CacheAssumption, Zenon DEF FirstInode
<1>2. CacheTypeOK
    BY <1>1, CacheAssumption DEF CacheInit, CacheTypeOK, NoDownload
<1>3. DownloadsSound
    BY DEF CacheInit, DownloadsSound, HasOpen, NoDownload
<1>4. CachedVolumeComplete
    BY <1>1, CacheAssumption DEF CacheInit, CachedVolumeComplete
<1> QED
    BY <1>2, <1>3, <1>4 DEF CacheInv

\* Creating the temporary file: it is either the one left by a download that
\* failed, or new; in neither case the file under the final name.
LEMMA CreateTmpInv ==
    ASSUME CacheInv, NEW t \in Tasks, CreateTmp(t)
    PROVE  CacheInv'
<1> DEFINE v == dl[t].vol
           ino == IF tmp[v] = NoInode THEN CHOOSE i \in Unused(v) : TRUE ELSE tmp[v]
<1> USE CacheAssumption
<1>1. /\ v \in Volumes
      /\ dl[t].ino = NoInode
    BY DEF CacheInv, CacheTypeOK, CreateTmp
<1>2. tmp[v] # NoInode => ino \in Inodes
    BY <1>1 DEF CacheInv, CacheTypeOK
<1>3. ASSUME tmp[v] = NoInode PROVE ino \in Unused(v)
    <2>1. Unused(v) # {}
        BY <1>3 DEF CreateTmp
    <2>2. QED
        BY <1>3, <2>1, FreshInode
<1>4. /\ ino \in Inodes
      /\ tmp[v] = NoInode => ino # local[v]
    BY <1>2, <1>3 DEF Unused
<1>5. /\ tmp' = [tmp EXCEPT ![v] = ino]
      /\ data' = [data EXCEPT ![v][ino] = "partial"]
      /\ dl' = [dl EXCEPT ![t] = [pc |-> "write", vol |-> v, ino |-> ino]]
      /\ overlapped' = IF \E u \in Tasks \ {t} : HasOpen(u, v)
                       THEN overlapped \cup {v} ELSE overlapped
      /\ local' = local
    BY DEF CreateTmp
<1> HIDE DEF v, ino
<1>6. CacheTypeOK'
    BY <1>1, <1>4, <1>5 DEF CacheInv, CacheTypeOK
<1>7. \A w \in Volumes \ overlapped' : w = v => ino # local[w]
    BY <1>1, <1>4, <1>5 DEF CacheInv, DownloadsSound, ino
<1>8. \A w \in Volumes \ overlapped' : w = v => \A u \in Tasks : HasOpen(u, w)' => u = t
    BY <1>1, <1>5 DEF HasOpen, CacheInv, CacheTypeOK
<1>9. DownloadsSound'
    <2> SUFFICES ASSUME NEW w \in Volumes \ overlapped'
                 PROVE  /\ tmp'[w] # NoInode => tmp'[w] # local'[w]
                        /\ \A u \in Tasks : HasOpen(u, w)' =>
                              /\ dl'[u].ino = tmp'[w]
                              /\ dl'[u].pc = "rename" => data'[w][dl'[u].ino] = "full"
                              /\ \A x \in Tasks : HasOpen(x, w)' => x = u
        BY Zenon DEF DownloadsSound, HasOpen
    <2>1. CASE w = v
        BY <2>1, <1>1, <1>4, <1>5, <1>7, <1>8 DEF CacheInv, CacheTypeOK, HasOpen
    <2>2. CASE w # v
        <3>1. w \in Volumes \ overlapped
            BY <1>5
        <3>2. tmp'[w] = tmp[w] /\ data'[w] = data[w]
            BY <2>2, <1>1, <1>5 DEF CacheInv, CacheTypeOK
        <3>3. \A u \in Tasks : HasOpen(u, w)' => HasOpen(u, w) /\ dl'[u] = dl[u]
            BY <2>2, <1>1, <1>5 DEF CacheInv, CacheTypeOK, HasOpen
        <3>4. QED
            BY <3>1, <3>2, <3>3, <1>5 DEF CacheInv, DownloadsSound
    <2>3. QED
        BY <2>1, <2>2
<1>10. CachedVolumeComplete'
    <2> SUFFICES ASSUME NEW w \in Volumes \ overlapped', local[w] # NoInode
                 PROVE  data'[w][local[w]] = "full"
        BY <1>5 DEF CachedVolumeComplete
    <2>1. data[w][local[w]] = "full"
        BY <1>5 DEF CacheInv, CachedVolumeComplete
    <2>2. QED
        BY <2>1, <1>1, <1>4, <1>5, <1>7 DEF CacheInv, CacheTypeOK
<1> QED
    BY <1>6, <1>9, <1>10 DEF CacheInv

\* Writing the body: the file is not the one under the final name.
LEMMA WriteBodyInv ==
    ASSUME CacheInv, NEW t \in Tasks, WriteBody(t)
    PROVE  CacheInv'
<1> USE CacheAssumption
<1>1. /\ dl[t].vol \in Volumes
      /\ dl[t].ino \in Inodes
      /\ dl[t].ino # NoInode
    BY DEF CacheInv, CacheTypeOK, WriteBody
<1>2. CacheTypeOK'
    BY <1>1 DEF CacheInv, CacheTypeOK, WriteBody
<1>3. \A u \in Tasks : dl'[u].vol = dl[u].vol /\ dl'[u].ino = dl[u].ino
    BY DEF CacheInv, CacheTypeOK, WriteBody
<1>4. DownloadsSound'
    BY <1>1, <1>3 DEF CacheInv, CacheTypeOK, DownloadsSound, HasOpen, WriteBody
<1>5. CachedVolumeComplete'
    BY <1>1 DEF CacheInv, CacheTypeOK, CachedVolumeComplete, WriteBody
<1> QED
    BY <1>2, <1>4, <1>5 DEF CacheInv

\* The rename gives the final name to the file the task itself has written.
LEMMA RenameInv ==
    ASSUME CacheInv, NEW t \in Tasks, Rename(t)
    PROVE  CacheInv'
<1> USE CacheAssumption
<1>1. /\ dl[t].vol \in Volumes
      /\ dl[t].ino # NoInode
      /\ HasOpen(t, dl[t].vol)
    BY DEF CacheInv, CacheTypeOK, Rename, HasOpen
<1>2. CacheTypeOK'
    BY <1>1 DEF CacheInv, CacheTypeOK, Rename
<1>3. \A u \in Tasks, v \in Volumes :
          HasOpen(u, v)' => u # t /\ HasOpen(u, v) /\ dl'[u] = dl[u]
    BY <1>1 DEF CacheInv, CacheTypeOK, HasOpen, Rename
<1>4. DownloadsSound'
    BY <1>1, <1>3 DEF CacheInv, CacheTypeOK, DownloadsSound, Rename
<1>5. CachedVolumeComplete'
    BY <1>1 DEF CacheInv, CacheTypeOK, DownloadsSound, CachedVolumeComplete, Rename
<1> QED
    BY <1>2, <1>4, <1>5 DEF CacheInv

\* The steps that touch no file leave no task with a file it did not have.
LEMMA OtherStepsInv ==
    ASSUME CacheInv,
           \/ \E t \in Tasks : DownloadFails(t) \/ Take(t) \/ \E v \in Volumes : EnsureCached(t, v)
           \/ CacheRestart
    PROVE  CacheInv'
<1> USE CacheAssumption
<1>1. UNCHANGED <<tmp, local, data, overlapped>>
    BY DEF DownloadFails, Take, EnsureCached, CacheRestart
<1>2. CacheTypeOK'
    <2>1. ASSUME NEW t \in Tasks, DownloadFails(t) PROVE CacheTypeOK'
        BY <2>1 DEF CacheInv, CacheTypeOK, DownloadFails
    <2>2. ASSUME NEW t \in Tasks, Take(t) PROVE CacheTypeOK'
        BY <2>2 DEF CacheInv, CacheTypeOK, Take, NoDownload
    <2>3. ASSUME NEW t \in Tasks, NEW v \in Volumes, EnsureCached(t, v) PROVE CacheTypeOK'
        BY <2>3 DEF CacheInv, CacheTypeOK, EnsureCached
    <2>4. CASE CacheRestart
        BY <2>4 DEF CacheInv, CacheTypeOK, CacheRestart, NoDownload
    <2>5. QED
        BY <2>1, <2>2, <2>3, <2>4
<1>3. \A u \in Tasks : dl'[u] = dl[u] \/ dl'[u].ino = NoInode
    BY DEF CacheInv, CacheTypeOK, DownloadFails, Take, EnsureCached, CacheRestart, NoDownload
<1>4. DownloadsSound'
    BY <1>1, <1>3 DEF CacheInv, DownloadsSound, HasOpen
<1>5. CachedVolumeComplete'
    BY <1>1 DEF CacheInv, CachedVolumeComplete
<1> QED
    BY <1>2, <1>4, <1>5 DEF CacheInv

LEMMA CacheNextInv == CacheInv /\ [CacheNext]_cache => CacheInv'
<1> SUFFICES ASSUME CacheInv, [CacheNext]_cache PROVE CacheInv'
    OBVIOUS
<1>1. CASE UNCHANGED cache
    BY <1>1 DEF CacheInv, CacheTypeOK, DownloadsSound, CachedVolumeComplete, HasOpen, cache
<1>2. ASSUME NEW t \in Tasks, CreateTmp(t) PROVE CacheInv'
    BY <1>2, CreateTmpInv
<1>3. ASSUME NEW t \in Tasks, WriteBody(t) PROVE CacheInv'
    BY <1>3, WriteBodyInv
<1>4. ASSUME NEW t \in Tasks, Rename(t) PROVE CacheInv'
    BY <1>4, RenameInv
<1>5. CASE \/ \E t \in Tasks : DownloadFails(t) \/ Take(t) \/ \E v \in Volumes : EnsureCached(t, v)
           \/ CacheRestart
    BY <1>5, OtherStepsInv
<1> QED
    BY <1>1, <1>2, <1>3, <1>4, <1>5 DEF CacheNext, Download

\* ensure_cached never leaves an incomplete file under a volume's final name,
\* whatever fails and whenever the agent restarts, for volumes that no two
\* tasks downloaded at once (volumes.rs:37-99).
THEOREM CachedComplete == CacheSpec => []CachedVolumeComplete
<1>1. CacheInv => CachedVolumeComplete
    BY DEF CacheInv
<1> QED
    BY <1>1, CacheInitInv, CacheNextInv, PTL DEF CacheSpec

\* The variables of the cache keep their types; a task has an inode exactly
\* while it has a file open.
THEOREM CacheTyped == CacheSpec => []CacheTypeOK
<1>1. CacheInv => CacheTypeOK
    BY DEF CacheInv
<1> QED
    BY <1>1, CacheInitInv, CacheNextInv, PTL DEF CacheSpec

=============================================================================
