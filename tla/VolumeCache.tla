----------------------------- MODULE VolumeCache -----------------------------
(***************************************************************************)
(* VolumeCache::ensure_cached of the scheduler agent: volumes are           *)
(* downloaded into {hash}.tmp and renamed to {hash}, by one task per        *)
(* allocation being handled and without a lock.  File names refer to        *)
(* inodes: creating {hash}.tmp when it exists truncates the file that       *)
(* another task has open, and a task keeps writing to the inode it opened,  *)
(* whatever the name refers to by then.                                     *)
(***************************************************************************)
CONSTANTS
    Tasks,     \* the tasks that may download
    Volumes,   \* cached files: a category and an item hash
    Cached,    \* the volumes that an earlier run of the agent downloaded
    Inodes,    \* the inodes a file of the cache may have
    NoInode    \* no inode, and no volume

ASSUME CacheAssumption ==
    /\ Cached \subseteq Volumes
    /\ Inodes # {}
    /\ NoInode \notin Inodes \cup Volumes

VARIABLES
    tmp,         \* the inode of {hash}.tmp
    local,       \* the inode of {hash}
    data,        \* what each inode of a volume holds
    dl,          \* the ensure_cached call of each task
    overlapped   \* history: volumes that two tasks had open at once

cache == <<tmp, local, data, dl, overlapped>>

NoDownload == [pc |-> "idle", vol |-> NoInode, ino |-> NoInode]

FirstInode == CHOOSE i \in Inodes : TRUE

CacheInit ==
    /\ tmp = [v \in Volumes |-> NoInode]
    /\ local = [v \in Volumes |-> IF v \in Cached THEN FirstInode ELSE NoInode]
    /\ data = [v \in Volumes |-> [i \in Inodes |-> IF v \in Cached THEN "full" ELSE "none"]]
    /\ dl = [t \in Tasks |-> NoDownload]
    /\ overlapped = {}

\* A file that is there is returned without another look at it.
EnsureCached(t, v) ==
    /\ dl[t].pc = "idle"
    /\ dl' = [dl EXCEPT ![t] =
                 [pc |-> IF local[v] # NoInode THEN "ok" ELSE "create", vol |-> v, ino |-> NoInode]]
    /\ UNCHANGED <<tmp, local, data, overlapped>>

HasOpen(t, v) == dl[t].vol = v /\ dl[t].ino # NoInode

\* A new file gets an inode that no name and no open file refers to.
Unused(v) ==
    {i \in Inodes : i # local[v] /\ i # tmp[v] /\ \A t \in Tasks : HasOpen(t, v) => dl[t].ino # i}

\* The connector has answered: File::create makes or truncates the temporary file.
CreateTmp(t) ==
    LET v   == dl[t].vol
        ino == IF tmp[v] = NoInode THEN CHOOSE i \in Unused(v) : TRUE ELSE tmp[v]
    IN /\ dl[t].pc = "create"
       /\ tmp[v] # NoInode \/ Unused(v) # {}
       /\ tmp' = [tmp EXCEPT ![v] = ino]
       /\ data' = [data EXCEPT ![v][ino] = "partial"]
       /\ dl' = [dl EXCEPT ![t] = [pc |-> "write", vol |-> v, ino |-> ino]]
       /\ overlapped' = IF \E u \in Tasks \ {t} : HasOpen(u, v)
                        THEN overlapped \cup {v} ELSE overlapped
       /\ UNCHANGED local

\* Mutant: the file is renamed before it is written.
RenameFirst(t) ==
    /\ dl[t].pc = "write"
    /\ tmp[dl[t].vol] # NoInode
    /\ local' = [local EXCEPT ![dl[t].vol] = tmp[dl[t].vol]]
    /\ tmp' = [tmp EXCEPT ![dl[t].vol] = NoInode]
    /\ dl' = [dl EXCEPT ![t] = [pc |-> "ok", vol |-> dl[t].vol, ino |-> NoInode]]
    /\ UNCHANGED <<data, overlapped>>

\* The body has arrived and is written and flushed.
WriteBody(t) ==
    /\ dl[t].pc = "write"
    /\ data' = [data EXCEPT ![dl[t].vol][dl[t].ino] = "full"]
    /\ dl' = [dl EXCEPT ![t].pc = "rename"]
    /\ UNCHANGED <<tmp, local, overlapped>>

\* rename takes whatever the temporary name refers to now.
Rename(t) ==
    /\ dl[t].pc = "rename"
    /\ tmp[dl[t].vol] # NoInode
    /\ local' = [local EXCEPT ![dl[t].vol] = tmp[dl[t].vol]]
    /\ tmp' = [tmp EXCEPT ![dl[t].vol] = NoInode]
    /\ dl' = [dl EXCEPT ![t] = [pc |-> "ok", vol |-> dl[t].vol, ino |-> NoInode]]
    /\ UNCHANGED <<data, overlapped>>

\* The connector does not answer or breaks off, a write fails, or another
\* task has renamed the temporary file; the temporary file stays.
DownloadFails(t) ==
    /\ \/ dl[t].pc \in {"create", "write"}
       \/ dl[t].pc = "rename" /\ tmp[dl[t].vol] = NoInode
    /\ dl' = [dl EXCEPT ![t] = [pc |-> "err", vol |-> dl[t].vol, ino |-> NoInode]]
    /\ UNCHANGED <<tmp, local, data, overlapped>>

\* translate_message goes on with the next volume, or returns.
Take(t) ==
    /\ dl[t].pc \in {"ok", "err"}
    /\ dl' = [dl EXCEPT ![t] = NoDownload]
    /\ UNCHANGED <<tmp, local, data, overlapped>>

\* The agent is restarted: the calls are gone and the files stay.
CacheRestart ==
    /\ dl' = [t \in Tasks |-> NoDownload]
    /\ UNCHANGED <<tmp, local, data, overlapped>>

Download(t) == CreateTmp(t) \/ WriteBody(t) \/ Rename(t) \/ DownloadFails(t)

CacheNext ==
    \/ \E t \in Tasks : Download(t) \/ Take(t) \/ \E v \in Volumes : EnsureCached(t, v)
    \/ CacheRestart

CacheSpec == CacheInit /\ [][CacheNext]_cache

-----------------------------------------------------------------------------
(* Properties *)

\* Every variable has its type.
CacheTypeOK ==
    /\ tmp \in [Volumes -> Inodes \cup {NoInode}]
    /\ local \in [Volumes -> Inodes \cup {NoInode}]
    /\ data \in [Volumes -> [Inodes -> {"none", "partial", "full"}]]
    /\ dl \in [Tasks -> [pc : {"idle", "create", "write", "rename", "ok", "err"},
                         vol : Volumes \cup {NoInode}, ino : Inodes \cup {NoInode}]]
    /\ \A t \in Tasks : dl[t].pc # "idle" => dl[t].vol \in Volumes
    /\ \A t \in Tasks : dl[t].ino # NoInode <=> dl[t].pc \in {"write", "rename"}
    /\ overlapped \subseteq Volumes

\* A file under its final name is complete, after failed downloads and after
\* restarts in the middle of one, unless two tasks once downloaded it at the
\* same time: then one may have truncated what the other renamed.
CachedVolumeComplete ==
    \A v \in Volumes \ overlapped : local[v] # NoInode => data[v][local[v]] = "full"

=============================================================================
