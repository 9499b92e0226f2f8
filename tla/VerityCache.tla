----------------------------- MODULE VerityCache -----------------------------
(***************************************************************************)
(* ensure_verity: the hash tree and the root hash of an image are kept in   *)
(* two files next to it and computed again when the image is newer than     *)
(* the root hash file.  veritysetup salts every tree anew, so two runs over *)
(* the same image give different root hashes.  Creates run concurrently,    *)
(* each blocking a thread of the runtime, without a lock.                   *)
(***************************************************************************)
EXTENDS Integers

CONSTANTS
    Creates,      \* create_vm calls that use the image
    NoTree,       \* no file, no hash
    MaxClock,     \* bound on the clock of the file system
    MaxFormats    \* bound on runs of veritysetup

ASSUME VerityAssumption ==
    /\ NoTree \notin [version : Nat, salt : Nat]
    /\ MaxFormats \in Nat

VARIABLES
    clock,      \* the time that files are stamped with
    image,      \* the root file system: [version, mtime]
    tree,       \* {image}.verity: NoTree or [version, salt]
    roothash,   \* {image}.roothash: [of, mtime]; of = NoTree when it is empty
    formats,    \* salts used
    verity,     \* the ensure_verity call of each create: [pc, hash]
    vRaced      \* history: calls overlapped, or the image changed under one

verityVars == <<clock, image, tree, roothash, formats, verity, vRaced>>

NoRootHash == [of |-> NoTree, mtime |-> -1]
NoVerity   == [pc |-> "idle", hash |-> NoTree]

VerityInit ==
    /\ clock = 0
    /\ image = [version |-> 0, mtime |-> 0]
    /\ tree = NoTree
    /\ roothash = NoRootHash
    /\ formats = 0
    /\ verity = [c \in Creates |-> NoVerity]
    /\ vRaced = FALSE

Computing(c) == verity[c].pc \in {"format", "truncate", "fill"}

\* Mutant: files that exist are used, whatever their age.
CacheIsValidAtAnyAge == tree # NoTree /\ roothash # NoRootHash

CacheIsValid == tree # NoTree /\ roothash # NoRootHash /\ roothash.mtime >= image.mtime

\* A valid cache answers at once, also with an empty root hash.
EnsureVerity(c) ==
    /\ verity[c] = NoVerity
    /\ verity' = [verity EXCEPT ![c] = IF CacheIsValid
                                       THEN [pc |-> "done", hash |-> roothash.of]
                                       ELSE [pc |-> "format", hash |-> NoTree]]
    /\ vRaced' = (vRaced \/ \E d \in Creates \ {c} : Computing(d))
    /\ UNCHANGED <<clock, image, tree, roothash, formats>>

\* veritysetup format writes the tree and prints the root hash.
Format(c) ==
    LET t == [version |-> image.version, salt |-> formats]
    IN /\ verity[c].pc = "format"
       /\ formats < MaxFormats
       /\ formats' = formats + 1
       /\ tree' = t
       /\ verity' = [verity EXCEPT ![c] = [pc |-> "truncate", hash |-> t]]
       /\ vRaced' = (vRaced \/ \E d \in Creates \ {c} : verity[d] # NoVerity)
       /\ UNCHANGED <<clock, image, roothash>>

\* std::fs::write of the root hash: the file is truncated, then filled.
TruncateHash(c) ==
    /\ verity[c].pc = "truncate"
    /\ roothash' = [of |-> NoTree, mtime |-> clock]
    /\ verity' = [verity EXCEPT ![c].pc = "fill"]
    /\ UNCHANGED <<clock, image, tree, formats, vRaced>>

FillRootHash(c) ==
    /\ verity[c].pc = "fill"
    /\ roothash' = [of |-> verity[c].hash, mtime |-> clock]
    /\ verity' = [verity EXCEPT ![c].pc = "done"]
    /\ UNCHANGED <<clock, image, tree, formats, vRaced>>

\* The create goes on with the hash and the tree file, or it fails: veritysetup
\* or a write did not work.
VerityEnds(c) ==
    /\ verity[c] # NoVerity
    /\ verity' = [verity EXCEPT ![c] = NoVerity]
    /\ UNCHANGED <<clock, image, tree, roothash, formats, vRaced>>

\* The image is replaced by a newer one.
ReplaceImage ==
    /\ image.version < MaxClock
    /\ image' = [version |-> image.version + 1, mtime |-> clock]
    /\ vRaced' = (vRaced \/ roothash.mtime = clock \/ \E c \in Creates : verity[c] # NoVerity)
    /\ UNCHANGED <<clock, tree, roothash, formats, verity>>

Tick ==
    /\ clock < MaxClock
    /\ clock' = clock + 1
    /\ UNCHANGED <<image, tree, roothash, formats, verity, vRaced>>

\* The orchestrator is restarted: the files stay as they are.
VerityCrash ==
    /\ verity' = [c \in Creates |-> NoVerity]
    /\ UNCHANGED <<clock, image, tree, roothash, formats, vRaced>>

VerityNext ==
    \/ \E c \in Creates :
          EnsureVerity(c) \/ Format(c) \/ TruncateHash(c) \/ FillRootHash(c) \/ VerityEnds(c)
    \/ ReplaceImage \/ Tick \/ VerityCrash

-----------------------------------------------------------------------------
(* Properties *)

\* The root hash a create gets is the one of the tree file, and that tree is
\* of the image as it is now, through failures and restarts at any step.  Two
\* exceptions: creates or a replacement of the image that overlapped or fell
\* into one tick of the clock, and an empty root hash, which a restart or a
\* failure between the truncation and the write leaves behind as a valid cache.
RootHashMatchesTree ==
    \A c \in Creates :
        verity[c].pc = "done" /\ verity[c].hash # NoTree /\ ~vRaced =>
            verity[c].hash = tree /\ tree.version = image.version

=============================================================================
