------------------------------ MODULE NodeHash ------------------------------
(***************************************************************************)
(* The node hash of the scheduler agent.  The running agent keeps it in     *)
(* memory; a file caches it; a background loop discovers it from the        *)
(* network's posts; and the operator sets it with `set-node-hash`, which    *)
(* writes the file and sends SIGHUP to the process of the PID file.  The    *)
(* loop, the signal handler and the operator's command run concurrently,    *)
(* and files are written in two steps: truncated, then filled.              *)
(***************************************************************************)
EXTENDS FiniteSets, Integers

CONSTANTS
    Published,    \* corechan operations that the posts API returns at first
    Posts,        \* those that may be published meanwhile
    Domain,       \* --domain-name
    OwnHashes,    \* what the operator may set
    Unset,        \* no hash, no process
    Pids,         \* process ids
    MaxSets       \* bound on set-node-hash commands

ASSUME HashAssumption == Unset \notin Pids /\ "empty" \notin Pids

VARIABLES
    posts,      \* what the posts API returns
    hashFile,   \* <state_dir>/node-hash: Unset (missing), "empty" or a hash
    pidFile,    \* <state_dir>/scheduler-agent.pid: Unset, "empty" or a process
    agent,      \* the agent's process: [pid, state, explicit]
    mem,        \* node_hash_state
    disc,       \* node_hash_discovery_loop: [pc, found]
    hup,        \* the signal handler: [pending, read]
    op,         \* set-node-hash: [pc, hash, pid, n]
    adrift      \* history: discovery and the operator's change overlapped or the
                \* change was not signalled, and the agent has not read the file since

hashVars == <<posts, hashFile, pidFile, agent, mem, disc, hup, op, adrift>>

NoAgent == [pid |-> Unset, state |-> "down", explicit |-> FALSE]
NoDiscovery == [pc |-> "off", found |-> Unset]
NoSignal == [pending |-> FALSE, read |-> Unset]

HashInit ==
    /\ posts = Published
    /\ hashFile = Unset
    /\ pidFile = Unset
    /\ agent = NoAgent
    /\ mem = Unset
    /\ disc = NoDiscovery
    /\ hup = NoSignal
    /\ op = [pc |-> "idle", hash |-> Unset, pid |-> Unset, n |-> 0]
    /\ adrift = FALSE

OpBusy(o, h) == o.pc # "idle" \/ h # NoSignal
DiscBusy(d) == d.pc \in {"query", "truncate", "fill", "publish"}

\* Every step records whether the two changes overlap after it.
Watch == adrift' = (adrift \/ (OpBusy(op', hup') /\ DiscBusy(disc')))

\* What read_cached_hash makes of the file.
CachedHash == IF hashFile = "empty" THEN Unset ELSE hashFile

\* What read_pid makes of the PID file.
CachedPid == IF pidFile = "empty" THEN Unset ELSE pidFile

-----------------------------------------------------------------------------
(* discover_node_hash *)

\* A post is published; an address is its host in the operator's spelling.
Publish(p) ==
    /\ p \notin posts
    /\ posts' = posts \cup {p}
    /\ UNCHANGED <<hashFile, pidFile, agent, mem, disc, hup, op, adrift>>

\* Lower case, and without trailing slashes.
normalize_url(address) == address.host

\* Exactly one registration of a resource node has this node's URL.
Matching == {p \in posts : p.action = "create-resource-node" /\ normalize_url(p.address) = Domain}
discover_node_hash == IF Cardinality(Matching) = 1 THEN {p.hash : p \in Matching} ELSE {}

CheckHash ==
    /\ disc.pc = "check"
    /\ disc' = [disc EXCEPT !.pc = IF mem # Unset THEN "off" ELSE "query"]
    /\ UNCHANGED <<posts, hashFile, pidFile, agent, mem, hup, op>>
    /\ Watch

\* No match, several matches or an error: again in five minutes.
Query ==
    /\ disc.pc = "query"
    /\ \/ disc' = [disc EXCEPT !.pc = "check"]
       \/ \E h \in discover_node_hash : disc' = [pc |-> "truncate", found |-> h]
    /\ UNCHANGED <<posts, hashFile, pidFile, agent, mem, hup, op>>
    /\ Watch

\* write_cached_hash of the loop; when it fails the loop only warns.
DiscoveryWrites ==
    /\ \/ /\ disc.pc = "truncate"
          /\ hashFile' = "empty"
          /\ disc' = [disc EXCEPT !.pc = "fill"]
       \/ /\ disc.pc = "fill"
          /\ hashFile' = disc.found
          /\ disc' = [disc EXCEPT !.pc = "publish"]
       \/ /\ disc.pc \in {"truncate", "fill"}
          /\ disc' = [disc EXCEPT !.pc = "publish"]
          /\ UNCHANGED hashFile
    /\ UNCHANGED <<posts, pidFile, agent, mem, hup, op>>
    /\ Watch

PublishHash ==
    /\ disc.pc = "publish"
    /\ mem' = disc.found
    /\ disc' = NoDiscovery
    /\ UNCHANGED <<posts, hashFile, pidFile, agent, hup, op>>
    /\ Watch

-----------------------------------------------------------------------------
(* The agent's process *)

\* cmd_run writes the PID file before anything else: truncated, then filled.
StartAgent(pid) ==
    /\ agent = NoAgent
    /\ pidFile' = "empty"
    /\ \E explicit \in BOOLEAN :
          agent' = [pid |-> pid, state |-> "pidfile", explicit |-> explicit]
    /\ UNCHANGED <<posts, hashFile, mem, disc, hup, op, adrift>>

FillPid ==
    /\ agent.state = "pidfile"
    /\ pidFile' = agent.pid
    /\ agent' = [agent EXCEPT !.state = "starting"]
    /\ UNCHANGED <<posts, hashFile, mem, disc, hup, op, adrift>>

\* resolve_initial_hash: --node-hash, else the cached hash.  The loop is only
\* spawned without the flag, and if owner and domain are given.
Resolve ==
    /\ agent.state = "starting"
    /\ agent' = [agent EXCEPT !.state = "resolved"]
    /\ mem' \in IF agent.explicit THEN OwnHashes ELSE {CachedHash}
    /\ disc' \in {NoDiscovery} \cup
                 (IF agent.explicit THEN {} ELSE {[NoDiscovery EXCEPT !.pc = "check"]})
    /\ adrift' = FALSE
    /\ UNCHANGED <<posts, hashFile, pidFile, hup, op>>

\* The handler task registers the signal when it first runs.
InstallHandler ==
    /\ agent.state = "resolved"
    /\ agent' = [agent EXCEPT !.state = "up"]
    /\ UNCHANGED <<posts, hashFile, pidFile, mem, disc, hup, op, adrift>>

\* The process is gone, with the loop and the handler.
ProcessEnds ==
    /\ agent' = NoAgent
    /\ mem' = Unset
    /\ disc' = NoDiscovery
    /\ hup' = NoSignal

\* A clean shutdown removes the PID file.
Shutdown ==
    /\ agent.state = "up"
    /\ ProcessEnds
    /\ pidFile' = Unset
    /\ UNCHANGED <<posts, hashFile, op, adrift>>

\* A crash does not, and neither does an error of cmd_run.
AgentCrash ==
    /\ agent # NoAgent
    /\ ProcessEnds
    /\ UNCHANGED <<posts, hashFile, pidFile, op, adrift>>

\* sighup.recv, and the file is read; then the lock is taken.  An earlier
\* change that went astray is made good, unless the loop is at work.
SighupRead ==
    /\ hup.pending
    /\ hup.read = Unset
    /\ hup' = [pending |-> FALSE, read |-> CachedHash]
    /\ adrift' = DiscBusy(disc)
    /\ UNCHANGED <<posts, hashFile, pidFile, agent, mem, disc, op>>

\* Mutant: the handler keeps a hash that it already has.
SighupKeeps ==
    /\ hup.read # Unset
    /\ mem' = IF mem = Unset THEN hup.read ELSE mem
    /\ hup' = [hup EXCEPT !.read = Unset]
    /\ UNCHANGED <<posts, hashFile, pidFile, agent, disc, op>>
    /\ Watch

SighupApply ==
    /\ hup.read # Unset
    /\ mem' = hup.read
    /\ hup' = [hup EXCEPT !.read = Unset]
    /\ UNCHANGED <<posts, hashFile, pidFile, agent, disc, op>>
    /\ Watch

-----------------------------------------------------------------------------
(* set-node-hash *)

SetNodeHash(h) ==
    /\ op.pc = "idle"
    /\ op.n < MaxSets
    /\ op' = [pc |-> "fill", hash |-> h, pid |-> Unset, n |-> op.n + 1]
    /\ hashFile' = "empty"
    /\ UNCHANGED <<posts, pidFile, agent, mem, disc, hup>>
    /\ Watch

\* The write fails or the command is ended: the file stays empty.
FillHash ==
    /\ op.pc = "fill"
    /\ \/ hashFile' = op.hash /\ op' = [op EXCEPT !.pc = "pid"]
       \/ op' = [op EXCEPT !.pc = "idle"] /\ UNCHANGED hashFile
    /\ UNCHANGED <<posts, pidFile, agent, mem, disc, hup>>
    /\ Watch

ReadPid ==
    /\ op.pc = "pid"
    /\ op' = [op EXCEPT !.pc = IF CachedPid = Unset THEN "idle" ELSE "signal", !.pid = CachedPid]
    /\ UNCHANGED <<posts, hashFile, pidFile, agent, mem, disc, hup>>
    /\ Watch

\* kill -HUP: a process without the handler is killed by the signal, and a
\* process that is gone makes kill fail.
SendSighup ==
    /\ op.pc = "signal"
    /\ op' = [op EXCEPT !.pc = "idle", !.pid = Unset]
    /\ \/ /\ op.pid = agent.pid /\ agent.state = "up"
          /\ hup' = [hup EXCEPT !.pending = TRUE]
          /\ UNCHANGED <<agent, mem, disc>>
       \/ /\ op.pid = agent.pid /\ agent.state # "up"
          /\ ProcessEnds
       \/ /\ op.pid # agent.pid
          /\ UNCHANGED <<agent, mem, disc, hup>>
    /\ UNCHANGED <<posts, hashFile, pidFile>>
    /\ Watch

\* kill cannot be run or may not signal the process, which is only reported, or
\* the command itself is ended between the write and the signal.
SignalNotSent ==
    /\ op.pc \in {"pid", "signal"}
    /\ op' = [op EXCEPT !.pc = "idle", !.pid = Unset]
    /\ adrift' = TRUE
    /\ UNCHANGED <<posts, hashFile, pidFile, agent, mem, disc, hup>>

HashNext ==
    \/ \E p \in Posts : Publish(p)
    \/ CheckHash \/ Query \/ DiscoveryWrites \/ PublishHash
    \/ (\E pid \in Pids : StartAgent(pid)) \/ FillPid \/ Resolve \/ InstallHandler \/ Shutdown \/ AgentCrash
    \/ SighupRead \/ SighupApply
    \/ (\E h \in OwnHashes : SetNodeHash(h)) \/ FillHash \/ ReadPid \/ SendSighup \/ SignalNotSent

-----------------------------------------------------------------------------
(* Properties *)

\* Once nothing is under way, an agent that was started without --node-hash
\* has the hash of the file: what the operator set has reached it, or what it
\* discovered has been cached, although the agent may have crashed, been killed
\* by the signal or started anew at any step of the two.  Three things put the
\* file and the memory out of step, until the agent is started or signalled
\* again: a set-node-hash that overlaps the discovery, one that is ended before
\* it sends the signal, and one whose kill fails.
HashAgrees ==
    /\ agent.state = "up" /\ ~agent.explicit
    /\ ~OpBusy(op, hup) /\ disc.pc = "off" /\ ~adrift
    /\ CachedHash # Unset
    => mem = CachedHash

=============================================================================
