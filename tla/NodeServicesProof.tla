--------------------------- MODULE NodeServicesProof ---------------------------
(* Proofs about the services around the VM manager, one after the other: each  *)
(* for its own specification and any value of its constants, and in the end    *)
(* for the specification that the model checker runs, where they stand side by *)
(* side.                                                                       *)
EXTENDS NodeServices, FiniteSetTheorems, TLAPS

-----------------------------------------------------------------------------
(* The node hash of the scheduler agent *)

HashSpec == HashInit /\ [][HashNext]_hashVars

\* Every hash that anybody may have set or published.
KnownHashes == OwnHashes \cup {p.hash : p \in posts}

HashTypeOK ==
    /\ hashFile \in KnownHashes \cup {Unset, "empty"}
    /\ pidFile \in Pids \cup {Unset, "empty"}
    /\ agent \in [pid : Pids \cup {Unset}, state : {"down", "pidfile", "starting", "resolved", "up"},
                  explicit : BOOLEAN]
    /\ mem \in KnownHashes \cup {Unset}
    /\ disc \in [pc : {"off", "check", "query", "truncate", "fill", "publish"},
                 found : KnownHashes \cup {Unset}]
    /\ hup \in [pending : BOOLEAN, read : KnownHashes \cup {Unset}]
    /\ op \in [pc : {"idle", "fill", "pid", "signal"}, hash : OwnHashes \cup {Unset},
               pid : Pids \cup {Unset}, n : Nat]

\* The process, the loop and the handler are there together, and the PID file
\* names the process.
ProcessOK ==
    /\ agent = NoAgent <=> agent.state = "down"
    /\ agent.pid # Unset <=> agent.state # "down"
    /\ agent.state \notin {"down", "pidfile"} => pidFile = agent.pid
    /\ hup # NoSignal => agent.state = "up"
    /\ disc.pc # "off" => agent.state \in {"resolved", "up"} /\ ~agent.explicit

\* The operator's change is still on its way to the agent, or there is none.
Covered ==
    \/ CachedHash = Unset
    \/ op.pc = "pid"
    \/ op.pc = "signal" /\ op.pid = agent.pid
    \/ hup.pending

\* While the loop is at work the agent has no hash and the file has none but
\* what the loop found; otherwise what the agent has, or is about to take, is
\* the hash of the file or the change is still on its way.
InStep ==
    /\ DiscBusy(disc) =>
          /\ ~OpBusy(op, hup)
          /\ mem = Unset
          /\ CachedHash # Unset => disc.pc = "publish" /\ CachedHash = disc.found
    /\ ~DiscBusy(disc) =>
          Covered \/ CachedHash = IF hup.read = Unset THEN mem ELSE hup.read

HashInv ==
    /\ HashTypeOK
    /\ ProcessOK
    /\ ~adrift /\ ~agent.explicit /\ agent.state \in {"resolved", "up"} => InStep

LEMMA HashInitInv == HashInit => HashInv
BY DEF HashInit, HashInv, HashTypeOK, ProcessOK, NoAgent, NoDiscovery, NoSignal

\* The steps of node_hash_discovery_loop.
LEMMA CheckHashInv == ASSUME HashInv, CheckHash PROVE HashInv'
<1>1. HashTypeOK' /\ ProcessOK'
  BY DEF HashInv, HashTypeOK, ProcessOK, KnownHashes, CheckHash
<1>2. ASSUME ~adrift', ~agent'.explicit, agent'.state \in {"resolved", "up"} PROVE InStep'
  <2>1. InStep /\ ~DiscBusy(disc) /\ disc'.pc \in {"off", "query"}
    BY <1>2 DEF HashInv, HashTypeOK, CheckHash, Watch, DiscBusy
  <2>2. UNCHANGED <<hashFile, mem, hup, op, agent>>
    BY DEF CheckHash
  <2>3. CASE disc'.pc = "off"
    BY <2>1, <2>2, <2>3 DEF InStep, Covered, DiscBusy, CachedHash
  <2>4. CASE disc'.pc = "query"
    <3>1. ~OpBusy(op, hup) /\ mem = Unset
      BY <1>2, <2>2, <2>4 DEF Watch, DiscBusy, CheckHash, HashInv, HashTypeOK
    <3>2. hup = NoSignal /\ op.pc = "idle"
      BY <3>1 DEF OpBusy
    <3>3. CachedHash = Unset
      BY <2>1, <3>1, <3>2 DEF InStep, Covered, NoSignal
    <3> QED
      <4>1. CachedHash' = Unset /\ mem' = Unset /\ ~OpBusy(op', hup')
        BY <2>2, <3>1, <3>3 DEF CachedHash
      <4>2. DiscBusy(disc')
        BY <2>4 DEF DiscBusy
      <4> QED
        BY <4>1, <4>2 DEF InStep
  <2> QED
    BY <2>1, <2>3, <2>4
<1> QED
  BY <1>1, <1>2 DEF HashInv

LEMMA QueryInv == ASSUME HashInv, Query PROVE HashInv'
<1>1. disc'.pc \in {"check", "truncate"} /\ disc.pc = "query"
  BY DEF Query, HashInv, HashTypeOK
<1>2. UNCHANGED <<posts, hashFile, pidFile, agent, mem, hup, op>>
  BY DEF Query
<1>3. HashTypeOK'
  <2>1. \A h \in discover_node_hash : h \in KnownHashes
    BY DEF discover_node_hash, Matching, KnownHashes
  <2>2. disc' \in [pc : {"off", "check", "query", "truncate", "fill", "publish"},
                   found : KnownHashes \cup {Unset}]
    BY <2>1 DEF Query, HashInv, HashTypeOK
  <2> QED
    BY <1>2, <2>2 DEF HashInv, HashTypeOK, KnownHashes
<1>4. ProcessOK'
  BY <1>1, <1>2 DEF HashInv, ProcessOK
<1>5. ASSUME ~adrift', ~agent'.explicit, agent'.state \in {"resolved", "up"} PROVE InStep'
  <2>1. InStep /\ DiscBusy(disc)
    BY <1>1, <1>2, <1>5 DEF HashInv, Query, Watch, DiscBusy
  <2>2. CachedHash = Unset /\ mem = Unset /\ ~OpBusy(op, hup)
    BY <1>1, <2>1 DEF InStep
  <2> QED
    <3>1. CachedHash' = Unset /\ mem' = Unset /\ ~OpBusy(op', hup')
      BY <1>2, <2>2 DEF CachedHash
    <3> QED
      BY <3>1 DEF InStep, Covered
<1> QED
  BY <1>3, <1>4, <1>5 DEF HashInv

LEMMA DiscoveryWritesInv == ASSUME HashInv, DiscoveryWrites PROVE HashInv'
<1>0. KnownHashes' = KnownHashes
  BY DEF KnownHashes, DiscoveryWrites
<1>1. HashTypeOK'
  BY <1>0 DEF HashInv, HashTypeOK, DiscoveryWrites
<1>2. ProcessOK'
  BY DEF HashInv, HashTypeOK, ProcessOK, OpBusy, NoSignal, DiscoveryWrites
<1>3. ASSUME ~adrift', ~agent'.explicit, agent'.state \in {"resolved", "up"} PROVE InStep'
  BY <1>1, <1>3 DEF HashInv, HashTypeOK, ProcessOK, InStep, Covered, CachedHash, OpBusy, DiscBusy, NoSignal, Watch, DiscoveryWrites
<1> QED
  BY <1>1, <1>2, <1>3 DEF HashInv

LEMMA PublishHashInv == ASSUME HashInv, PublishHash PROVE HashInv'
<1>1. disc.pc = "publish" /\ mem' = disc.found /\ disc' = NoDiscovery
  BY DEF PublishHash
<1>2. UNCHANGED <<posts, hashFile, pidFile, agent, hup, op>>
  BY DEF PublishHash
<1>3. HashTypeOK' /\ ProcessOK'
  BY <1>1, <1>2 DEF HashInv, HashTypeOK, ProcessOK, KnownHashes, NoDiscovery
<1>4. ASSUME ~adrift', ~agent'.explicit, agent'.state \in {"resolved", "up"} PROVE InStep'
  <2>1. InStep /\ DiscBusy(disc)
    BY <1>1, <1>2, <1>4 DEF HashInv, PublishHash, Watch, DiscBusy
  <2>2. hup = NoSignal /\ CachedHash \in {Unset, mem'}
    BY <1>1, <2>1 DEF InStep, OpBusy
  <2> QED
    BY <1>1, <1>2, <2>2 DEF InStep, Covered, CachedHash, NoSignal, NoDiscovery, DiscBusy
<1> QED
  BY <1>3, <1>4 DEF HashInv

\* The life of the agent's process.
LEMMA StartAgentInv == ASSUME HashInv, NEW pid \in Pids, StartAgent(pid) PROVE HashInv'
BY HashAssumption DEF HashInv, HashTypeOK, ProcessOK, InStep, Covered, StartAgent, CachedHash, OpBusy, DiscBusy, KnownHashes, NoAgent, NoSignal

LEMMA FillPidInv == ASSUME HashInv, FillPid PROVE HashInv'
<1>1. /\ agent.state = "pidfile" /\ agent' = [agent EXCEPT !.state = "starting"]
      /\ pidFile' = agent.pid /\ UNCHANGED <<posts, hashFile, mem, disc, hup, op, adrift>>
  BY DEF FillPid
<1>2. /\ agent'.state = "starting" /\ agent'.pid = agent.pid /\ agent.pid # Unset
      /\ agent'.pid \in Pids /\ agent' \in [pid : Pids \cup {Unset},
              state : {"down", "pidfile", "starting", "resolved", "up"}, explicit : BOOLEAN]
  BY <1>1 DEF HashInv, HashTypeOK, ProcessOK
<1>3. HashTypeOK'
  BY <1>1, <1>2 DEF HashInv, HashTypeOK, KnownHashes
<1>4. ProcessOK'
  BY <1>1, <1>2 DEF HashInv, ProcessOK, NoAgent
<1> QED
  BY <1>2, <1>3, <1>4 DEF HashInv

LEMMA ResolveInv == ASSUME HashInv, Resolve PROVE HashInv'
<1>1. /\ agent' = [agent EXCEPT !.state = "resolved"] /\ agent.state = "starting"
      /\ UNCHANGED <<posts, hashFile, pidFile, hup, op>>
  BY DEF Resolve
<1>2. mem' \in KnownHashes \cup {Unset}
  BY DEF Resolve, HashInv, HashTypeOK, CachedHash, KnownHashes
<1>3. /\ disc' \in {NoDiscovery, [NoDiscovery EXCEPT !.pc = "check"]}
      /\ disc' # NoDiscovery => ~agent.explicit
  BY DEF Resolve
<1>4. disc'.pc \in {"off", "check"} /\ disc'.found = Unset /\ (disc'.pc # "off" => ~agent.explicit)
  BY <1>3 DEF NoDiscovery
<1>5. HashTypeOK'
  BY <1>1, <1>2, <1>3 DEF HashInv, HashTypeOK, KnownHashes, NoDiscovery
<1>6. ProcessOK'
  BY <1>1, <1>4 DEF HashInv, HashTypeOK, ProcessOK, NoAgent
<1>7. ASSUME ~agent'.explicit PROVE InStep'
  <2>1. mem' = CachedHash /\ hup = NoSignal
    BY <1>1, <1>7 DEF Resolve, HashInv, HashTypeOK, ProcessOK
  <2> QED
    BY <1>1, <1>4, <2>1 DEF InStep, Covered, CachedHash, NoSignal, DiscBusy
<1> QED
  BY <1>5, <1>6, <1>7 DEF HashInv

LEMMA InstallHandlerInv == ASSUME HashInv, InstallHandler PROVE HashInv'
BY DEF HashInv, HashTypeOK, ProcessOK, InStep, Covered, InstallHandler, CachedHash, OpBusy, DiscBusy, KnownHashes, NoAgent, NoSignal

LEMMA ShutdownInv == ASSUME HashInv, Shutdown PROVE HashInv'
BY HashAssumption DEF HashInv, HashTypeOK, ProcessOK, Shutdown, ProcessEnds, KnownHashes, NoAgent, NoSignal, NoDiscovery

LEMMA AgentCrashInv == ASSUME HashInv, AgentCrash PROVE HashInv'
BY HashAssumption DEF HashInv, HashTypeOK, ProcessOK, AgentCrash, ProcessEnds, KnownHashes, NoAgent, NoSignal, NoDiscovery

\* The signal handler.
LEMMA SighupReadInv == ASSUME HashInv, SighupRead PROVE HashInv'
BY DEF HashInv, HashTypeOK, ProcessOK, InStep, Covered, SighupRead, Watch, CachedHash, OpBusy, DiscBusy, KnownHashes, NoSignal

LEMMA SighupApplyInv == ASSUME HashInv, SighupApply PROVE HashInv'
<1>1. /\ hup.read # Unset /\ mem' = hup.read /\ hup' = [hup EXCEPT !.read = Unset]
      /\ UNCHANGED <<posts, hashFile, pidFile, agent, disc, op>>
  BY DEF SighupApply
<1>2. HashTypeOK'
  BY <1>1 DEF HashInv, HashTypeOK, KnownHashes
<1>3. ProcessOK'
  BY <1>1 DEF HashInv, HashTypeOK, ProcessOK, NoSignal
<1>4. ASSUME ~adrift', ~agent'.explicit, agent'.state \in {"resolved", "up"} PROVE InStep'
  <2>1. InStep
    BY <1>1, <1>4 DEF HashInv, SighupApply, Watch
  <2>2. ~DiscBusy(disc) /\ ~DiscBusy(disc')
    BY <1>1, <2>1 DEF InStep, OpBusy, NoSignal
  <2> QED
    BY <1>1, <2>1, <2>2 DEF InStep, Covered, CachedHash, HashInv, HashTypeOK
<1> QED
  BY <1>2, <1>3, <1>4 DEF HashInv

\* The operator's command.
LEMMA SetNodeHashInv == ASSUME HashInv, NEW h \in OwnHashes, SetNodeHash(h) PROVE HashInv'
<1>0. KnownHashes' = KnownHashes
  BY DEF KnownHashes, SetNodeHash
<1>1. HashTypeOK'
  BY <1>0 DEF HashInv, HashTypeOK, SetNodeHash
<1>2. ProcessOK'
  BY DEF HashInv, HashTypeOK, ProcessOK, OpBusy, NoSignal, SetNodeHash
<1>3. ASSUME ~adrift', ~agent'.explicit, agent'.state \in {"resolved", "up"} PROVE InStep'
  BY <1>1, <1>3 DEF HashInv, HashTypeOK, ProcessOK, InStep, Covered, CachedHash, OpBusy, DiscBusy, NoSignal, Watch, SetNodeHash
<1> QED
  BY <1>1, <1>2, <1>3 DEF HashInv

LEMMA FillHashInv == ASSUME HashInv, FillHash PROVE HashInv'
<1>1. /\ op.pc = "fill" /\ UNCHANGED <<posts, pidFile, agent, mem, disc, hup>>
      /\ \/ hashFile' = op.hash /\ op' = [op EXCEPT !.pc = "pid"]
         \/ op' = [op EXCEPT !.pc = "idle"] /\ UNCHANGED hashFile
  BY DEF FillHash
<1>2. HashTypeOK'
  BY <1>1 DEF HashInv, HashTypeOK, KnownHashes
<1>3. ProcessOK'
  BY <1>1 DEF HashInv, HashTypeOK, ProcessOK
<1>4. ASSUME ~adrift', ~agent'.explicit, agent'.state \in {"resolved", "up"} PROVE InStep'
  <2>1. InStep
    BY <1>1, <1>4 DEF HashInv, FillHash, Watch
  <2>2. ~DiscBusy(disc)
    BY <1>1, <2>1 DEF InStep, OpBusy
  <2> QED
    BY <1>1, <2>1, <2>2 DEF InStep, Covered, CachedHash, HashInv, HashTypeOK, DiscBusy
<1> QED
  BY <1>2, <1>3, <1>4 DEF HashInv

LEMMA ReadPidInv == ASSUME HashInv, ReadPid PROVE HashInv'
<1>1. /\ op.pc = "pid" /\ UNCHANGED <<posts, hashFile, pidFile, agent, mem, disc, hup>>
      /\ op' = [op EXCEPT !.pc = IF CachedPid = Unset THEN "idle" ELSE "signal", !.pid = CachedPid]
  BY DEF ReadPid
<1>2. op'.pc = (IF CachedPid = Unset THEN "idle" ELSE "signal") /\ op'.pid = CachedPid
  BY <1>1 DEF HashInv, HashTypeOK
<1>3. HashTypeOK'
  <2>1. CachedPid \in Pids \cup {Unset}
    BY DEF HashInv, HashTypeOK, CachedPid
  <2>2. op' \in [pc : {"idle", "fill", "pid", "signal"}, hash : OwnHashes \cup {Unset},
                 pid : Pids \cup {Unset}, n : Nat]
    BY <1>1, <2>1 DEF HashInv, HashTypeOK
  <2> QED
    BY <1>1, <2>2 DEF HashInv, HashTypeOK, KnownHashes
<1>4. ProcessOK'
  BY <1>1 DEF HashInv, ProcessOK
<1>5. ASSUME ~adrift', ~agent'.explicit, agent'.state \in {"resolved", "up"} PROVE InStep'
  <2>1. InStep
    BY <1>1, <1>5 DEF HashInv, ReadPid, Watch
  <2>2. ~DiscBusy(disc)
    BY <1>1, <2>1 DEF InStep, OpBusy
  <2>3. pidFile = agent.pid /\ agent.pid \in Pids
    <3>1. UNCHANGED agent /\ agent.state \notin {"down", "pidfile"}
      BY <1>1, <1>5
    <3> QED
      BY <3>1 DEF HashInv, HashTypeOK, ProcessOK
  <2>4. CachedPid = agent.pid /\ CachedPid # Unset
    BY <2>3, HashAssumption DEF CachedPid
  <2> QED
    BY <1>1, <1>2, <2>2, <2>4 DEF InStep, Covered, DiscBusy
<1> QED
  BY <1>3, <1>4, <1>5 DEF HashInv

LEMMA SendSighupInv == ASSUME HashInv, SendSighup PROVE HashInv'
<1>1. /\ op.pc = "signal" /\ op' = [op EXCEPT !.pc = "idle", !.pid = Unset]
      /\ UNCHANGED <<posts, hashFile, pidFile>>
  BY DEF SendSighup
<1>2. op' \in [pc : {"idle", "fill", "pid", "signal"}, hash : OwnHashes \cup {Unset},
               pid : Pids \cup {Unset}, n : Nat]
  BY <1>1 DEF HashInv, HashTypeOK
<1>3. CASE ProcessEnds
  <2>1. HashTypeOK'
    BY <1>1, <1>2, <1>3 DEF HashInv, HashTypeOK, KnownHashes, ProcessEnds, NoAgent, NoSignal, NoDiscovery
  <2>2. ProcessOK' /\ agent'.state = "down"
    BY <1>3 DEF ProcessEnds, ProcessOK, NoAgent, NoDiscovery
  <2> QED
    BY <2>1, <2>2 DEF HashInv
<1>4. CASE op.pid = agent.pid /\ agent.state = "up"
  <2>1. hup' = [hup EXCEPT !.pending = TRUE] /\ UNCHANGED <<agent, mem, disc>>
    BY <1>4 DEF SendSighup
  <2>2. hup'.pending
    BY <2>1 DEF HashInv, HashTypeOK
  <2>3. HashTypeOK'
    <3>1. hup' \in [pending : BOOLEAN, read : KnownHashes \cup {Unset}]
      BY <2>1 DEF HashInv, HashTypeOK
    <3> QED
      BY <1>1, <1>2, <2>1, <3>1 DEF HashInv, HashTypeOK, KnownHashes
  <2>4. ProcessOK'
    BY <1>1, <1>4, <2>1 DEF HashInv, ProcessOK
  <2>5. ASSUME ~adrift', ~agent'.explicit PROVE InStep'
    <3>1. InStep
      BY <1>4, <2>1, <2>5 DEF HashInv, SendSighup, Watch
    <3>2. ~DiscBusy(disc)
      BY <1>1, <3>1 DEF InStep, OpBusy
    <3> QED
      BY <2>1, <2>2, <3>2 DEF InStep, Covered, DiscBusy
  <2> QED
    BY <2>3, <2>4, <2>5 DEF HashInv
<1>5. CASE op.pid # agent.pid /\ UNCHANGED <<agent, mem, disc, hup>>
  <2>1. HashTypeOK'
    BY <1>1, <1>2, <1>5 DEF HashInv, HashTypeOK, KnownHashes
  <2>2. ProcessOK'
    BY <1>1, <1>5 DEF HashInv, ProcessOK
  <2>3. ASSUME ~adrift', ~agent'.explicit, agent'.state \in {"resolved", "up"} PROVE InStep'
    <3>1. InStep
      BY <1>5, <2>3 DEF HashInv, SendSighup, Watch
    <3>2. ~DiscBusy(disc)
      BY <1>1, <3>1 DEF InStep, OpBusy
    <3> QED
      BY <1>1, <1>5, <3>1, <3>2 DEF InStep, Covered, DiscBusy, CachedHash
  <2> QED
    BY <2>1, <2>2, <2>3 DEF HashInv
<1> QED
  BY <1>3, <1>4, <1>5 DEF SendSighup

LEMMA SignalNotSentInv == ASSUME HashInv, SignalNotSent PROVE HashInv'
<1>1. /\ adrift' = TRUE /\ op' = [op EXCEPT !.pc = "idle", !.pid = Unset]
      /\ UNCHANGED <<posts, hashFile, pidFile, agent, mem, disc, hup>>
  BY DEF SignalNotSent
<1>2. op' \in [pc : {"idle", "fill", "pid", "signal"}, hash : OwnHashes \cup {Unset},
               pid : Pids \cup {Unset}, n : Nat]
  BY <1>1 DEF HashInv, HashTypeOK
<1>3. HashTypeOK'
  BY <1>1, <1>2 DEF HashInv, HashTypeOK, KnownHashes
<1>4. ProcessOK'
  BY <1>1 DEF HashInv, ProcessOK
<1> QED
  BY <1>1, <1>3, <1>4 DEF HashInv

LEMMA PostPublishedInv == ASSUME HashInv, NEW p \in Posts, Publish(p) PROVE HashInv'
BY DEF HashInv, HashTypeOK, ProcessOK, InStep, Covered, Publish, CachedHash, OpBusy, DiscBusy, KnownHashes, NoSignal

LEMMA HashNextInv == HashInv /\ [HashNext]_hashVars => HashInv'
<1> SUFFICES ASSUME HashInv, [HashNext]_hashVars PROVE HashInv'
  OBVIOUS
<1>1. CASE UNCHANGED hashVars
  BY <1>1 DEF HashInv, HashTypeOK, ProcessOK, InStep, Covered, CachedHash, OpBusy, DiscBusy, KnownHashes, hashVars
<1>2. CASE HashNext
  BY <1>2, CheckHashInv, QueryInv, DiscoveryWritesInv, PublishHashInv, StartAgentInv, FillPidInv, ResolveInv,
     InstallHandlerInv, ShutdownInv, AgentCrashInv, SighupReadInv, SighupApplyInv, SetNodeHashInv,
     FillHashInv, ReadPidInv, SendSighupInv, SignalNotSentInv, PostPublishedInv DEF HashNext
<1> QED
  BY <1>1, <1>2

LEMMA HashInvAgrees == HashInv => HashAgrees
BY DEF HashInv, HashTypeOK, InStep, Covered, HashAgrees, OpBusy, DiscBusy, NoSignal

\* Whatever the agent's process goes through on the way, it ends up with the
\* hash of the file: a set-node-hash reaches it, and what it discovered is
\* cached, unless the two overlapped or the signal was not sent and the agent
\* has not read the file since (node_hash.rs:72-161; main.rs:297-396: the loop,
\* the SIGHUP handler and set-node-hash).
THEOREM HashReaches == HashSpec => []HashAgrees
BY HashInvAgrees, HashInitInv, HashNextInv, PTL DEF HashSpec

-----------------------------------------------------------------------------
(* The NDP proxy *)

NdpSpec == NdpInit /\ [][NdpNext]_ndpVars

\* The call that holds the mutex is the one in update_config; what it has
\* built is the map, which nobody can change meanwhile; and what it has written
\* is in the file, unless a late write has hit it.
NdpInv ==
    /\ ranges \in [Taps -> {NoRange, Range1}]
    /\ snapshot \in [Taps -> {NoRange, Range1}]
    /\ late \subseteq [Taps -> {NoRange, Range1}]
    /\ overlaid \in BOOLEAN
    /\ ndpCall \in [Callers -> {"idle", "update", "write", "fill", "restart"}]
    /\ ndpLock \in Callers \cup {NoCaller}
    /\ \A c \in Callers : ndpLock = c <=> ndpCall[c] \in {"write", "fill", "restart"}
    /\ \A c \in Callers : ndpCall[c] \in {"write", "fill", "restart"} => snapshot = ranges
    /\ \A c \in Callers : ndpCall[c] = "restart" /\ ~overlaid => conf = ranges
    /\ (\A c \in Callers : ndpCall[c] = "idle") /\ ~stale =>
          served = ranges /\ (~overlaid => conf = ranges)

LEMMA NdpInitInv == NdpInit => NdpInv
BY NdpAssumption DEF NdpInit, NdpInv, NoRanges

LEMMA NdpNextInv == NdpInv /\ [NdpNext]_ndpVars => NdpInv'
<1> SUFFICES ASSUME NdpInv, [NdpNext]_ndpVars PROVE NdpInv'
    OBVIOUS
<1> USE NdpAssumption
<1>1. CASE UNCHANGED ndpVars
    BY <1>1 DEF NdpInv, ndpVars
<1>2. ASSUME NEW c \in Callers, NEW t \in Taps, NEW r \in {NoRange, Range1},
             ChangeRange(c, t, r)
      PROVE  NdpInv'
    BY <1>2 DEF NdpInv, ChangeRange, NdpGoto
<1>3. ASSUME NEW c \in Callers, BuildConfig(c) PROVE NdpInv'
    BY <1>3 DEF NdpInv, BuildConfig, NdpGoto
<1>4. ASSUME NEW c \in Callers, TruncateConf(c) PROVE NdpInv'
    BY <1>4 DEF NdpInv, TruncateConf, NdpGoto
<1>5. ASSUME NEW c \in Callers, FillConf(c) PROVE NdpInv'
    BY <1>5 DEF NdpInv, FillConf, NdpGoto
<1>6. ASSUME NEW c \in Callers, RestartNdppd(c) PROVE NdpInv'
    BY <1>6 DEF NdpInv, RestartNdppd, NdpGoto
<1>7. ASSUME NEW c \in Callers, UpdateFails(c) PROVE NdpInv'
    BY <1>7 DEF NdpInv, UpdateFails, NdpGoto
<1>8. ASSUME NEW c \in Callers, CallDropped(c) PROVE NdpInv'
    <2>1. /\ ndpCall' = [ndpCall EXCEPT ![c] = "idle"] /\ stale' = TRUE
          /\ UNCHANGED <<ranges, snapshot, conf, served, overlaid>>
        BY <1>8 DEF CallDropped, NdpGoto
    <2>2. late' \subseteq [Taps -> {NoRange, Range1}]
        BY <1>8 DEF NdpInv, CallDropped
    <2>3. ndpLock' \in Callers \cup {NoCaller}
        BY <1>8 DEF NdpInv, CallDropped
    <2>4. \A d \in Callers : ndpLock' = d <=> ndpCall'[d] \in {"write", "fill", "restart"}
        BY <1>8, <2>1 DEF NdpInv, CallDropped
    <2> QED
        BY <2>1, <2>2, <2>3, <2>4 DEF NdpInv
<1>9. CASE LateTruncate
    BY <1>9 DEF NdpInv, LateTruncate
<1>10. ASSUME NEW text \in late, LateFill(text) PROVE NdpInv'
    BY <1>10 DEF NdpInv, LateFill
<1>11. CASE NdppdRestarts
    BY <1>11 DEF NdpInv, NdppdRestarts
<1>12. CASE NdpProxyNew
    BY <1>12 DEF NdpInv, NdpProxyNew, NoRanges
<1> QED
    BY <1>1, <1>2, <1>3, <1>4, <1>5, <1>6, <1>7, <1>8, <1>9, <1>10, <1>11, <1>12 DEF NdpNext

\* NdpProxy: add_range and delete_range release the mutex before update_config
\* takes it again, and still never lose each other's change, through failures,
\* dropped calls with late writes, and restarts of ndppd and the orchestrator:
\* the next update that works puts things right (ndp_proxy.rs:19-82).
THEOREM NdpServes == NdpSpec => []NdpServesRanges
<1>1. NdpInv => NdpServesRanges
    BY DEF NdpInv, NdpServesRanges
<1> QED
    BY <1>1, NdpInitInv, NdpNextInv, PTL DEF NdpSpec

-----------------------------------------------------------------------------
(* The dm-verity cache *)

VeritySpec == VerityInit /\ [][VerityNext]_verityVars

Trees == [version : Nat, salt : Nat]

VerityTypeOK ==
    /\ clock \in Nat
    /\ image \in [version : Nat, mtime : Nat]
    /\ image.mtime <= clock
    /\ tree \in Trees \cup {NoTree}
    /\ roothash \in [of : Trees \cup {NoTree}, mtime : Nat \cup {-1}]
    /\ roothash.mtime <= clock
    /\ formats \in 0..MaxFormats
    /\ verity \in [Creates -> [pc : {"idle", "format", "truncate", "fill", "done"},
                               hash : Trees \cup {NoTree}]]
    /\ vRaced \in BOOLEAN

\* The hash file is of no use before it is written anew.
Stale == roothash = NoRootHash \/ roothash.mtime < image.mtime

\* A call that computes is alone with the files; a hash that was handed out,
\* or is about to be written, is the one of the tree and of the image; and so
\* is the content of the hash file, unless it is older than the image or empty.
VeritySound ==
    /\ roothash # NoRootHash => tree # NoTree
    /\ \A c \in Creates :
          /\ verity[c].pc \in {"format", "truncate"} => Stale
          /\ verity[c].pc \in {"truncate", "fill"} =>
                \A d \in Creates \ {c} : verity[d] = NoVerity
          /\ verity[c].pc = "format" => \A d \in Creates \ {c} : ~Computing(d)
          /\ verity[c].pc \in {"truncate", "fill"} =>
                verity[c].hash = tree /\ tree \in Trees /\ tree.version = image.version
          /\ verity[c].pc = "done" /\ verity[c].hash # NoTree =>
                verity[c].hash = tree /\ tree \in Trees /\ tree.version = image.version
    /\ Stale \/ roothash.of = NoTree \/
          (roothash.of = tree /\ tree \in Trees /\ tree.version = image.version)

VerityInv == VerityTypeOK /\ (~vRaced => VeritySound)

LEMMA VerityInitInv == VerityInit => VerityInv
<1> SUFFICES ASSUME VerityInit PROVE VerityInv
    OBVIOUS
<1>1. NoRootHash \in [of : Trees \cup {NoTree}, mtime : Nat \cup {-1}] /\ NoRootHash.mtime = -1
    BY DEF NoRootHash
<1>2. NoVerity.pc = "idle" /\ NoVerity.hash = NoTree
    BY DEF NoVerity
<1>3. \A c \in Creates : verity[c] = NoVerity
    BY DEF VerityInit
<1>4. VerityTypeOK
    <2>1. NoVerity \in [pc : {"idle", "format", "truncate", "fill", "done"},
                        hash : Trees \cup {NoTree}]
        BY DEF NoVerity
    <2>2. verity \in [Creates -> [pc : {"idle", "format", "truncate", "fill", "done"},
                                  hash : Trees \cup {NoTree}]]
        BY <2>1 DEF VerityInit
    <2>3. image \in [version : Nat, mtime : Nat] /\ image.mtime = 0
        BY DEF VerityInit
    <2>4. roothash \in [of : Trees \cup {NoTree}, mtime : Nat \cup {-1}] /\ roothash.mtime = -1
        BY <1>1 DEF VerityInit
    <2>5. tree \in Trees \cup {NoTree}
        BY DEF VerityInit
    <2>6. /\ clock \in Nat /\ formats \in 0..MaxFormats
          /\ image.mtime <= clock /\ roothash.mtime <= clock
        <3>1. clock = 0 /\ formats = 0
            BY DEF VerityInit
        <3>2. QED
            BY <2>3, <2>4, <3>1, VerityAssumption
    <2>7. vRaced \in BOOLEAN
        BY DEF VerityInit
    <2>8. QED
        BY <2>2, <2>3, <2>4, <2>5, <2>6, <2>7 DEF VerityTypeOK
<1>5. VeritySound
    BY <1>2, <1>3 DEF VerityInit, VeritySound, Stale, Computing
<1> QED
    BY <1>4, <1>5 DEF VerityInv

LEMMA EnsureVerityInv ==
    ASSUME VerityInv, NEW c \in Creates, EnsureVerity(c)
    PROVE  VerityInv'
<1>1. VerityTypeOK'
    BY DEF VerityInv, VerityTypeOK, EnsureVerity, NoVerity
<1>2. ASSUME ~vRaced' PROVE VeritySound'
    <2>1. VeritySound /\ \A d \in Creates \ {c} : ~Computing(d)
        BY <1>2 DEF VerityInv, EnsureVerity
    <2>2. \A d \in Creates \ {c} : verity'[d] = verity[d]
        BY DEF EnsureVerity, VerityInv, VerityTypeOK
    <2>3. CASE CacheIsValid
        BY <2>1, <2>2, <2>3 DEF EnsureVerity, VeritySound, VerityInv, VerityTypeOK, CacheIsValid,
                                Computing, Stale
    <2>4. CASE ~CacheIsValid
        BY <2>1, <2>2, <2>4 DEF EnsureVerity, VeritySound, VerityInv, VerityTypeOK, CacheIsValid,
                                Computing, Stale
    <2>5. QED
        BY <2>3, <2>4
<1> QED
    BY <1>1, <1>2 DEF VerityInv

LEMMA FormatInv ==
    ASSUME VerityInv, NEW c \in Creates, Format(c)
    PROVE  VerityInv'
<1>1. VerityTypeOK'
    BY VerityAssumption DEF VerityInv, VerityTypeOK, Format, Trees
<1>2. ASSUME ~vRaced' PROVE VeritySound'
    <2>1. VeritySound /\ \A d \in Creates \ {c} : verity[d] = NoVerity
        BY <1>2 DEF VerityInv, Format
    <2>2. \A d \in Creates \ {c} : verity'[d] = NoVerity
        BY <2>1 DEF Format, VerityInv, VerityTypeOK
    <2>3. /\ verity'[c] = [pc |-> "truncate", hash |-> tree']
          /\ tree' \in Trees
          /\ tree'.version = image.version
        BY DEF Format, VerityInv, VerityTypeOK, Trees
    <2>4. Stale /\ Stale'
        BY <2>1 DEF Format, VeritySound, Stale
    <2>5. tree' # NoTree
        BY <2>3, VerityAssumption DEF Trees
    <2>6. NoVerity.pc = "idle" /\ verity'[c].pc = "truncate" /\ verity'[c].hash = tree'
        BY <2>3 DEF NoVerity
    <2>7. image' = image
        BY DEF Format
    <2>8. Stale' \/ roothash'.of = NoTree
        BY <2>4
    <2>9. QED
        BY <2>2, <2>3, <2>4, <2>5, <2>6, <2>7, <2>8, Zenon DEF VeritySound, Computing
<1> QED
    BY <1>1, <1>2 DEF VerityInv

LEMMA TruncateHashInv ==
    ASSUME VerityInv, NEW c \in Creates, TruncateHash(c)
    PROVE  VerityInv'
<1>1. VerityTypeOK'
    BY DEF VerityInv, VerityTypeOK, TruncateHash
<1>2. ASSUME ~vRaced' PROVE VeritySound'
    <2>1. VeritySound /\ verity[c].pc \in {"truncate", "fill"}
        BY <1>2 DEF VerityInv, TruncateHash
    <2>2. \A d \in Creates \ {c} : verity'[d] = NoVerity
        BY <2>1 DEF TruncateHash, VeritySound, VerityInv, VerityTypeOK
    <2>3. /\ verity[c].hash = tree
          /\ tree \in Trees
          /\ tree # NoTree
          /\ tree.version = image.version
        BY <2>1, VerityAssumption DEF VeritySound, Trees
    <2>4. verity'[c].pc = "fill" /\ verity'[c].hash = tree /\ NoVerity.pc = "idle"
        BY <2>3 DEF TruncateHash, VerityInv, VerityTypeOK, NoVerity
    <2>5. roothash' = [of |-> NoTree, mtime |-> clock]
        BY DEF TruncateHash
    <2>6. tree' = tree /\ image' = image
        BY DEF TruncateHash
    <2>7. QED
        BY <2>2, <2>3, <2>4, <2>5, <2>6 DEF VeritySound, Computing
<1> QED
    BY <1>1, <1>2 DEF VerityInv

LEMMA FillRootHashInv ==
    ASSUME VerityInv, NEW c \in Creates, FillRootHash(c)
    PROVE  VerityInv'
<1>1. VerityTypeOK'
    BY DEF VerityInv, VerityTypeOK, FillRootHash
<1>2. ASSUME ~vRaced' PROVE VeritySound'
    <2>1. VeritySound /\ verity[c].pc \in {"truncate", "fill"}
        BY <1>2 DEF VerityInv, FillRootHash
    <2>2. \A d \in Creates \ {c} : verity'[d] = NoVerity
        BY <2>1 DEF FillRootHash, VeritySound, VerityInv, VerityTypeOK
    <2>3. /\ verity[c].hash = tree
          /\ tree \in Trees
          /\ tree # NoTree
          /\ tree.version = image.version
        BY <2>1, VerityAssumption DEF VeritySound, Trees
    <2>4. verity'[c].pc = "done" /\ verity'[c].hash = tree /\ NoVerity.pc = "idle"
        BY <2>3 DEF FillRootHash, VerityInv, VerityTypeOK, NoVerity
    <2>5. roothash' = [of |-> tree, mtime |-> clock]
        BY <2>1, <2>3 DEF FillRootHash
    <2>6. tree' = tree /\ image' = image
        BY DEF FillRootHash
    <2>7. QED
        BY <2>2, <2>3, <2>4, <2>5, <2>6 DEF VeritySound, Computing
<1> QED
    BY <1>1, <1>2 DEF VerityInv

LEMMA CallsEndInv ==
    ASSUME VerityInv, VerityCrash \/ \E c \in Creates : VerityEnds(c)
    PROVE  VerityInv'
<1>1. VerityTypeOK'
    BY DEF VerityInv, VerityTypeOK, VerityCrash, VerityEnds, NoVerity
<1>2. \A d \in Creates : verity'[d] = NoVerity \/ verity'[d] = verity[d]
    BY DEF VerityInv, VerityTypeOK, VerityCrash, VerityEnds
<1>3. ASSUME ~vRaced' PROVE VeritySound'
    BY <1>2, <1>3 DEF VerityInv, VeritySound, VerityCrash, VerityEnds, Stale, Computing, NoVerity
<1> QED
    BY <1>1, <1>3 DEF VerityInv

LEMMA ReplaceImageInv ==
    ASSUME VerityInv, ReplaceImage
    PROVE  VerityInv'
<1>1. VerityTypeOK'
    BY DEF VerityInv, VerityTypeOK, ReplaceImage
<1>2. ASSUME ~vRaced' PROVE VeritySound'
    <2>1. VeritySound /\ roothash.mtime # clock /\ \A c \in Creates : verity[c] = NoVerity
        BY <1>2 DEF VerityInv, ReplaceImage
    <2>2. Stale'
        BY <2>1 DEF Stale, ReplaceImage, VerityInv, VerityTypeOK
    <2>3. QED
        BY <2>1, <2>2 DEF VeritySound, ReplaceImage, NoVerity, Computing
<1> QED
    BY <1>1, <1>2 DEF VerityInv

LEMMA VerityNextInv == VerityInv /\ [VerityNext]_verityVars => VerityInv'
<1> SUFFICES ASSUME VerityInv, [VerityNext]_verityVars PROVE VerityInv'
    OBVIOUS
<1>1. CASE UNCHANGED verityVars
    BY <1>1 DEF VerityInv, VerityTypeOK, VeritySound, Stale, Computing, verityVars
<1>2. ASSUME NEW c \in Creates, EnsureVerity(c) PROVE VerityInv'
    BY <1>2, EnsureVerityInv
<1>3. ASSUME NEW c \in Creates, Format(c) PROVE VerityInv'
    BY <1>3, FormatInv
<1>4. ASSUME NEW c \in Creates, TruncateHash(c) PROVE VerityInv'
    BY <1>4, TruncateHashInv
<1>5. ASSUME NEW c \in Creates, FillRootHash(c) PROVE VerityInv'
    BY <1>5, FillRootHashInv
<1>6. CASE VerityCrash \/ \E c \in Creates : VerityEnds(c)
    BY <1>6, CallsEndInv
<1>7. CASE ReplaceImage
    BY <1>7, ReplaceImageInv
<1>8. CASE Tick
    BY <1>8 DEF VerityInv, VerityTypeOK, VeritySound, Stale, Computing, Tick
<1> QED
    BY <1>1, <1>2, <1>3, <1>4, <1>5, <1>6, <1>7, <1>8 DEF VerityNext

\* ensure_verity hands out a root hash that belongs to the tree file and to the
\* image, through restarts at any step (verity.rs:20-79).
THEOREM RootHashMatches == VeritySpec => []RootHashMatchesTree
<1>1. VerityInv => RootHashMatchesTree
    BY DEF VerityInv, VeritySound, RootHashMatchesTree
<1> QED
    BY <1>1, VerityInitInv, VerityNextInv, PTL DEF VeritySpec

-----------------------------------------------------------------------------
(* The hugepage pools *)

PagesSpec == PagesInit /\ [][PagesNext]_pageVars

\* The loop is inside the topology, what it has not come to is as detected, and
\* no pool it has made larger is too large.
PagesInv ==
    /\ host \in Hosts /\ headroom \in Headrooms /\ limit \in Limits \cup {NoLimit}
    /\ next \in 1..Len(host) + 1
    /\ pool \in [1..Len(host) -> Nat]
    /\ pages \in [1..Len(host) -> Nat]
    /\ failed \subseteq tried /\ tried \subseteq 1..next - 1
    /\ \A i \in next..Len(host) : pool[i] = host[i].spages
    /\ PagesLeaveHeadroom

\* The topology is a sequence, and what it says of a node is in range.
LEMMA HostFacts ==
    ASSUME PagesInv
    PROVE  /\ Len(host) \in Nat
           /\ \A i \in 1..Len(host) :
                 /\ host[i].ram \in 0..Word - 1
                 /\ host[i].gpages \in Nat /\ host[i].spages \in Nat
                 /\ host[i].gpages * MbPerGb \in 0..host[i].ram
<1>1. host \in Seq(NumaNodes) /\ host \in Hosts
  BY HugepagesAssumption DEF PagesInv
<1>2. \A i \in 1..Len(host) : host[i] \in NumaNodes
  BY <1>1
<1>3. \A g \in Nat : g * MbPerGb \in Nat
  BY HugepagesAssumption
<1> QED
  BY <1>1, <1>2, <1>3, HugepagesAssumption DEF NumaNodes

\* The cap is a number, also when the sum has wrapped.
LEMMA CapIsNat ==
    ASSUME PagesInv, Len(host) > 0
    PROVE  PerNodeCap \in Nat
<1>1. Len(host) \in Nat \ {0}
  BY HostFacts
<1>2. IsFiniteSet(AllRam)
  <2>1. IsFiniteSet(1..Len(host)) /\ IsFiniteSet(1..Word)
    BY <1>1, HugepagesAssumption, FS_Interval
  <2>2. IsFiniteSet((1..Len(host)) \X (1..Word))
    BY <2>1, FS_Product
  <2> QED
    BY <2>2, FS_Subset DEF AllRam
<1>3. Cardinality(AllRam) \in Nat
  BY <1>2, FS_CardinalityType
<1>4. Cardinality(AllRam) % Word \in Nat
  BY <1>3, HugepagesAssumption
<1>5. limit # NoLimit => limit \in Nat
  BY HugepagesAssumption DEF PagesInv
<1>6. \A a \in Nat, b \in Nat \ {0} : a \div b \in Nat
  OBVIOUS
<1> QED
  BY <1>1, <1>4, <1>5, <1>6 DEF PerNodeCap

\* compute_2m_budget keeps the headroom and the 1 GiB pages out of the budget.
LEMMA BudgetFits ==
    ASSUME PagesInv, NEW i \in 1..Len(host)
    PROVE  /\ Desired(i) \in Nat
           /\ Desired(i) > 0 =>
                 /\ 2 * Desired(i) + host[i].gpages * MbPerGb + headroom <= host[i].ram
                 /\ 2 * Desired(i) + host[i].gpages * MbPerGb <= PerNodeCap
<1> DEFINE ram == host[i].ram
           big == host[i].gpages * MbPerGb
           free == saturating_sub(ram, headroom)
           capped == Least(PerNodeCap, free)
           left == saturating_sub(capped, big)
<1>1. ram \in 0..Word - 1 /\ big \in 0..ram /\ headroom \in Nat /\ Word \in Nat \ {0}
  BY HostFacts, HugepagesAssumption DEF PagesInv
<1>2. PerNodeCap \in Nat
  BY CapIsNat, HostFacts
<1>3. free \in Nat /\ (free > 0 => free = ram - headroom)
  BY <1>1 DEF saturating_sub
<1>4. capped \in Nat /\ capped <= free /\ capped <= PerNodeCap
  BY <1>2, <1>3 DEF Least
<1>5. big % Word = big
  BY <1>1
<1>6. left \in Nat /\ (left > 0 => left = capped - big)
  BY <1>1, <1>4 DEF saturating_sub
<1>7. Desired(i) = left \div 2
  BY <1>5 DEF Desired, compute_2m_budget
<1> HIDE DEF ram, big, free, capped, left
<1>8. left \div 2 \in Nat /\ 2 * (left \div 2) <= left
  BY <1>6
<1>9. left \div 2 > 0 => /\ 2 * (left \div 2) + big + headroom <= ram
                          /\ 2 * (left \div 2) + big <= PerNodeCap
  BY <1>1, <1>2, <1>3, <1>4, <1>6, <1>8
<1> QED
  BY <1>7, <1>8, <1>9 DEF ram, big

\* What the kernel makes of a request is a pool as large as it was, or a smaller
\* one, or one within the budget.
LEMMA GrantedFits ==
    ASSUME PagesInv, NEW i \in 1..Len(host), pool[i] = host[i].spages, Desired(i) > 0,
           NEW actual \in {pool[i]} \cup Granted(i)
    PROVE  /\ actual \in Nat
           /\ actual > host[i].spages =>
                 /\ 2 * actual + host[i].gpages * MbPerGb + headroom <= host[i].ram
                 /\ limit # NoLimit =>
                       2 * actual + host[i].gpages * MbPerGb <= limit \div Len(host)
<1> DEFINE d == Desired(i)
           s == host[i].spages
           big == host[i].gpages * MbPerGb
<1>1. /\ d \in Nat /\ 2 * d + big + headroom <= host[i].ram /\ 2 * d + big <= PerNodeCap
      /\ d > 0
  BY BudgetFits
<1>2. s \in Nat /\ big \in Nat /\ headroom \in Nat /\ host[i].ram \in Nat /\ Word \in Nat
  BY HostFacts, HugepagesAssumption DEF PagesInv
<1>3. limit # NoLimit => PerNodeCap = limit \div Len(host)
  BY DEF PerNodeCap
<1>4. PerNodeCap \in Nat
  BY CapIsNat, HostFacts
<1>5. actual \in Least(d, s)..Most(d, s) \cup {s}
  BY DEF Granted
<1> HIDE DEF d, s, big
<1>6. actual \in Nat /\ (actual > s => actual <= d)
  BY <1>1, <1>2, <1>5 DEF Least, Most
<1>7. actual > s => 2 * actual + big + headroom <= host[i].ram /\ 2 * actual + big <= PerNodeCap
  BY <1>1, <1>2, <1>4, <1>6
<1> QED
  BY <1>3, <1>6, <1>7 DEF s, big

LEMMA PagesInitInv == PagesInit => PagesInv
<1> SUFFICES ASSUME PagesInit PROVE PagesInv
  OBVIOUS
<1>1. host \in Seq(NumaNodes)
  BY HugepagesAssumption DEF PagesInit
<1>2. Len(host) \in Nat /\ \A i \in 1..Len(host) : host[i].spages \in Nat
  <2>1. Len(host) \in Nat /\ \A i \in 1..Len(host) : host[i] \in NumaNodes
    BY <1>1
  <2> QED
    BY <2>1 DEF NumaNodes
<1>3. pool \in [1..Len(host) -> Nat] /\ pages \in [1..Len(host) -> Nat]
  BY <1>2 DEF PagesInit
<1>4. \A i \in 1..Len(host) : pool[i] = host[i].spages /\ pages[i] = pool[i]
  BY DEF PagesInit
<1>5. PagesLeaveHeadroom
  BY <1>2, <1>4 DEF PagesLeaveHeadroom
<1> QED
  BY <1>2, <1>3, <1>4, <1>5 DEF PagesInit, PagesInv

\* A step of the loop over one node, whatever comes of it.
LEMMA NodeDone ==
    ASSUME PagesInv, next <= Len(host), Desired(next) > 0,
           NEW actual \in {pool[next]} \cup Granted(next),
           pool' = [pool EXCEPT ![next] = actual], next' = next + 1,
           tried' = tried \cup {next}, failed' \in {failed, failed \cup {next}},
           pages' = (IF next \in failed' THEN pages ELSE [pages EXCEPT ![next] = actual]),
           UNCHANGED <<host, headroom, limit>>
    PROVE  PagesInv'
<1>0. Len(host) \in Nat /\ next \in 1..Len(host) /\ next \notin failed
  BY HostFacts DEF PagesInv
<1>1. pool[next] = host[next].spages
  BY <1>0 DEF PagesInv
<1>2. /\ actual \in Nat
      /\ actual > host[next].spages =>
            /\ 2 * actual + host[next].gpages * MbPerGb + headroom <= host[next].ram
            /\ limit # NoLimit =>
                  2 * actual + host[next].gpages * MbPerGb <= limit \div Len(host)
  BY <1>0, <1>1, GrantedFits
<1>3. pool' \in [1..Len(host) -> Nat] /\ pages' \in [1..Len(host) -> Nat]
  BY <1>2 DEF PagesInv
<1>4. /\ failed' \subseteq tried' /\ tried' \subseteq 1..next' - 1
      /\ next' \in 1..Len(host) + 1
      /\ \A i \in next'..Len(host) : pool'[i] = host[i].spages
  BY <1>0 DEF PagesInv
<1>5. PagesLeaveHeadroom'
  <2>1. pool'[next] = actual /\ \A i \in 1..Len(host) : i # next => pool'[i] = pool[i] /\ pages'[i] = pages[i]
    BY <1>0 DEF PagesInv
  <2>2. next \notin failed' => pages'[next] = actual
    BY <1>0 DEF PagesInv
  <2>3. \A i \in 1..Len(host) : i # next /\ i \notin failed' => i \notin failed
    OBVIOUS
  <2> QED
    BY <1>0, <1>2, <2>1, <2>2, <2>3 DEF PagesInv, PagesLeaveHeadroom
<1> QED
  BY <1>3, <1>4, <1>5 DEF PagesInv

LEMMA PagesNextInv == PagesInv /\ [PagesNext]_pageVars => PagesInv'
<1> SUFFICES ASSUME PagesInv, [PagesNext]_pageVars PROVE PagesInv'
  OBVIOUS
<1>1. CASE UNCHANGED pageVars
  BY <1>1 DEF PagesInv, PagesLeaveHeadroom, pageVars
<1>2. CASE NoBudget
  BY <1>2, HostFacts DEF PagesInv, PagesLeaveHeadroom, NoBudget
<1>3. CASE AllocateOnNode
  <2>0. next \notin failed
    BY DEF PagesInv
  <2>1. PICK actual \in Granted(next) : /\ pool' = [pool EXCEPT ![next] = actual]
                                        /\ pages' = [pages EXCEPT ![next] = actual]
    BY <1>3 DEF AllocateOnNode
  <2> QED
    BY <1>3, <2>0, <2>1, NodeDone DEF AllocateOnNode
<1>4. CASE AllocateFails
  <2>1. PICK actual \in {pool[next]} \cup Granted(next) : pool' = [pool EXCEPT ![next] = actual]
    BY <1>4 DEF AllocateFails
  <2> QED
    BY <1>4, <2>1, NodeDone DEF AllocateFails
<1> QED
  BY <1>1, <1>2, <1>3, <1>4 DEF PagesNext

\* allocate_hugepages never makes a pool so large that the headroom of its node
\* or its share of the limit is exceeded, on every host, with whatever pages
\* are there already, and tells the NUMA allocator of the pool as it is
\* (hugepages.rs:8-107, numa.rs:72-106).
THEOREM HeadroomKept == PagesSpec => []PagesLeaveHeadroom
<1>1. PagesInv => PagesLeaveHeadroom
  BY DEF PagesInv
<1> QED
  BY <1>1, PagesInitInv, PagesNextInv, PTL DEF PagesSpec

-----------------------------------------------------------------------------
(* The certificate cache *)

KdsSpec == KdsInit /\ [][KdsNext]_kdsVars

CaCerts == {ASK, ARK} \cup Foreign
VcekCerts == {VCEK(id) : id \in VcekIds} \cup Foreign
AnyCert == {NoCert} \cup CaCerts \cup VcekCerts

Calls == [pc : {"idle", "vcek", "ca", "write", "check", "accepted", "refused"},
          report : Reports \cup {NoCert},
          vcek : AnyCert, ask : {NoCert} \cup CaCerts, ark : {NoCert} \cup CaCerts,
          todo : Seq(KdsFiles), open : BOOLEAN, unanswered : BOOLEAN]

\* What is right in a file, and what may be in it at all.
RightCert(f) == IF f = "ask" THEN ASK ELSE IF f = "ark" THEN ARK ELSE VCEK(f)
FileOK(f, cert, wrong) ==
    /\ f \in VcekIds => cert \in {NoCert} \cup VcekCerts
    /\ f \notin VcekIds => cert \in {NoCert} \cup CaCerts
    /\ ~wrong => cert \in {NoCert, RightCert(f)}

\* The two rounds of writes a call makes, and what it has got by then.
VcekRound(r) == r.ask = NoCert /\ r.ark = NoCert /\ r.todo = <<r.report.id>>
CaRound(r)   == r.ask \in CaCerts /\ r.ark \in CaCerts /\ r.todo \in {<<"ask", "ark">>, <<"ark">>}

\* A call has what it fetched so far, and it is right if nothing wrong was cached.
CallOK(r, wrong) ==
    /\ r.pc # "idle" => r.report \in Reports
    /\ r.pc = "vcek" => r.vcek = NoCert /\ r.ask = NoCert /\ r.ark = NoCert
    /\ r.pc \in {"ca", "write", "check"} => r.vcek \in VcekCerts
    /\ r.pc = "ca" => r.ask = NoCert /\ r.ark = NoCert
    /\ r.pc = "write" => VcekRound(r) \/ CaRound(r)
    /\ r.pc # "write" => r.todo = <<>>
    /\ r.pc = "check" => r.ask \in CaCerts /\ r.ark \in CaCerts
    /\ r.pc \in {"ca", "write", "check"} /\ ~wrong =>
          /\ r.vcek = VCEK(r.report.id)
          /\ r.ask \in {NoCert, ASK}
          /\ r.ark \in {NoCert, ARK}
    /\ r.pc = "accepted" =>
          /\ r.report.vmpl <= 1 /\ r.ark.named
          /\ r.ark = ARK => r.report.signer \in VcekIds
          /\ ~wrong => Genuine(r.report)
    /\ r.pc = "refused" => ~Genuine(r.report) \/ r.unanswered \/ wrong

KdsInv ==
    /\ kdsFile \in [KdsFiles -> AnyCert]
    /\ check \in [Verifiers -> Calls]
    /\ spoiled \in BOOLEAN
    /\ \A f \in KdsFiles : FileOK(f, kdsFile[f], spoiled)
    /\ \A c \in Verifiers : CallOK(check[c], spoiled)

\* The certificates of the chain and what the assumption says of NoCert.
LEMMA CertFacts ==
    /\ ASK # ARK
    /\ NoCert \notin CaCerts /\ NoCert \notin VcekCerts
    /\ \A id \in VcekIds : VCEK(id) # NoCert /\ VCEK(id) \in AnyCert /\ id \notin {"ask", "ark"}
BY KdsAssumption DEF ASK, ARK, Cert, CaCerts, VcekCerts, AnyCert

\* The lists of files to write.
LEMMA TodoFacts ==
    /\ <<>> \in Seq(KdsFiles) /\ <<"ask", "ark">> \in Seq(KdsFiles) /\ <<"ark">> \in Seq(KdsFiles)
    /\ \A id \in VcekIds : <<id>> \in Seq(KdsFiles)
BY DEF KdsFiles

\* A call's step that leaves the files alone, and may have got something wrong.
LEMMA CallStep ==
    ASSUME KdsInv, NEW c \in Verifiers, NEW r \in Calls, SetCheck(c, r), UNCHANGED kdsFile,
           spoiled' \in BOOLEAN, spoiled => spoiled', CallOK(r, spoiled')
    PROVE  KdsInv'
<1>1. check' = [check EXCEPT ![c] = r]
  BY DEF SetCheck
<1>2. check'[c] = r /\ \A d \in Verifiers \ {c} : check'[d] = check[d]
  BY <1>1 DEF KdsInv
<1>3. \A f \in KdsFiles : FileOK(f, kdsFile'[f], spoiled')
  BY DEF KdsInv, FileOK
<1>4. \A d \in Verifiers \ {c} : CallOK(check'[d], spoiled')
  BY <1>2 DEF KdsInv, CallOK
<1>5. check' \in [Verifiers -> Calls]
  BY <1>1 DEF KdsInv
<1> QED
  BY <1>2, <1>3, <1>4, <1>5 DEF KdsInv

\* A step of a call that writes one file with what may be in it.
LEMMA WriteStep ==
    ASSUME KdsInv, NEW c \in Verifiers, NEW r \in Calls, SetCheck(c, r),
           NEW f \in KdsFiles, NEW cert \in AnyCert, kdsFile' = [kdsFile EXCEPT ![f] = cert],
           FileOK(f, cert, spoiled), UNCHANGED spoiled, CallOK(r, spoiled)
    PROVE  KdsInv'
<1>1. check' = [check EXCEPT ![c] = r]
  BY DEF SetCheck
<1>2. check'[c] = r /\ \A d \in Verifiers \ {c} : check'[d] = check[d]
  BY <1>1 DEF KdsInv
<1>3. \A g \in KdsFiles : FileOK(g, kdsFile'[g], spoiled)
  BY DEF KdsInv
<1>5. check' \in [Verifiers -> Calls] /\ kdsFile' \in [KdsFiles -> AnyCert]
  BY <1>1 DEF KdsInv
<1> QED
  BY <1>2, <1>3, <1>5 DEF KdsInv

LEMMA KdsInitInv == KdsInit => KdsInv
<1> SUFFICES ASSUME KdsInit PROVE KdsInv
  OBVIOUS
<1>1. NoCheck \in Calls
  BY DEF NoCheck, Calls, AnyCert
<1>2. \A wrong : CallOK(NoCheck, wrong)
  BY DEF NoCheck, CallOK
<1>3. \A f, wrong : FileOK(f, NoCert, wrong)
  BY DEF FileOK
<1>4. kdsFile \in [KdsFiles -> AnyCert] /\ \A f \in KdsFiles : kdsFile[f] = NoCert
  BY DEF KdsInit, AnyCert
<1>5. check \in [Verifiers -> Calls] /\ \A c \in Verifiers : check[c] = NoCheck
  BY <1>1 DEF KdsInit
<1> QED
  BY <1>2, <1>3, <1>4, <1>5 DEF KdsInit, KdsInv

LEMMA BeginVerifyInv ==
    ASSUME KdsInv, NEW c \in Verifiers, NEW report \in Reports, BeginVerify(c, report)
    PROVE  KdsInv'
<1> DEFINE r == [NoCheck EXCEPT !.pc = "vcek", !.report = report]
<1>1. r \in Calls
  BY TodoFacts DEF NoCheck, Calls, AnyCert
<1>2. CallOK(r, spoiled)
  BY DEF NoCheck, CallOK
<1> QED
  BY <1>1, <1>2, CallStep DEF BeginVerify, KdsInv

LEMMA FetchVcekInv ==
    ASSUME KdsInv, NEW c \in Verifiers, FetchVcek(c)
    PROVE  KdsInv'
<1> DEFINE id == check[c].report.id
<1>1. /\ check[c] \in Calls /\ CallOK(check[c], spoiled) /\ check[c].pc = "vcek"
      /\ check[c].report \in Reports /\ id \in VcekIds /\ id \in KdsFiles
      /\ check[c].ask = NoCert /\ check[c].ark = NoCert
  BY KdsAssumption DEF KdsInv, FetchVcek, CallOK, KdsFiles
<1>2. FileOK(id, kdsFile[id], spoiled) /\ kdsFile[id] \in AnyCert
  BY <1>1 DEF KdsInv
<1>3. CASE read_cached(id) # {}
  <2> DEFINE r == [check[c] EXCEPT !.vcek = kdsFile[id], !.pc = "ca"]
  <2>1. SetCheck(c, r) /\ kdsFile[id] # NoCert /\ UNCHANGED <<kdsFile, spoiled>>
    BY <1>3 DEF FetchVcek, read_cached
  <2>2. r \in Calls
    BY <1>1, <1>2 DEF Calls
  <2>3. CallOK(r, spoiled)
    BY <1>1, <1>2, <2>1, CertFacts DEF CallOK, FileOK, RightCert, Calls
  <2> QED
    BY <2>1, <2>2, <2>3, CallStep DEF KdsInv
<1>4. CASE read_cached(id) = {}
  <2>1. PICK cert \in Vceks :
           /\ SetCheck(c, [check[c] EXCEPT !.vcek = cert, !.todo = <<id>>, !.pc = "write"])
           /\ spoiled' = (spoiled \/ cert # VCEK(id))
           /\ UNCHANGED kdsFile
    BY <1>4 DEF FetchVcek
  <2> DEFINE r == [check[c] EXCEPT !.vcek = cert, !.todo = <<id>>, !.pc = "write"]
  <2>0. cert \in VcekCerts
    BY <2>1, KdsAssumption DEF VcekCerts
  <2>2. r \in Calls
    BY <1>1, <2>0, TodoFacts DEF Calls, AnyCert
  <2>3. spoiled' \in BOOLEAN /\ (spoiled => spoiled') /\ (~spoiled' => cert = VCEK(id))
    BY <2>1 DEF KdsInv
  <2>4. CallOK(r, spoiled')
    BY <1>1, <2>0, <2>3 DEF CallOK, VcekRound, Calls
  <2> QED
    BY <2>1, <2>2, <2>3, <2>4, CallStep
<1> QED
  BY <1>3, <1>4

LEMMA FetchCaChainInv ==
    ASSUME KdsInv, NEW c \in Verifiers, FetchCaChain(c)
    PROVE  KdsInv'
<1>1. /\ check[c] \in Calls /\ CallOK(check[c], spoiled) /\ check[c].pc = "ca"
      /\ "ask" \in KdsFiles /\ "ark" \in KdsFiles
      /\ "ask" \notin VcekIds /\ "ark" \notin VcekIds
  BY KdsAssumption DEF KdsInv, FetchCaChain, KdsFiles
<1>2. FileOK("ask", kdsFile["ask"], spoiled) /\ FileOK("ark", kdsFile["ark"], spoiled)
  BY <1>1 DEF KdsInv
<1>3. CASE read_cached("ask") # {} /\ read_cached("ark") # {}
  <2> DEFINE r == [check[c] EXCEPT !.ask = kdsFile["ask"], !.ark = kdsFile["ark"], !.pc = "check"]
  <2>1. /\ SetCheck(c, r) /\ UNCHANGED <<kdsFile, spoiled>>
        /\ kdsFile["ask"] # NoCert /\ kdsFile["ark"] # NoCert
    BY <1>3 DEF FetchCaChain, read_cached
  <2>2. kdsFile["ask"] \in CaCerts /\ kdsFile["ark"] \in CaCerts
    BY <1>1, <1>2, <2>1 DEF FileOK
  <2>3. r \in Calls
    BY <1>1, <2>2, TodoFacts DEF Calls
  <2>4. CallOK(r, spoiled)
    BY <1>1, <1>2, <2>1, <2>2 DEF CallOK, FileOK, RightCert, Calls
  <2> QED
    BY <2>1, <2>3, <2>4, CallStep DEF KdsInv
<1>4. CASE read_cached("ask") = {} \/ read_cached("ark") = {}
  <2>1. PICK chain \in Chains :
           /\ Len(chain) >= 2
           /\ SetCheck(c, [check[c] EXCEPT !.ask = chain[1], !.ark = chain[2],
                                           !.todo = <<"ask", "ark">>, !.pc = "write"])
           /\ spoiled' = (spoiled \/ chain[1] # ASK \/ chain[2] # ARK)
           /\ UNCHANGED kdsFile
    BY <1>4 DEF FetchCaChain
  <2> DEFINE r == [check[c] EXCEPT !.ask = chain[1], !.ark = chain[2],
                                   !.todo = <<"ask", "ark">>, !.pc = "write"]
  <2>2. chain[1] \in CaCerts /\ chain[2] \in CaCerts
    BY <2>1, KdsAssumption DEF CaCerts
  <2>3. <<"ask", "ark">> \in Seq(KdsFiles)
    BY <1>1
  <2>4. r \in Calls
    BY <1>1, <2>2, <2>3 DEF Calls
  <2>5. spoiled' \in BOOLEAN /\ (spoiled => spoiled') /\ (~spoiled' => chain[1] = ASK /\ chain[2] = ARK)
    BY <2>1 DEF KdsInv
  <2>6. CallOK(r, spoiled')
    BY <1>1, <2>1, <2>2, <2>5 DEF CallOK, CaRound, Calls
  <2> QED
    BY <2>1, <2>4, <2>5, <2>6, CallStep
<1> QED
  BY <1>3, <1>4

LEMMA KdsFailsInv ==
    ASSUME KdsInv, NEW c \in Verifiers, KdsFails(c)
    PROVE  KdsInv'
<1> DEFINE r == [check[c] EXCEPT !.pc = "refused", !.unanswered = TRUE]
<1>1. check[c] \in Calls /\ CallOK(check[c], spoiled) /\ check[c].pc \in {"vcek", "ca"}
  BY DEF KdsInv, KdsFails
<1>2. r \in Calls
  BY <1>1 DEF Calls
<1>3. CallOK(r, spoiled)
  BY <1>1 DEF CallOK, Calls
<1> QED
  BY <1>2, <1>3, CallStep DEF KdsFails, KdsInv

\* After a write, what is left to do and the next stage agree.
LEMMA AfterWriteOK ==
    ASSUME KdsInv, NEW c \in Verifiers, check[c].pc = "write"
    PROVE  LET r == AfterWrite([check[c] EXCEPT !.todo = Tail(@)])
           IN  r \in Calls /\ CallOK(r, spoiled)
<1> DEFINE q == [check[c] EXCEPT !.todo = Tail(@)]
           r == AfterWrite(q)
<1>1. check[c] \in Calls /\ CallOK(check[c], spoiled)
  BY DEF KdsInv
<1>2. CASE VcekRound(check[c])
  <2>1. q = [check[c] EXCEPT !.todo = <<>>]
    BY <1>1, <1>2 DEF VcekRound, Calls
  <2>2. r = [check[c] EXCEPT !.todo = <<>>, !.open = FALSE, !.pc = "ca"]
    BY <1>1, <1>2, <2>1 DEF VcekRound, AfterWrite, Calls
  <2>3. r \in Calls
    BY <1>1, <2>2, TodoFacts DEF Calls
  <2>4. CallOK(r, spoiled)
    BY <1>1, <1>2, <2>2 DEF CallOK, VcekRound, Calls
  <2> QED
    BY <2>3, <2>4
<1>3. CASE CaRound(check[c]) /\ check[c].todo = <<"ask", "ark">>
  <2>1. q = [check[c] EXCEPT !.todo = <<"ark">>]
    BY <1>1, <1>3 DEF Calls
  <2>2. r = [check[c] EXCEPT !.todo = <<"ark">>, !.open = FALSE]
    <3>1. <<"ark">> # <<>>
      OBVIOUS
    <3>2. q.todo # <<>>
      BY <1>1, <2>1, <3>1 DEF Calls
    <3>3. r = [q EXCEPT !.open = FALSE]
      BY <3>2 DEF AfterWrite
    <3> QED
      BY <1>1, <2>1, <3>3 DEF Calls
  <2>3. r \in Calls
    BY <1>1, <2>2, TodoFacts DEF Calls
  <2>4. CallOK(r, spoiled)
    BY <1>1, <1>3, <2>2 DEF CallOK, CaRound, Calls
  <2> QED
    BY <2>3, <2>4
<1>4. CASE CaRound(check[c]) /\ check[c].todo = <<"ark">>
  <2>1. q = [check[c] EXCEPT !.todo = <<>>]
    BY <1>1, <1>4 DEF Calls
  <2>2. check[c].ask # NoCert
    BY <1>4, CertFacts DEF CaRound
  <2>3. r = [check[c] EXCEPT !.todo = <<>>, !.open = FALSE, !.pc = "check"]
    BY <1>1, <2>1, <2>2 DEF AfterWrite, Calls
  <2>4. r \in Calls
    BY <1>1, <2>3, TodoFacts DEF Calls
  <2>5. CallOK(r, spoiled)
    BY <1>1, <1>4, <2>3 DEF CallOK, CaRound, Calls
  <2> QED
    BY <2>4, <2>5
<1> QED
  BY <1>1, <1>2, <1>3, <1>4 DEF CallOK, CaRound

\* The file a call writes next, and that what it writes belongs there.
LEMMA NextFile ==
    ASSUME KdsInv, NEW c \in Verifiers, check[c].pc = "write"
    PROVE  LET f == check[c].todo[1]
           IN  /\ f \in KdsFiles
               /\ ToWrite(c, f) \in AnyCert
               /\ FileOK(f, ToWrite(c, f), spoiled)
<1> DEFINE f == check[c].todo[1]
<1>1. check[c] \in Calls /\ CallOK(check[c], spoiled)
  BY DEF KdsInv
<1>2. check[c].vcek \in AnyCert /\ (~spoiled => check[c].vcek = VCEK(check[c].report.id))
  BY <1>1 DEF CallOK, Calls
<1>3. check[c].report.id \in VcekIds
  BY <1>1, KdsAssumption DEF CallOK
<1>4. CASE VcekRound(check[c])
  <2>1. f = check[c].report.id /\ f \notin {"ask", "ark"}
    BY <1>3, <1>4, CertFacts DEF VcekRound
  <2>2. ToWrite(c, f) = check[c].vcek
    BY <2>1 DEF ToWrite
  <2> QED
    BY <1>1, <1>2, <1>3, <2>1, <2>2 DEF CallOK, FileOK, RightCert, KdsFiles
<1>5. CASE CaRound(check[c])
  <2>1. f \in {"ask", "ark"}
    BY <1>5 DEF CaRound
  <2>2. f \notin VcekIds
    BY <2>1, KdsAssumption
  <2>3. ToWrite(c, f) = IF f = "ask" THEN check[c].ask ELSE check[c].ark
    BY <2>1 DEF ToWrite
  <2>4. ToWrite(c, f) \in CaCerts
    BY <1>5, <2>3 DEF CaRound
  <2>5. ~spoiled => ToWrite(c, f) \in {NoCert, RightCert(f)}
    BY <1>1, <2>1, <2>3 DEF CallOK, RightCert
  <2> QED
    BY <2>1, <2>2, <2>4, <2>5 DEF FileOK, KdsFiles, AnyCert
<1> QED
  BY <1>1, <1>4, <1>5 DEF CallOK

LEMMA TruncateCertInv ==
    ASSUME KdsInv, NEW c \in Verifiers, TruncateCert(c)
    PROVE  KdsInv'
<1> DEFINE r == [check[c] EXCEPT !.open = TRUE]
           f == check[c].todo[1]
<1>1. check[c] \in Calls /\ CallOK(check[c], spoiled) /\ check[c].pc = "write"
  BY DEF KdsInv, TruncateCert
<1>2. r \in Calls
  BY <1>1 DEF Calls
<1>3. CallOK(r, spoiled)
  BY <1>1 DEF CallOK, VcekRound, CaRound, Calls
<1>4. f \in KdsFiles
  BY <1>1, NextFile
<1>5. NoCert \in AnyCert /\ FileOK(f, NoCert, spoiled)
  BY DEF AnyCert, FileOK
<1>6. SetCheck(c, r) /\ kdsFile' = [kdsFile EXCEPT ![f] = NoCert] /\ UNCHANGED spoiled
  BY DEF TruncateCert
<1> QED
  BY <1>2, <1>3, <1>4, <1>5, <1>6, WriteStep

LEMMA FillCertInv ==
    ASSUME KdsInv, NEW c \in Verifiers, FillCert(c)
    PROVE  KdsInv'
<1> DEFINE r == AfterWrite([check[c] EXCEPT !.todo = Tail(@)])
           f == check[c].todo[1]
<1>1. check[c].pc = "write"
  BY DEF FillCert
<1>2. r \in Calls /\ CallOK(r, spoiled)
  BY <1>1, AfterWriteOK
<1>3. f \in KdsFiles /\ ToWrite(c, f) \in AnyCert /\ FileOK(f, ToWrite(c, f), spoiled)
  BY <1>1, NextFile
<1>4. SetCheck(c, r) /\ kdsFile' = [kdsFile EXCEPT ![f] = ToWrite(c, f)] /\ UNCHANGED spoiled
  BY DEF FillCert
<1> HIDE DEF r, f
<1> QED
  BY <1>2, <1>3, <1>4, WriteStep

LEMMA WriteCacheFailsInv ==
    ASSUME KdsInv, NEW c \in Verifiers, WriteCacheFails(c)
    PROVE  KdsInv'
<1> DEFINE r == AfterWrite([check[c] EXCEPT !.todo = Tail(@)])
<1>1. r \in Calls /\ CallOK(r, spoiled)
  BY AfterWriteOK DEF WriteCacheFails
<1>2. SetCheck(c, r) /\ UNCHANGED <<kdsFile, spoiled>>
  BY DEF WriteCacheFails
<1> HIDE DEF r
<1> QED
  BY <1>1, <1>2, CallStep DEF KdsInv

\* With the certificates a call can have got, the chain and the signature are
\* accepted only for a genuine report, and always for one if nothing is wrong.
LEMMA VerifyReportInv ==
    ASSUME KdsInv, NEW c \in Verifiers, VerifyReport(c)
    PROVE  KdsInv'
<1> DEFINE q == check[c]
           r == [q EXCEPT !.pc = IF Verdict(q) THEN "accepted" ELSE "refused"]
<1>1. q \in Calls /\ CallOK(q, spoiled) /\ q.pc = "check"
  BY DEF KdsInv, VerifyReport
<1>2. /\ q.report \in Reports /\ q.vcek \in VcekCerts
      /\ q.ask \in CaCerts /\ q.ark \in CaCerts
  BY <1>1 DEF CallOK
<1>3. ASSUME Verdict(q)
      PROVE  /\ q.report.vmpl <= 1 /\ q.ark.named
             /\ q.ark = ARK => q.report.signer \in VcekIds
             /\ ~spoiled => Genuine(q.report)
  <2>1. q.report.vmpl <= 1 /\ q.ark.named
    BY <1>3 DEF Verdict, verify_cert_chain, verify_ark_identity
  <2>2. ASSUME q.ark = ARK PROVE \E id \in VcekIds : q.vcek = VCEK(id) /\ q.report.signer = id
    <3>1. q.ask.by = "ARK" /\ q.vcek.by = q.ask.key /\ q.report.signer = q.vcek.key
      BY <1>3, <2>2 DEF Verdict, verify_cert_chain, verify_report_signature, ARK, Cert
    <3>2. q.ask \in {ASK, ARK}
      BY <1>2, <3>1, KdsAssumption DEF CaCerts
    <3>3. q.vcek.by \in {"ASK", "ARK"}
      BY <3>1, <3>2 DEF ASK, ARK, Cert
    <3>4. PICK id \in VcekIds : q.vcek = VCEK(id)
      BY <1>2, <3>3, KdsAssumption DEF VcekCerts
    <3>5. q.vcek.key = id
      BY <3>4 DEF VCEK, Cert
    <3> QED
      BY <3>1, <3>4, <3>5
  <2>3. ASSUME ~spoiled PROVE Genuine(q.report)
    <3>1. q.vcek = VCEK(q.report.id)
      BY <1>1, <2>3 DEF CallOK
    <3>2. q.report.signer = q.report.id
      BY <1>3, <3>1 DEF Verdict, verify_report_signature, VCEK, Cert
    <3> QED
      BY <2>1, <3>2 DEF Genuine
  <2> QED
    BY <2>1, <2>2, <2>3
<1>4. ~Verdict(q) => ~Genuine(q.report) \/ spoiled
  <2> SUFFICES ASSUME ~spoiled, Genuine(q.report) PROVE Verdict(q)
    OBVIOUS
  <2>1. q.vcek = VCEK(q.report.id) /\ q.ask = ASK /\ q.ark = ARK
    BY <1>1, <1>2, CertFacts DEF CallOK
  <2>2. /\ q.vcek.key = q.report.id /\ q.vcek.by = "ASK"
        /\ q.ask.key = "ASK" /\ q.ask.by = "ARK"
        /\ q.ark.key = "ARK" /\ q.ark.by = "ARK" /\ q.ark.named
    BY <2>1 DEF VCEK, ASK, ARK, Cert
  <2> QED
    BY <2>2 DEF Verdict, verify_cert_chain, verify_ark_identity, verify_report_signature, Genuine
<1>5. r \in Calls
  BY <1>1 DEF Calls
<1>6. CallOK(r, spoiled)
  <2>1. CASE Verdict(q)
    BY <1>1, <1>2, <1>3, <2>1 DEF CallOK, Calls
  <2>2. CASE ~Verdict(q)
    BY <1>1, <1>2, <1>4, <2>2 DEF CallOK, Calls
  <2> QED
    BY <2>1, <2>2
<1>7. SetCheck(c, r) /\ UNCHANGED <<kdsFile, spoiled>>
  BY DEF VerifyReport
<1> HIDE DEF r
<1> QED
  BY <1>5, <1>6, <1>7, CallStep DEF KdsInv

LEMMA VerifierCrashInv ==
    ASSUME KdsInv, NEW c \in Verifiers, VerifierCrash(c)
    PROVE  KdsInv'
<1>1. NoCheck \in Calls
  BY DEF NoCheck, Calls, AnyCert
<1>2. CallOK(NoCheck, spoiled)
  BY DEF NoCheck, CallOK
<1> QED
  BY <1>1, <1>2, CallStep DEF VerifierCrash, KdsInv

LEMMA KdsNextInv == KdsInv /\ [KdsNext]_kdsVars => KdsInv'
<1> SUFFICES ASSUME KdsInv, [KdsNext]_kdsVars PROVE KdsInv'
  OBVIOUS
<1>1. CASE UNCHANGED kdsVars
  BY <1>1 DEF KdsInv, kdsVars
<1>2. CASE KdsNext
  BY <1>2, BeginVerifyInv, FetchVcekInv, FetchCaChainInv, KdsFailsInv, TruncateCertInv,
     FillCertInv, WriteCacheFailsInv, VerifyReportInv, VerifierCrashInv DEF KdsNext
<1> QED
  BY <1>1, <1>2

\* A verdict of verify_sev_snp_report is as good as the root that it ends in: with
\* AMD's own, only reports that a chip of AMD's signed are accepted, whatever
\* foreign certificates are answered and cached; with the right certificates only
\* genuine ones are, and a genuine one is refused only when the service did not
\* answer or answered something else, however many processes share the cached
\* files and crash while they write them (sev_snp/verify.rs:15-298,
\* sev_snp/certs.rs:52-212).
THEOREM VerdictsRight == KdsSpec => []VerdictIsRight
<1>1. KdsInv => VerdictIsRight
  BY DEF KdsInv, CallOK, VerdictIsRight
<1> QED
  BY <1>1, KdsInitInv, KdsNextInv, PTL DEF KdsSpec

-----------------------------------------------------------------------------
(* The IPv6 ranges *)

\* What the comparisons of allocate establish, in terms of bounds.
RangesInv ==
    /\ allocations \in [VmIds -> Nets \cup {NoNet}]
    /\ \A v \in VmIds : allocations[v] # NoNet => contains(allocations[v])
    /\ \A u, v \in VmIds :
          u # v /\ allocations[u] # NoNet /\ allocations[v] # NoNet =>
              ~Meets(allocations[u], allocations[v])

\* Powers of two are positive: 2^k is the number of subsets of a set of k.
LEMMA PowerPositive == ASSUME NEW k \in Nat PROVE 2 ^ k \in Nat \ {0}
<1>1. IsFiniteSet(1..k) /\ Cardinality(1..k) = k
  <2>1. IsFiniteSet(1..k) /\ Cardinality(1..k) = (IF 1 > k THEN 0 ELSE k - 1 + 1)
    BY FS_Interval
  <2> QED BY <2>1
<1>2. IsFiniteSet(SUBSET (1..k)) /\ Cardinality(SUBSET (1..k)) = 2 ^ k
  BY <1>1, FS_SUBSET
<1>3. SUBSET (1..k) # {}
  OBVIOUS
<1>4. Cardinality(SUBSET (1..k)) # 0
  BY <1>2, <1>3, FS_EmptySet
<1>5. Cardinality(SUBSET (1..k)) \in Nat
  BY <1>2, FS_CardinalityType
<1> QED BY <1>2, <1>4, <1>5

\* The bounds of a range are integers, the first not after the last.
LEMMA Bounds ==
    ASSUME NEW n \in Nets
    PROVE  network(n) \in Int /\ broadcast(n) \in Int /\ network(n) <= broadcast(n)
<1>1. AddrBits - n.len \in Nat /\ n.addr \in Nat
  BY RangesAssumption DEF Nets
<1>2. Size(n) \in Nat \ {0}
  BY <1>1, PowerPositive DEF Size
<1>3. n.addr % Size(n) \in Int
  BY <1>1, <1>2
<1> QED BY <1>1, <1>2, <1>3 DEF network, broadcast

\* The ranges that random_address draws are ranges.
LEMMA RandomNets == RandomAddresses \subseteq Nets
<1> SUFFICES ASSUME NEW n \in RandomAddresses PROVE n \in Nets
  OBVIOUS
<1>1. AddrBits - Pool.len \in Nat /\ Pool.addr \in Nat
  BY RangesAssumption DEF Nets
<1>2. Size(Pool) \in Nat \ {0}
  BY <1>1, PowerPositive DEF Size
<1>3. network(Pool) \in Nat
  BY <1>1, <1>2 DEF network
<1>4. PICK offset \in 1..(IF Size(Pool) <= RandomLimit THEN Size(Pool) ELSE RandomLimit) - 1 :
          n = [addr |-> network(Pool) + offset, len |-> DefaultPrefix]
  BY DEF RandomAddresses
<1>5. offset \in Nat
  BY <1>2, RangesAssumption
<1> QED BY <1>3, <1>4, <1>5, RangesAssumption DEF Nets

\* The test of overlaps does not depend on the order of the two ranges.
LEMMA MeetsSymmetric ==
    ASSUME NEW n \in Nets, NEW m \in Nets, Meets(n, m)
    PROVE  Meets(m, n)
BY Bounds DEF Meets

LEMMA RangesInitInv == RangesInit => RangesInv
BY DEF RangesInit, RangesInv

\* Every step of the allocator keeps the invariant.
LEMMA RangesNextInv == RangesInv /\ [RangesNext]_allocations => RangesInv'
<1> SUFFICES ASSUME RangesInv, [RangesNext]_allocations PROVE RangesInv'
  OBVIOUS
<1>1. ASSUME NEW v \in VmIds, NEW n \in Requested \cup RandomAddresses, allocate(v, n)
      PROVE  RangesInv'
  <2>1. n \in Nets /\ n # NoNet
    BY RangesAssumption, RandomNets
  <2>2. allocations' = [allocations EXCEPT ![v] = n]
    BY <1>1 DEF allocate
  <2>3. \A u \in VmIds : allocations'[u] = IF u = v THEN n ELSE allocations[u]
    BY <2>2 DEF RangesInv
  <2>4. contains(n)
    BY <1>1 DEF allocate
  <2>5. \A u \in VmIds : allocations[u] # NoNet =>
            ~Meets(n, allocations[u]) /\ ~Meets(allocations[u], n)
    BY <1>1, <2>1, MeetsSymmetric DEF allocate, overlaps, RangesInv
  <2>6. allocations' \in [VmIds -> Nets \cup {NoNet}]
    BY <2>1, <2>2 DEF RangesInv
  <2>7. \A u \in VmIds : allocations'[u] # NoNet => contains(allocations'[u])
    BY <2>3, <2>4 DEF RangesInv
  <2>8. \A u, w \in VmIds :
            u # w /\ allocations'[u] # NoNet /\ allocations'[w] # NoNet =>
                ~Meets(allocations'[u], allocations'[w])
    BY <2>3, <2>5 DEF RangesInv
  <2> QED BY <2>6, <2>7, <2>8 DEF RangesInv, contains, Meets
<1>2. ASSUME NEW v \in VmIds, release(v) PROVE RangesInv'
  BY <1>2 DEF release, RangesInv, contains, Meets
<1>3. CASE RangesRestart
  BY <1>3 DEF RangesRestart, RangesInv
<1>4. CASE UNCHANGED allocations
  BY <1>4 DEF RangesInv, contains, Meets
<1> QED BY <1>1, <1>2, <1>3, <1>4 DEF RangesNext

\* Ranges that the comparison finds apart have no address in common.
LEMMA InvDisjoint == RangesInv => RangesDisjoint
<1> SUFFICES ASSUME RangesInv, NEW v \in VmIds, allocations[v] # NoNet
             PROVE  /\ network(allocations[v])..broadcast(allocations[v])
                          \subseteq network(Pool)..broadcast(Pool)
                    /\ \A u \in VmIds \ {v} : allocations[u] # NoNet =>
                          (network(allocations[u])..broadcast(allocations[u])) \cap
                          (network(allocations[v])..broadcast(allocations[v])) = {}
  BY DEF RangesDisjoint
<1>1. allocations[v] \in Nets
  BY DEF RangesInv
<1>2. network(allocations[v])..broadcast(allocations[v]) \subseteq network(Pool)..broadcast(Pool)
  <2>1. contains(allocations[v])
    BY DEF RangesInv
  <2> QED BY <1>1, <2>1, Bounds, RangesAssumption DEF contains
<1>3. ASSUME NEW u \in VmIds \ {v}, allocations[u] # NoNet
      PROVE  (network(allocations[u])..broadcast(allocations[u])) \cap
             (network(allocations[v])..broadcast(allocations[v])) = {}
  <2>1. allocations[u] \in Nets /\ ~Meets(allocations[u], allocations[v])
    BY <1>3 DEF RangesInv
  <2> QED BY <1>1, <2>1, Bounds DEF Meets
<1> QED BY <1>2, <1>3

\* Ipv6RangeAllocator never gives one address to two VMs, nor one outside the
\* pool, for every pool and every mixture of prefix lengths
\* (range_allocator.rs:31-101).
THEOREM RangesNeverOverlap == RangesSpec => []RangesDisjoint
BY RangesInitInv, RangesNextInv, InvDisjoint, PTL DEF RangesSpec

-----------------------------------------------------------------------------
(* Side by side *)

\* Every service keeps its invariant, whichever of them moves.
ServicesInv == HashInv /\ NdpInv /\ VerityInv /\ PagesInv /\ KdsInv /\ RangesInv

LEMMA ServicesInitInv == Init => ServicesInv
BY HashInitInv, NdpInitInv, VerityInitInv, PagesInitInv, KdsInitInv, RangesInitInv
   DEF Init, ServicesInv

LEMMA ServicesNextInv == ServicesInv /\ [Next]_vars => ServicesInv'
<1> SUFFICES ASSUME ServicesInv, [Next]_vars PROVE ServicesInv'
  OBVIOUS
<1>1. [HashNext]_hashVars
  BY DEF Next, vars
<1>2. [NdpNext]_ndpVars
  BY DEF Next, vars
<1>3. [VerityNext]_verityVars
  BY DEF Next, vars
<1>4. [PagesNext]_pageVars
  BY DEF Next, vars
<1>5. [KdsNext]_kdsVars
  BY DEF Next, vars
<1>6. [RangesNext]_allocations
  BY DEF Next, vars
<1> QED
  BY <1>1, <1>2, <1>3, <1>4, <1>5, <1>6, HashNextInv, NdpNextInv, VerityNextInv, PagesNextInv,
     KdsNextInv, RangesNextInv DEF ServicesInv

\* The invariants imply the types that the model checker looks at.
LEMMA ServicesTyped == ServicesInv => NodeTypeOK
<1> SUFFICES ASSUME ServicesInv PROVE NodeTypeOK
  OBVIOUS
<1>1. /\ hashFile \in OwnHashes \cup {p.hash : p \in posts} \cup {Unset, "empty"}
      /\ mem \in OwnHashes \cup {p.hash : p \in posts} \cup {Unset}
  BY DEF ServicesInv, HashInv, HashTypeOK, KnownHashes
<1>2. /\ agent.state \notin {"down", "pidfile"} => pidFile = agent.pid
      /\ disc.pc # "off" => agent.state \in {"resolved", "up"}
  BY DEF ServicesInv, HashInv, ProcessOK
<1>3. /\ ranges \in [Taps -> {NoRange, Range1}]
      /\ ndpLock # NoCaller => ndpCall[ndpLock] \in {"write", "fill", "restart"}
      /\ late \subseteq [Taps -> {NoRange, Range1}]
  BY DEF ServicesInv, NdpInv
<1>4. formats \in 0..MaxFormats /\ roothash.mtime \in -1..clock
  BY DEF ServicesInv, VerityInv, VerityTypeOK
<1>5. next \in 1..Len(host) + 1 /\ failed \subseteq tried /\ tried \subseteq 1..next - 1
  BY DEF ServicesInv, PagesInv
<1>6. \A c \in Verifiers : check[c].pc = "write" <=> check[c].todo # <<>>
  <2>1. \A x : <<x>> # <<>>
    OBVIOUS
  <2>2. \A x, y : <<x, y>> # <<>>
    OBVIOUS
  <2> QED
    BY <2>1, <2>2 DEF ServicesInv, KdsInv, CallOK, VcekRound, CaRound
<1>7. allocations \in [VmIds -> Nets \cup {NoNet}]
  BY DEF ServicesInv, RangesInv
<1> QED
  BY <1>1, <1>2, <1>3, <1>4, <1>5, <1>6, <1>7 DEF NodeTypeOK

\* Every variable of the six services has its type, the PID file names the
\* running agent, and the mutex of the NDP proxy is held by a call that updates
\* the configuration, in every reachable state.
THEOREM ServicesTypeCorrect == Spec => []NodeTypeOK
BY ServicesInitInv, ServicesNextInv, ServicesTyped, PTL DEF Spec

\* The six guarantees hold together in the specification that is model-checked.
THEOREM ServicesSafe ==
    Spec => [](/\ HashAgrees /\ NdpServesRanges /\ RootHashMatchesTree
               /\ PagesLeaveHeadroom /\ VerdictIsRight /\ RangesDisjoint)
<1>1. ServicesInv => HashAgrees
  BY HashInvAgrees DEF ServicesInv
<1>2. ServicesInv => NdpServesRanges
  BY DEF ServicesInv, NdpInv, NdpServesRanges
<1>3. ServicesInv => RootHashMatchesTree
  BY DEF ServicesInv, VerityInv, VeritySound, RootHashMatchesTree
<1>4. ServicesInv => PagesLeaveHeadroom
  BY DEF ServicesInv, PagesInv
<1>5. ServicesInv => VerdictIsRight
  BY DEF ServicesInv, KdsInv, CallOK, VerdictIsRight
<1>6. ServicesInv => RangesDisjoint
  BY InvDisjoint DEF ServicesInv
<1> QED
  BY <1>1, <1>2, <1>3, <1>4, <1>5, <1>6, ServicesInitInv, ServicesNextInv, PTL DEF Spec

=============================================================================
