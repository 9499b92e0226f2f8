---------------------------- MODULE NodeServices ----------------------------
(***************************************************************************)
(* The services around the VM manager that keep state of their own: the     *)
(* node hash of the scheduler agent, the NDP proxy, the dm-verity cache,    *)
(* the hugepage pools, the certificate cache and the IPv6 ranges of VMs.    *)
(* They share no state, so each is explored by itself: the initial state    *)
(* picks the one that moves.                                                *)
(***************************************************************************)
EXTENDS NodeHash, NdpProxy, VerityCache, Hugepages, KdsCache, Ipv6Ranges

VARIABLE part   \* the service that moves

Parts == {"hash", "ndp", "verity", "pages", "kds", "ranges"}

Init ==
    /\ part \in Parts
    /\ HashInit /\ NdpInit /\ VerityInit /\ KdsInit /\ RangesInit
    /\ PagesInit
    \* One host will do for the services that do not look at it.
    /\ part # "pages" =>
          /\ host = CHOOSE h \in Hosts : TRUE
          /\ headroom = CHOOSE h \in Headrooms : TRUE
          /\ limit = NoLimit

Move(p) == part = p /\ UNCHANGED part

Next ==
    \/ Move("hash") /\ HashNext /\ UNCHANGED <<ndpVars, verityVars, pageVars, kdsVars, allocations>>
    \/ Move("ndp") /\ NdpNext /\ UNCHANGED <<hashVars, verityVars, pageVars, kdsVars, allocations>>
    \/ Move("verity") /\ VerityNext /\ UNCHANGED <<hashVars, ndpVars, pageVars, kdsVars, allocations>>
    \/ Move("pages") /\ PagesNext /\ UNCHANGED <<hashVars, ndpVars, verityVars, kdsVars, allocations>>
    \/ Move("kds") /\ KdsNext /\ UNCHANGED <<hashVars, ndpVars, verityVars, pageVars, allocations>>
    \/ Move("ranges") /\ RangesNext /\ UNCHANGED <<hashVars, ndpVars, verityVars, pageVars, kdsVars>>

vars == <<part, hashVars, ndpVars, verityVars, pageVars, kdsVars, allocations>>

Spec == Init /\ [][Next]_vars

-----------------------------------------------------------------------------

\* Every variable of every service has its type; the PID file names the
\* running agent, and the mutex of the NDP proxy is held by a call that is
\* updating the configuration.
NodeTypeOK ==
    /\ hashFile \in OwnHashes \cup {p.hash : p \in posts} \cup {Unset, "empty"}
    /\ mem \in OwnHashes \cup {p.hash : p \in posts} \cup {Unset}
    /\ agent.state \notin {"down", "pidfile"} => pidFile = agent.pid
    /\ disc.pc # "off" => agent.state \in {"resolved", "up"}
    /\ ranges \in [Taps -> {NoRange, Range1}]
    /\ ndpLock # NoCaller => ndpCall[ndpLock] \in {"write", "fill", "restart"}
    /\ late \subseteq [Taps -> {NoRange, Range1}]
    /\ formats \in 0..MaxFormats
    /\ roothash.mtime \in -1..clock
    /\ next \in 1..Len(host) + 1
    /\ failed \subseteq tried /\ tried \subseteq 1..next - 1
    /\ \A c \in Verifiers : check[c].pc = "write" <=> check[c].todo # <<>>
    /\ allocations \in [VmIds -> Nets \cup {NoNet}]

=============================================================================
