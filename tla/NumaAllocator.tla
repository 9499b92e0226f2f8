---------------------------- MODULE NumaAllocator ----------------------------
(***************************************************************************)
(* NumaAllocator of aleph-compute-node/src/numa.rs, and the calls that      *)
(* create_vm, delete_vm and recover_vms (vm/manager.rs) make to it.  The    *)
(* allocator sits behind a mutex, so each call is one step.  Memory is in   *)
(* MB, as in the code.                                                      *)
(***************************************************************************)
EXTENDS Integers, FiniteSets

CONSTANTS
    NumNodes,       \* NumaTopology.nodes: nodes 1..NumNodes, in the order tried
    Cpus,           \* node -> cpus.len()
    Total2m,        \* node -> total_2m_hugepages
    Total1g,        \* node -> total_1g_hugepages
    Vms,            \* VM ids
    Requests,       \* what a VM may ask for: [vcpus, memory_mb, confidential]
    MaxRestarts     \* bound on restarts of the orchestrator

Nodes     == 1..NumNodes
NoHint    == 0
RequestSet == [vcpus : Nat, memory_mb : Nat, confidential : BOOLEAN]

ASSUME NumaAssumption ==
    /\ NumNodes \in Nat
    /\ IsFiniteSet(Vms)
    /\ Cpus \in [Nodes -> Nat]
    /\ Total2m \in [Nodes -> Nat]
    /\ Total1g \in [Nodes -> Nat]
    /\ Requests \subseteq RequestSet
    /\ MaxRestarts \in Nat

VARIABLES
    allocated_vcpus,      \* node -> vCPUs handed out
    allocated_2m_pages,   \* node -> 2M pages handed out
    allocated_1g_pages,   \* node -> 1G pages handed out
    vm,                   \* per VM: its request and placement, and how far it is
    active,               \* VMs whose QEMU process is alive
    restarts

counters == <<allocated_vcpus, allocated_2m_pages, allocated_1g_pages>>
vars == <<counters, vm, active, restarts>>

-----------------------------------------------------------------------------
(* The allocator *)

\* Mutant: a subtraction that does not saturate.
PlainSub(a, b) == a - b

SaturatingSub(a, b) == IF a > b THEN a - b ELSE 0
DivCeil(a, b)       == (a + b - 1) \div b

Pages(memory_mb, size) ==
    IF size = "1G" THEN memory_mb \div 1024 ELSE DivCeil(memory_mb, 2)

CpusFit(r, n) == r.vcpus <= SaturatingSub(Cpus[n], allocated_vcpus[n])

Fits1g(r, n) ==
    /\ r.memory_mb % 1024 = 0
    /\ Pages(r.memory_mb, "1G") <= SaturatingSub(Total1g[n], allocated_1g_pages[n])

Fits2m(r, n) ==
    Pages(r.memory_mb, "2M") <= SaturatingSub(Total2m[n], allocated_2m_pages[n])

\* Mutant: a confidential VM may be placed as if it used no hugepages.
FitsCpusOnly(r, n) == CpusFit(r, n)

\* Mutant: the CPUs of the node are not checked.
FitsPagesOnly(r, n) == ~r.confidential \/ Fits1g(r, n) \/ Fits2m(r, n)

Fits(r, n) ==
    /\ CpusFit(r, n)
    /\ ~r.confidential \/ Fits1g(r, n) \/ Fits2m(r, n)

\* The candidates: the hinted node alone, or all nodes.
Candidates(hint) == IF hint = NoHint THEN Nodes ELSE {hint}

\* Pack-first: the first candidate, in order, with room.
Placeable(r, hint) == {n \in Candidates(hint) : Fits(r, n)}
IsFirstFit(r, hint, n) ==
    n \in Placeable(r, hint) /\ \A m \in Placeable(r, hint) : n <= m

\* Mutant: 1G pages are chosen without looking at what is left of them.
PageSizeByAlignment(r, n) ==
    IF r.confidential /\ r.memory_mb % 1024 = 0 THEN "1G" ELSE "2M"

\* hugepage_size of the placement; "2M" for a VM that uses none.
PageSize(r, n) == IF r.confidential /\ Fits1g(r, n) THEN "1G" ELSE "2M"

\* allocate(): the counters after the request was placed on node n.
Take(r, n) ==
    LET size == PageSize(r, n)
        pages == IF r.confidential THEN Pages(r.memory_mb, size) ELSE 0
    IN /\ allocated_vcpus' = [allocated_vcpus EXCEPT ![n] = @ + r.vcpus]
       /\ allocated_1g_pages' =
             [allocated_1g_pages EXCEPT ![n] = @ + (IF size = "1G" THEN pages ELSE 0)]
       /\ allocated_2m_pages' =
             [allocated_2m_pages EXCEPT ![n] = @ + (IF size = "2M" THEN pages ELSE 0)]

\* Mutant: the pages go back to the pool the memory size suggests.
ReleaseByAlignment(r, n, size) ==
    LET pool == PageSizeByAlignment(r, n)
        pages == Pages(r.memory_mb, pool)
    IN /\ allocated_vcpus' = [allocated_vcpus EXCEPT ![n] = SaturatingSub(@, r.vcpus)]
       /\ allocated_1g_pages' =
             [allocated_1g_pages EXCEPT ![n] =
                 SaturatingSub(@, IF pool = "1G" THEN pages ELSE 0)]
       /\ allocated_2m_pages' =
             [allocated_2m_pages EXCEPT ![n] =
                 SaturatingSub(@, IF pool = "2M" THEN pages ELSE 0)]

\* release(): the same pages whether or not the VM was charged for them.
Release(r, n, size) ==
    LET pages == Pages(r.memory_mb, size)
    IN /\ allocated_vcpus' = [allocated_vcpus EXCEPT ![n] = SaturatingSub(@, r.vcpus)]
       /\ allocated_1g_pages' =
             [allocated_1g_pages EXCEPT ![n] =
                 SaturatingSub(@, IF size = "1G" THEN pages ELSE 0)]
       /\ allocated_2m_pages' =
             [allocated_2m_pages EXCEPT ![n] =
                 SaturatingSub(@, IF size = "2M" THEN pages ELSE 0)]

-----------------------------------------------------------------------------
(* The callers *)

\* "placed"       create_vm has its placement and has not spawned QEMU yet
\* "running"      registered with a process
\* "saved"        after a restart: a state file not recovered yet
\* "stopped"      recovered without a process
Status == {"absent", "placed", "running", "saved", "stopped"}
NoVm == [status |-> "absent", req |-> [vcpus |-> 0, memory_mb |-> 0, confidential |-> FALSE],
         node |-> 0, size |-> "2M", saved |-> FALSE]

Init ==
    /\ allocated_vcpus = [n \in Nodes |-> 0]
    /\ allocated_2m_pages = [n \in Nodes |-> 0]
    /\ allocated_1g_pages = [n \in Nodes |-> 0]
    /\ vm = [v \in Vms |-> NoVm]
    /\ active = {}
    /\ restarts = 0

\* The server takes requests once recover_vms has gone through the files.
Serving == \A v \in Vms : vm[v].status # "saved"

\* create_vm asks for a placement; when no candidate has room the call fails
\* and nothing changes.
Place(v, r, hint) ==
    /\ Serving
    /\ vm[v].status = "absent"
    /\ \E n \in Nodes :
          /\ IsFirstFit(r, hint, n)
          /\ Take(r, n)
          /\ vm' = [vm EXCEPT ![v] = [status |-> "placed", req |-> r, node |-> n,
                                      size |-> PageSize(r, n), saved |-> FALSE]]
    /\ UNCHANGED <<active, restarts>>

\* QEMU is spawned (systemd-run refuses the name of a unit that is still
\* there), its state is saved, or that fails and is only logged, and the handle
\* is registered.
Start(v) ==
    /\ vm[v].status = "placed"
    /\ v \notin active
    /\ \E ok \in BOOLEAN :
          vm' = [vm EXCEPT ![v] = [@ EXCEPT !.status = "running", !.saved = ok]]
    /\ active' = active \cup {v}
    /\ UNCHANGED <<counters, restarts>>

\* Mutant: the failure path forgets the NUMA allocation.
SpawnFailsKeeps(v) ==
    /\ vm[v].status = "placed"
    /\ vm' = [vm EXCEPT ![v] = NoVm]
    /\ UNCHANGED <<counters, active, restarts>>

\* The failure path of QemuProcess::spawn.
SpawnFails(v) ==
    /\ vm[v].status = "placed"
    /\ Release(vm[v].req, vm[v].node, vm[v].size)
    /\ vm' = [vm EXCEPT ![v] = NoVm]
    /\ UNCHANGED <<active, restarts>>

\* QEMU exits; the manager does not notice.
Exit(v) ==
    /\ v \in active
    /\ active' = active \ {v}
    /\ UNCHANGED <<counters, vm, restarts>>

\* delete_vm: numa_node is set on every handle, recovered ones included.
Delete(v) ==
    /\ Serving
    /\ vm[v].status \in {"running", "stopped"}
    /\ Release(vm[v].req, vm[v].node, vm[v].size)
    /\ vm' = [vm EXCEPT ![v] = NoVm]
    /\ active' = active \ {v}
    /\ UNCHANGED restarts

\* The orchestrator restarts: the counters start from zero; the state files
\* that were written and the QEMU processes are still there.
Restart ==
    /\ restarts < MaxRestarts
    /\ restarts' = restarts + 1
    /\ allocated_vcpus' = [n \in Nodes |-> 0]
    /\ allocated_2m_pages' = [n \in Nodes |-> 0]
    /\ allocated_1g_pages' = [n \in Nodes |-> 0]
    /\ vm' = [v \in Vms |-> IF vm[v].saved THEN [vm[v] EXCEPT !.status = "saved"]
                            ELSE NoVm]
    /\ UNCHANGED active

\* recover_vms finds the unit active: it asks for the node of the state file,
\* ignores the page size it is given and only logs a refusal.
RecoverRunning(v) ==
    /\ vm[v].status = "saved"
    /\ v \in active
    /\ IF Fits(vm[v].req, vm[v].node) THEN Take(vm[v].req, vm[v].node)
                                      ELSE UNCHANGED counters
    /\ vm' = [vm EXCEPT ![v].status = "running"]
    /\ UNCHANGED <<active, restarts>>

\* recover_vms finds the unit inactive: nothing is allocated.
RecoverStopped(v) ==
    /\ vm[v].status = "saved"
    /\ v \notin active
    /\ vm' = [vm EXCEPT ![v].status = "stopped"]
    /\ UNCHANGED <<counters, active, restarts>>

Next ==
    \/ \E v \in Vms :
          \/ \E r \in Requests, hint \in Nodes \cup {NoHint} : Place(v, r, hint)
          \/ Start(v) \/ SpawnFails(v) \/ Exit(v) \/ Delete(v)
          \/ RecoverRunning(v) \/ RecoverStopped(v)
    \/ Restart

Spec == Init /\ [][Next]_vars

-----------------------------------------------------------------------------
(* Properties *)

\* Every variable has its type.
TypeOK ==
    /\ allocated_vcpus \in [Nodes -> Nat]
    /\ allocated_2m_pages \in [Nodes -> Nat]
    /\ allocated_1g_pages \in [Nodes -> Nat]
    /\ vm \in [Vms -> [status : Status, req : RequestSet, node : Nodes \cup {0},
                       size : {"2M", "1G"}, saved : BOOLEAN]]
    /\ \A v \in Vms : vm[v].status # "absent" \/ vm[v].saved => vm[v].node \in Nodes
    /\ active \subseteq Vms
    /\ restarts \in 0..MaxRestarts

\* The VMs on node n the manager has charged, and what they really use: every
\* vCPU and page of a VM is one unit, and a sum is a number of units.
OnNode(n) == {v \in Vms : vm[v].status \in {"placed", "running"} /\ vm[v].node = n}
Units(S, amount) == UNION {{v} \X (1..amount[v]) : v \in S}
VcpusOf == [v \in Vms |-> vm[v].req.vcpus]
PagesOf(size) ==
    [v \in Vms |-> IF vm[v].req.confidential /\ vm[v].size = size
                   THEN Pages(vm[v].req.memory_mb, size) ELSE 0]
Vcpus(S) == Cardinality(Units(S, VcpusOf))
UsedPages(S, size) == Cardinality(Units(S, PagesOf(size)))

\* allocate() never hands out more of a node than the node has: no counter
\* exceeds its capacity, whatever the order of calls, releases that saturate,
\* and restarts (so `allocated + request` cannot overflow either).
WithinCapacity ==
    \A n \in Nodes :
        /\ allocated_vcpus[n] <= Cpus[n]
        /\ allocated_2m_pages[n] <= Total2m[n]
        /\ allocated_1g_pages[n] <= Total1g[n]

\* Until the first restart, the VMs placed on a node together have no more
\* vCPUs than the node has CPUs, and the count is exact: failed spawns and
\* deletions give back exactly what their VM was charged.
VcpusExact ==
    restarts = 0 => \A n \in Nodes :
        /\ allocated_vcpus[n] = Vcpus(OnNode(n))
        /\ Vcpus(OnNode(n)) <= Cpus[n]

\* The same for the 1G pages.
GigapagesExact ==
    restarts = 0 => \A n \in Nodes :
        /\ allocated_1g_pages[n] = UsedPages(OnNode(n), "1G")
        /\ UsedPages(OnNode(n), "1G") <= Total1g[n]

\* Until the first restart no 2M page is lost: a page that no VM uses can be
\* given out again.
NoSmallPageLost ==
    restarts = 0 => \A n \in Nodes :
        allocated_2m_pages[n] <= UsedPages(OnNode(n), "2M")

(* What the repository says of this code and the code does not do *)

\* "Selected ... with enough free CPUs and memory": the confidential VMs that
\* were placed on a node together fit in its 2M pages.
SmallPagesFit ==
    restarts = 0 => \A n \in Nodes :
        UsedPages(OnNode(n), "2M") <= Total2m[n]
=============================================================================
