------------------------------ MODULE Ipv6Ranges ------------------------------
(***************************************************************************)
(* Ipv6RangeAllocator: the IPv6 ranges of VMs, out of one pool.  A range is *)
(* an address and a prefix length, and the address need not be the first of *)
(* its range.  The allocator is behind a mutex: a call is a step.  A call   *)
(* that fails, for lack of a free range or by a panic of the random number  *)
(* generator on a pool of one address, changes nothing.                     *)
(***************************************************************************)
EXTENDS Integers

CONSTANTS
    AddrBits,        \* bits of an address (128)
    Pool,            \* the pool: [addr, len]
    DefaultPrefix,   \* the length of a range that was not asked for (128)
    RandomLimit,     \* u64::MAX, as far as offsets are drawn
    Requested,       \* the ranges that create_vm calls and state files name
    VmIds,
    NoNet            \* a VM without a range

Nets == [addr : Nat, len : 0..AddrBits]

ASSUME RangesAssumption ==
    /\ AddrBits \in Nat
    /\ Pool \in Nets
    /\ DefaultPrefix \in 0..AddrBits
    /\ RandomLimit \in Nat
    /\ Requested \subseteq Nets
    /\ NoNet \notin Nets

VARIABLE allocations   \* Ipv6RangeAllocator::allocations

RangesInit == allocations = [v \in VmIds |-> NoNet]

-----------------------------------------------------------------------------

\* The addresses of a range (ipnet), and the first and the last of them.
Size(n)      == 2 ^ (AddrBits - n.len)
network(n)   == n.addr - (n.addr % Size(n))
broadcast(n) == network(n) + Size(n) - 1

contains(n) == network(n) >= network(Pool) /\ broadcast(n) <= broadcast(Pool)

Meets(n, m) == network(n) <= broadcast(m) /\ broadcast(n) >= network(m)

\* Mutant: only the first address of the new range is looked up.
OverlapsAtStart(n) ==
    \E v \in VmIds :
        /\ allocations[v] # NoNet
        /\ network(n) \in network(allocations[v])..broadcast(allocations[v])

overlaps(n) == \E v \in VmIds : allocations[v] # NoNet /\ Meets(n, allocations[v])

\* The ranges that random_address may draw: never the pool's first address.
RandomAddresses ==
    LET count == IF Size(Pool) <= RandomLimit THEN Size(Pool) ELSE RandomLimit
    IN {[addr |-> network(Pool) + offset, len |-> DefaultPrefix] : offset \in 1..count - 1}

\* allocate: of create_vm with or without a wish, and of recover_vms with what
\* the state file says.  An earlier range of the same id is forgotten, after it
\* has been in the way of the new one.
allocate(v, n) ==
    /\ n \in Requested \cup RandomAddresses
    /\ contains(n)
    /\ ~overlaps(n)
    /\ allocations' = [allocations EXCEPT ![v] = n]

\* release: of delete_vm and of the failure paths of create_vm.
release(v) ==
    /\ allocations[v] # NoNet
    /\ allocations' = [allocations EXCEPT ![v] = NoNet]

\* A restart of the orchestrator begins with an empty allocator.
RangesRestart ==
    /\ \E v \in VmIds : allocations[v] # NoNet
    /\ allocations' = [v \in VmIds |-> NoNet]

RangesNext ==
    \/ \E v \in VmIds :
          \/ \E n \in Requested \cup RandomAddresses : allocate(v, n)
          \/ release(v)
    \/ RangesRestart

RangesSpec == RangesInit /\ [][RangesNext]_allocations

-----------------------------------------------------------------------------
(* Properties *)

\* No address is in the ranges of two VMs, and every range lies in the pool:
\* whatever the mixture of prefix lengths, of wishes and random addresses, of
\* host bits in the addresses asked for, and of creates that reuse an id.
RangesDisjoint ==
    \A v \in VmIds : allocations[v] # NoNet =>
        LET addresses(u) == network(allocations[u])..broadcast(allocations[u])
        IN /\ addresses(v) \subseteq network(Pool)..broadcast(Pool)
           /\ \A u \in VmIds \ {v} : allocations[u] # NoNet => addresses(u) \cap addresses(v) = {}

=============================================================================
