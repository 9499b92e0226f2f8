-------------------------- MODULE MCNumaAllocator --------------------------
(* A host with a large and a small NUMA node.  Both pools are small enough  *)
(* that two VMs exhaust one, so requests fall back from 1G to 2M pages and  *)
(* from one node to the next.                                               *)
EXTENDS NumaAllocator, TLC

MCCpus    == <<4, 2>>
MCTotal2m == <<1024, 512>>
MCTotal1g == <<2, 0>>

MCRequests ==
    {[vcpus |-> 2, memory_mb |-> 2048, confidential |-> TRUE],
     [vcpus |-> 1, memory_mb |-> 1023, confidential |-> TRUE],
     [vcpus |-> 1, memory_mb |-> 1024, confidential |-> TRUE],
     [vcpus |-> 1, memory_mb |-> 1024, confidential |-> FALSE]}
VmSymmetry == Permutations(Vms)
=============================================================================
