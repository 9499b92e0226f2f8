----------------------------- MODULE VmRefinement -----------------------------
(***************************************************************************)
(* The refinement mapping from VmManager, with its twenty steps per create *)
(* and its concurrent handlers, to the atomic registry of VmRegistry.       *)
(***************************************************************************)
EXTENDS VmManager

CONSTANT NotRegistered   \* the registry's entry for an id without a handle

ASSUME NotRegisteredAssumption ==
    NotRegistered \notin [off : 0..MaxOffset, v6 : Addrs]

\* The address of a handle.  Offset 0 stands for an id without one.
AddressOf(h) == [off |-> h.off, v6 |-> h.v6]

Registry ==
    INSTANCE VmRegistry WITH
        Addresses <- [off : 0..MaxOffset, v6 : Addrs],
        NotListed <- NotRegistered,
        serving   <- (phase = "up"),
        listed    <- [v \in Vms |-> IF Registered(v) THEN AddressOf(vms[v])
                                                     ELSE NotRegistered],
        saved     <- {v \in Vms : files[v] # NoFile}

\* The compute node is a registry to its clients: whatever the interleaving of
\* the steps of concurrent create_vm and delete_vm calls, of failures, of
\* cancelled calls and of restarts, an id appears in one step with the address
\* it keeps, only when it was not registered, disappears in one step, and
\* after a restart comes back only from a state file and before the node
\* serves again.
ImplementsRegistry == Registry!RegistrySpec

=============================================================================
