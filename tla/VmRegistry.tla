------------------------------ MODULE VmRegistry ------------------------------
(***************************************************************************)
(* What the compute node promises to the clients of its gRPC interface:    *)
(* a registry of VMs, each with the address it was given.  A create_vm      *)
(* that succeeds registers its id in one step, a delete_vm removes it in    *)
(* one step, and a restart empties the registry and loads it again from     *)
(* the records that were saved, before the node serves again.  VmManager    *)
(* implements this registry (VmRefinement), and SchedulerAgent uses it as   *)
(* the compute node it talks to.                                            *)
(***************************************************************************)
CONSTANTS
    Vms,          \* VM ids
    Addresses,    \* what a VM can be given
    NotListed     \* no VM of that id

ASSUME RegistryAssumption == NotListed \notin Addresses

VARIABLES
    serving,   \* the gRPC server answers
    listed,    \* what list_vms and get_vm return for each id
    saved      \* the ids that have a state file

registry == <<serving, listed, saved>>

RegistryInit ==
    /\ serving = TRUE
    /\ listed = [v \in Vms |-> NotListed]
    /\ saved = {}

Listed(v) == listed[v] # NotListed

\* create_vm inserts the handle.
Register(v, a) ==
    /\ serving
    /\ ~Listed(v)
    /\ listed' = [listed EXCEPT ![v] = a]
    /\ UNCHANGED <<serving, saved>>

\* delete_vm takes the handle out of the map.
Deregister(v) ==
    /\ serving
    /\ Listed(v)
    /\ listed' = [listed EXCEPT ![v] = NotListed]
    /\ UNCHANGED <<serving, saved>>

\* The state file of a VM is written or removed.
Persist(v) ==
    /\ serving
    /\ saved' = saved \cup {v}
    /\ UNCHANGED <<serving, listed>>

Unpersist(v) ==
    /\ serving
    /\ saved' = saved \ {v}
    /\ UNCHANGED <<serving, listed>>

\* The orchestrator or the host restarts.
Restart ==
    /\ serving' = FALSE
    /\ listed' = [v \in Vms |-> NotListed]
    /\ UNCHANGED saved

\* recover_vms loads one state file, and returns.
Reload(v, a) ==
    /\ ~serving
    /\ v \in saved
    /\ ~Listed(v)
    /\ listed' = [listed EXCEPT ![v] = a]
    /\ UNCHANGED <<serving, saved>>

Resume ==
    /\ ~serving
    /\ serving' = TRUE
    /\ UNCHANGED <<listed, saved>>

RegistryNext ==
    \/ \E v \in Vms, a \in Addresses : Register(v, a) \/ Reload(v, a)
    \/ \E v \in Vms : Deregister(v) \/ Persist(v) \/ Unpersist(v)
    \/ Restart \/ Resume

RegistrySpec == RegistryInit /\ [][RegistryNext]_registry

=============================================================================
