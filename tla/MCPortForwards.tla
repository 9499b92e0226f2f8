--------------------------- MODULE MCPortForwards ---------------------------
(***************************************************************************)
(* PortForwards on a small instance: two VMs, two host ports, two calls in  *)
(* flight, one of them perhaps a delete_vm.                                 *)
(***************************************************************************)
EXTENDS PortForwards, TLC

Symmetry == Permutations(Vms) \cup Permutations(Ips) \cup Permutations(Slots)
               \cup Permutations(Ports)

\* One port is to stay unsuspected and the files are to be those of their VMs,
\* since the properties say nothing otherwise.  A run has a failure or a
\* restart, not both, and a failure that has made a port suspect is followed
\* by one call at a time.
WithinBounds ==
    /\ suspect # Ports
    /\ misfiled = {}
    /\ failures + crashes <= 1
    /\ failures = 0 \/ suspect = {} \/ InFlight <= 1

=============================================================================
