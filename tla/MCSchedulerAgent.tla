-------------------------- MODULE MCSchedulerAgent --------------------------
(* An instance of SchedulerAgent for TLC: a confidential instance, whose     *)
(* root volume is not cached yet, and a program, which the service refuses   *)
(* for its disk formats but another client may have started under that id.   *)
EXTENDS SchedulerAgent

Instance ==
    [item_hash |-> <<"lower">>, rootfs |-> "base", runtime |-> "", code |-> "", encoding |-> "",
     volumes |-> <<[ref |-> "", parent |-> ""]>>,
     trusted_execution |-> "sev", policy |-> "", vcpus |-> 1, memory |-> 512,
     published_ports |-> <<22>>]

Program ==
    [Instance EXCEPT !.item_hash = <<"digit">>, !.rootfs = "", !.runtime = "python",
                     !.code = "app", !.encoding = "zip",
                     !.volumes = <<[ref |-> "ro", parent |-> ""], [ref |-> "", parent |-> "rw"]>>,
                     !.trusted_execution = ""]

MCMessages == {Instance, Program}

MCVms == {m.item_hash : m \in MCMessages}

Body(persistent, instances) ==
    [signed |-> TRUE, parses |-> TRUE, persistent_vms |-> persistent, instances |-> instances]

MCBodies ==
    {Body({}, {<<"lower">>}), Body({<<"digit">>}, {<<"lower">>}),
     [Body({}, {}) EXCEPT !.signed = FALSE], [Body({}, {}) EXCEPT !.parses = FALSE]}

MCVolumes == {<<"runtime", "base">>, <<"runtime", "python">>, <<"code", "app">>,
              <<"data", "ro">>, <<"data", "rw">>}
MCCached  == MCVolumes \ {<<"runtime", "base">>}
MCPaths   == MCVolumes \cup {<<"boot", "bzImage">>, <<"boot", "initrd">>}
MCKernel  == <<"boot", "bzImage">>
MCInitrd  == <<"boot", "initrd">>
=============================================================================
