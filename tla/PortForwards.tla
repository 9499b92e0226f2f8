---------------------------- MODULE PortForwards ----------------------------
(***************************************************************************)
(* Port forwards: add_port_forward, remove_port_forward, the part of        *)
(* delete_vm and recover_vms that concerns forwards (vm/manager.rs), the    *)
(* map they share (PortForwardState), the DNAT rules they put into the      *)
(* kernel and the copy of the map they keep in the VMs' state files.        *)
(*                                                                          *)
(* A forward is identified by its host port; the code's key is the port and *)
(* the protocol.  The rules are a set: the code may add a rule twice, which *)
(* forwards no differently.  Creating a VM is one step here (VmManager has  *)
(* its interleavings).                                                      *)
(*                                                                          *)
(* The lock on the map is released between the steps of a call, a failure   *)
(* is mostly ignored, and a call is dropped at an await when its client     *)
(* goes away.  The history variable suspect collects the host ports that    *)
(* one of these has hit, at the step where the harm is done; the properties *)
(* say that the map, the files and the kernel agree about all other ports.  *)
(***************************************************************************)
EXTENDS Naturals, FiniteSets

CONSTANTS
    Vms,          \* VM ids
    NoVm,         \* no VM
    Ports,        \* host ports
    Ips,          \* guest addresses
    NoIp,         \* no address
    Slots,        \* add_port_forward and remove_port_forward calls
    MaxCalls,     \* calls in flight at a time, delete_vm included
    MaxFailures,  \* bound on nft removals and file writes that fail
    MaxCrashes    \* bound on restarts of the orchestrator or the host

ASSUME PortsAssumption ==
    /\ NoVm \notin Vms
    /\ NoIp \notin Ips
    /\ IsFiniteSet(Slots)
    /\ MaxCalls \in Nat
    /\ MaxFailures \in Nat
    /\ MaxCrashes \in Nat

VARIABLES
    pending,   \* state files recover_vms has not loaded yet
    handle,    \* VmManager.vms: state and ip
    forwards,  \* PortForwardState.forwards: host port -> VM
    dnat,      \* DNAT rules of the supervisor's prerouting chain
    chains,    \* VMs with a filter chain
    alive,     \* VMs whose QEMU unit is active
    files,     \* state files: ip and port_forwards
    used,      \* used_ip_offsets, as addresses
    call,      \* add_port_forward and remove_port_forward calls
    del,       \* the delete_vm call, which holds vms.write()
    failures,  \* failed removals and writes so far
    crashes,
    suspect,   \* history: ports whose copies may differ
    misfiled   \* history: VMs whose state file may be missing or another VM's

kernel == <<dnat, chains, alive>>
history == <<suspect, misfiled>>
vars == <<pending, handle, forwards, kernel, files, used, call, del, failures, crashes, history>>

-----------------------------------------------------------------------------

NoHandle == [state |-> "absent", ip |-> NoIp]
Handles  == [state : {"absent", "running", "stopped"}, ip : Ips \cup {NoIp}]
NoFile   == [ip |-> NoIp, ports |-> {}]
Files    == [ip : Ips \cup {NoIp}, ports : SUBSET Ports]
Rules    == [port : Ports, ip : Ips \cup {NoIp}]

\* A call: where it is, its VM and port, the guest_ip it read, and the
\* PersistedVm it is rewriting.
NoCall == [pc |-> "idle", vm |-> NoVm, port |-> 0, ip |-> NoIp, file |-> NoFile]
NoDelete == [pc |-> "idle", vm |-> NoVm, ip |-> NoIp, ports |-> {}]

CallPcs   == {"reserve", "rule", "rollback", "unrule", "read", "list", "save"}
DeletePcs == {"forwards", "rules", "chain", "file"}
Calls     == [pc : CallPcs \cup {"idle"}, vm : Vms \cup {NoVm}, port : Ports \cup {0},
              ip : Ips \cup {NoIp}, file : Files]
Deletes   == [pc : DeletePcs \cup {"idle"}, vm : Vms \cup {NoVm}, ip : Ips \cup {NoIp},
              ports : SUBSET Ports]

Init ==
    /\ pending = {}
    /\ handle = [v \in Vms |-> NoHandle]
    /\ forwards = [p \in Ports |-> NoVm]
    /\ dnat = {}
    /\ chains = {}
    /\ alive = {}
    /\ files = [v \in Vms |-> NoFile]
    /\ used = {}
    /\ call = [s \in Slots |-> NoCall]
    /\ del = NoDelete
    /\ failures = 0
    /\ crashes = 0
    /\ suspect = {}
    /\ misfiled = {}

Registered(v) == handle[v].state # "absent"
Busy(s)       == call[s].pc # "idle"
Deleting      == del.pc # "idle"

\* Requests are served once recover_vms is through.
Serving == pending = {}

InFlight == Cardinality({s \in Slots : Busy(s)}) + (IF Deleting THEN 1 ELSE 0)
MayBegin == Serving /\ InFlight < MaxCalls

At(s, pc)   == call[s].pc = pc
Goto(s, pc) == call' = [call EXCEPT ![s].pc = pc]
Return(s)   == call' = [call EXCEPT ![s] = NoCall]

\* One more removal or write that fails.
Fail == failures < MaxFailures /\ failures' = failures + 1

-----------------------------------------------------------------------------
(* PortForwardState and the DNAT rules *)

ListForVm(v)   == {p \in Ports : forwards[p] = v}
IsAvailable(p) == forwards[p] = NoVm
Rule(p, ip)    == [port |-> p, ip |-> ip]

\* Every rule for the host port is deleted, whatever it points to.
Without(ports) == {r \in dnat : r.port \notin ports}

-----------------------------------------------------------------------------
(* The history of what may have gone wrong *)

Suspect(ports) == suspect' = suspect \cup ports

\* A call that has reserved or released its port.
Holds(s) == ~At(s, "idle") /\ ~At(s, "reserve")

\* When s takes port p for VM v: another call is at work on p, one is about to
\* save a list of v's forwards that it made before, the state file of another
\* VM still claims p, or a delete_vm still has to remove the rules of p.
Contested(s, v, p) ==
    \/ \E t \in Slots \ {s} : \/ Holds(t) /\ call[t].port = p
                              \/ At(t, "save") /\ call[t].vm = v
    \/ \E w \in Vms \ {v} : p \in files[w].ports
    \/ del.pc = "rules" /\ p \in del.ports

\* A state file has the port, or a call is about to save it.
OnDisk(p) ==
    \/ \E v \in Vms : p \in files[v].ports
    \/ \E s \in Slots : At(s, "save") /\ p \in call[s].file.ports

\* The forwards of a VM and the ports of the calls on it.
PortsOf(v) == ListForVm(v) \cup {p \in Ports : \E s \in Slots :
                                    Holds(s) /\ call[s].vm = v /\ call[s].port = p}

-----------------------------------------------------------------------------
(* add_port_forward *)

\* The VM exists and its address is read; the vms lock is released.
BeginAdd(s, v) ==
    /\ MayBegin
    /\ At(s, "idle")
    /\ ~Deleting
    /\ Registered(v)
    /\ call' = [call EXCEPT ![s] = [NoCall EXCEPT !.pc = "reserve", !.vm = v,
                                                  !.ip = handle[v].ip]]
    /\ UNCHANGED <<pending, handle, forwards, kernel, files, used, del, failures, crashes, history>>

\* The VM has been deleted meanwhile, and perhaps created again.
Outdated(s) == call[s].ip # handle[call[s].vm].ip

\* Mutant: the port is not looked up before it is reserved.
ReserveBlindly(s, p) ==
    /\ At(s, "reserve")
    /\ forwards' = [forwards EXCEPT ![p] = call[s].vm]
    /\ call' = [call EXCEPT ![s] = [@ EXCEPT !.pc = "rule", !.port = p]]
    /\ Suspect(IF Outdated(s) \/ Contested(s, call[s].vm, p) THEN {p} ELSE {})
    /\ UNCHANGED <<pending, handle, kernel, files, used, del, failures, crashes, misfiled>>

\* Mutant: the rule is made for the requested port, 0, not the allocated one.
ReserveRequestedPort(s, p) ==
    /\ At(s, "reserve")
    /\ IsAvailable(p)
    /\ forwards' = [forwards EXCEPT ![p] = call[s].vm]
    /\ Goto(s, "rule")
    /\ UNCHANGED <<pending, handle, kernel, files, used, del, failures, crashes, history>>

\* Allocate, check and reserve under one lock.  The port is the requested one
\* or, when that is 0, the lowest available one from 10000 on.
Reserve(s, p) ==
    /\ At(s, "reserve")
    /\ IsAvailable(p)
    /\ forwards' = [forwards EXCEPT ![p] = call[s].vm]
    /\ call' = [call EXCEPT ![s] = [@ EXCEPT !.pc = "rule", !.port = p]]
    /\ Suspect(IF Outdated(s) \/ Contested(s, call[s].vm, p) THEN {p} ELSE {})
    /\ UNCHANGED <<pending, handle, kernel, files, used, del, failures, crashes, misfiled>>

\* The requested port is in use, or none is left.
ReserveRefused(s) ==
    /\ At(s, "reserve")
    /\ \E p \in Ports : ~IsAvailable(p)
    /\ Return(s)
    /\ UNCHANGED <<pending, handle, forwards, kernel, files, used, del, failures, crashes, history>>

\* nftables.add_port_forward: the DNAT rule and the accept rule are one batch,
\* which needs the VM's filter chain.
AddRule(s) ==
    /\ At(s, "rule")
    /\ call[s].vm \in chains
    /\ dnat' = dnat \cup {Rule(call[s].port, call[s].ip)}
    /\ Goto(s, "read")
    /\ UNCHANGED <<pending, handle, forwards, chains, alive, files, used, del, failures, crashes,
                   history>>

AddRuleFails(s) ==
    /\ At(s, "rule")
    /\ Goto(s, "rollback")
    /\ UNCHANGED <<pending, handle, forwards, kernel, files, used, del, failures, crashes, history>>

\* The reservation of the port is dropped, whoever holds it by now; another
\* call may have saved it.
Rollback(s) ==
    /\ At(s, "rollback")
    /\ forwards' = [forwards EXCEPT ![call[s].port] = NoVm]
    /\ Return(s)
    /\ Suspect(IF OnDisk(call[s].port) THEN {call[s].port} ELSE {})
    /\ UNCHANGED <<pending, handle, kernel, files, used, del, failures, crashes, misfiled>>

-----------------------------------------------------------------------------
(* remove_port_forward *)

BeginRemove(s, p) ==
    /\ MayBegin
    /\ At(s, "idle")
    /\ ~IsAvailable(p)
    /\ forwards' = [forwards EXCEPT ![p] = NoVm]
    /\ call' = [call EXCEPT ![s] = [NoCall EXCEPT !.pc = "unrule", !.vm = forwards[p],
                                                  !.port = p]]
    /\ Suspect(IF Contested(s, forwards[p], p) THEN {p} ELSE {})
    /\ UNCHANGED <<pending, handle, kernel, files, used, del, failures, crashes, misfiled>>

\* Mutant: the rule is left in the kernel.
RemoveRuleNone(s) ==
    /\ At(s, "unrule")
    /\ Goto(s, "read")
    /\ UNCHANGED <<pending, handle, forwards, kernel, files, used, del, failures, crashes, history>>

RemoveRule(s) ==
    /\ At(s, "unrule")
    /\ dnat' = Without({call[s].port})
    /\ Goto(s, "read")
    /\ UNCHANGED <<pending, handle, forwards, chains, alive, files, used, del, failures, crashes,
                   history>>

\* nft fails: `?` returns, the reservation is gone, the state file keeps it.
RemoveRuleFails(s) ==
    /\ At(s, "unrule")
    /\ Fail
    /\ Return(s)
    /\ Suspect({call[s].port})
    /\ UNCHANGED <<pending, handle, forwards, kernel, files, used, del, crashes, misfiled>>

-----------------------------------------------------------------------------
(* update_persisted_port_forwards *)

\* The file is read first; without one there is nothing to do.
PersistRead(s) ==
    /\ At(s, "read")
    /\ LET file == files[call[s].vm]
       IN IF file = NoFile THEN Return(s)
          ELSE call' = [call EXCEPT ![s] = [@ EXCEPT !.pc = "list", !.file = file]]
    /\ UNCHANGED <<pending, handle, forwards, kernel, files, used, del, failures, crashes, history>>

\* Mutant: the forwards of the file are written back.
PersistListStale(s) ==
    /\ At(s, "list")
    /\ Goto(s, "save")
    /\ UNCHANGED <<pending, handle, forwards, kernel, files, used, del, failures, crashes, history>>

\* The VM's forwards, under the lock, which is dropped before the write.
PersistList(s) ==
    /\ At(s, "list")
    /\ call' = [call EXCEPT ![s] =
                   [@ EXCEPT !.pc = "save", !.file.ports = ListForVm(call[s].vm)]]
    /\ UNCHANGED <<pending, handle, forwards, kernel, files, used, del, failures, crashes, history>>

\* The VM of the file that was read may be gone by now.
PersistSave(s) ==
    /\ At(s, "save")
    /\ files' = [files EXCEPT ![call[s].vm] = call[s].file]
    /\ Return(s)
    /\ misfiled' = IF call[s].file.ip = handle[call[s].vm].ip THEN misfiled
                   ELSE misfiled \cup {call[s].vm}
    /\ UNCHANGED <<pending, handle, forwards, kernel, used, del, failures, crashes, suspect>>

\* save_vm fails; the error is ignored.
PersistSaveFails(s) ==
    /\ At(s, "save")
    /\ Fail
    /\ Return(s)
    /\ Suspect({call[s].port})
    /\ UNCHANGED <<pending, handle, forwards, kernel, files, used, del, crashes, misfiled>>

\* The client goes away while the call waits for the lock on the map.
DropCall(s) ==
    /\ call[s].pc \in {"reserve", "rollback", "list"}
    /\ Return(s)
    /\ Suspect(IF At(s, "reserve") THEN {} ELSE {call[s].port})
    /\ UNCHANGED <<pending, handle, forwards, kernel, files, used, del, failures, crashes, misfiled>>

-----------------------------------------------------------------------------
(* create_vm and delete_vm *)

\* create_vm, with its chain, its QEMU, its state file (or not) and its handle.
Create(v) ==
    /\ Serving
    /\ ~Deleting
    /\ ~Registered(v)
    /\ v \notin alive
    /\ \E ip \in Ips \ used :
          /\ handle' = [handle EXCEPT ![v] = [state |-> "running", ip |-> ip]]
          /\ used' = used \cup {ip}
          /\ \/ /\ files' = [files EXCEPT ![v] = [ip |-> ip, ports |-> {}]]
                /\ UNCHANGED <<failures, misfiled>>
             \/ Fail /\ UNCHANGED files /\ misfiled' = misfiled \cup {v}
    /\ chains' = chains \cup {v}
    /\ alive' = alive \cup {v}
    /\ UNCHANGED <<pending, forwards, dnat, call, del, crashes, suspect>>

\* The handle is removed and QEMU stopped.
BeginDelete(v) ==
    /\ MayBegin
    /\ ~Deleting
    /\ Registered(v)
    /\ handle' = [handle EXCEPT ![v] = NoHandle]
    /\ alive' = IF handle[v].state = "running" THEN alive \ {v} ELSE alive
    /\ del' = [NoDelete EXCEPT !.pc = "forwards", !.vm = v, !.ip = handle[v].ip]
    /\ UNCHANGED <<pending, forwards, dnat, chains, files, used, call, failures, crashes, history>>

\* remove_all_for_vm, perhaps under a call that works on one of them.
DeleteForwards ==
    /\ del.pc = "forwards"
    /\ forwards' = [p \in Ports |-> IF forwards[p] = del.vm THEN NoVm ELSE forwards[p]]
    /\ del' = [del EXCEPT !.pc = "rules", !.ports = ListForVm(del.vm)]
    /\ Suspect(IF \E s \in Slots : Holds(s) /\ call[s].vm = del.vm THEN PortsOf(del.vm) ELSE {})
    /\ UNCHANGED <<pending, handle, kernel, files, used, call, failures, crashes, misfiled>>

\* The rules of the forwards that were removed; failures are ignored.
DeleteRules ==
    /\ del.pc = "rules"
    /\ \/ dnat' = Without(del.ports) /\ UNCHANGED <<failures, suspect>>
       \/ /\ Fail
          /\ \E ports \in SUBSET del.ports : ports # del.ports /\ dnat' = Without(ports)
          /\ Suspect(del.ports)
    /\ del' = [del EXCEPT !.pc = "chain"]
    /\ UNCHANGED <<pending, handle, forwards, chains, alive, files, used, call, crashes, misfiled>>

\* teardown_vm; a failure is ignored.
DeleteChain ==
    /\ del.pc = "chain"
    /\ \/ chains' = chains \ {del.vm} /\ UNCHANGED failures
       \/ Fail /\ UNCHANGED chains
    /\ del' = [del EXCEPT !.pc = "file"]
    /\ UNCHANGED <<pending, handle, forwards, dnat, alive, files, used, call, crashes, history>>

\* The IP offset is reclaimed, and persistence::delete_vm, whose failure is
\* only logged.
DeleteFile ==
    /\ del.pc = "file"
    /\ \/ files' = [files EXCEPT ![del.vm] = NoFile] /\ UNCHANGED failures
       \/ Fail /\ UNCHANGED files
    /\ used' = used \ {del.ip}
    /\ del' = NoDelete
    /\ UNCHANGED <<pending, handle, forwards, kernel, call, crashes, history>>

\* The client goes away at one of the awaits: of the locks on the NUMA state
\* and on the map, of the NDP proxy and the lock on the IPv6 ranges, of the
\* removal of the TAP interface and the lock on the offsets.
DropDelete ==
    /\ del.pc \in {"forwards", "chain", "file"}
    /\ del' = NoDelete
    /\ Suspect(IF del.pc = "forwards" THEN PortsOf(del.vm) ELSE {})
    /\ UNCHANGED <<pending, handle, forwards, kernel, files, used, call, failures, crashes,
                   misfiled>>

-----------------------------------------------------------------------------
(* Restart and recovery *)

ForgetMemory ==
    /\ crashes < MaxCrashes
    /\ crashes' = crashes + 1
    /\ pending' = {v \in Vms : files[v] # NoFile}
    /\ handle' = [v \in Vms |-> NoHandle]
    /\ forwards' = [p \in Ports |-> NoVm]
    /\ used' = {}
    /\ call' = [s \in Slots |-> NoCall]
    /\ del' = NoDelete

\* The orchestrator restarts.
Crash ==
    /\ ForgetMemory
    /\ UNCHANGED <<kernel, files, failures, history>>

\* The host restarts.
Reboot ==
    /\ ForgetMemory
    /\ dnat' = {}
    /\ chains' = {}
    /\ alive' = {}
    /\ UNCHANGED <<files, failures, history>>

\* Mutant: the forwards are restored in memory only.
RecoverNoReplay(v) ==
    /\ v \in pending
    /\ pending' = pending \ {v}
    /\ forwards' = [p \in Ports |-> IF p \in files[v].ports THEN v ELSE forwards[p]]
    /\ used' = used \cup {files[v].ip}
    /\ handle' = [handle EXCEPT ![v] =
                     [state |-> IF v \in alive THEN "running" ELSE "stopped",
                      ip |-> files[v].ip]]
    /\ UNCHANGED <<kernel, files, call, del, failures, crashes, history>>

\* recover_vms restores the forwards of the file, over those of a file loaded
\* before, and for a running VM its chain and its rules (setup_vm, or a rule,
\* may fail with a warning).
Recover(v) ==
    /\ v \in pending
    /\ pending' = pending \ {v}
    /\ forwards' = [p \in Ports |-> IF p \in files[v].ports THEN v ELSE forwards[p]]
    /\ used' = used \cup {files[v].ip}
    /\ \/ /\ v \in alive
          /\ handle' = [handle EXCEPT ![v] = [state |-> "running", ip |-> files[v].ip]]
          /\ chains' = chains \cup {v}
          /\ \/ /\ dnat' = dnat \cup {Rule(p, files[v].ip) : p \in files[v].ports}
                /\ UNCHANGED <<failures, suspect>>
             \/ Fail /\ \E ports \in SUBSET files[v].ports :
                   /\ ports # files[v].ports
                   /\ dnat' = dnat \cup {Rule(p, files[v].ip) : p \in ports}
                   /\ Suspect(files[v].ports \ ports)
       \/ /\ v \notin alive
          /\ handle' = [handle EXCEPT ![v] = [state |-> "stopped", ip |-> files[v].ip]]
          /\ UNCHANGED <<dnat, chains, failures, suspect>>
    /\ UNCHANGED <<alive, files, call, del, crashes, misfiled>>

\* QEMU exits by itself.
UnitExits(v) ==
    /\ v \in alive
    /\ alive' = alive \ {v}
    /\ UNCHANGED <<pending, handle, forwards, dnat, chains, files, used, call, del, failures,
                   crashes, history>>

CallStep(s) ==
    \/ \E p \in Ports : Reserve(s, p)
    \/ ReserveRefused(s) \/ AddRule(s) \/ AddRuleFails(s) \/ Rollback(s)
    \/ RemoveRule(s) \/ RemoveRuleFails(s)
    \/ PersistRead(s) \/ PersistList(s) \/ PersistSave(s) \/ PersistSaveFails(s)
    \/ DropCall(s)

Next ==
    \/ \E s \in Slots :
          \/ \E v \in Vms : BeginAdd(s, v)
          \/ \E p \in Ports : BeginRemove(s, p)
          \/ CallStep(s)
    \/ \E v \in Vms : Create(v) \/ BeginDelete(v) \/ Recover(v) \/ UnitExits(v)
    \/ DeleteForwards \/ DeleteRules \/ DeleteChain \/ DeleteFile \/ DropDelete
    \/ Crash \/ Reboot

Spec == Init /\ [][Next]_vars

-----------------------------------------------------------------------------
(* Properties *)

\* Every variable has its type.
TypeOK ==
    /\ pending \subseteq Vms
    /\ handle \in [Vms -> Handles]
    /\ forwards \in [Ports -> Vms \cup {NoVm}]
    /\ dnat \subseteq Rules
    /\ chains \subseteq Vms
    /\ alive \subseteq Vms
    /\ files \in [Vms -> Files]
    /\ used \subseteq Ips \cup {NoIp}
    /\ call \in [Slots -> Calls]
    /\ del \in Deletes
    /\ failures \in 0..MaxFailures
    /\ crashes \in 0..MaxCrashes
    /\ suspect \subseteq Ports
    /\ misfiled \subseteq Vms

\* Nothing has gone wrong with the port, and no call is at work on it.
Settled(p) == p \notin suspect /\ ~\E s \in Slots : Holds(s) /\ call[s].port = p

\* Until the first restart, the rules in the kernel are those of the map:
\* rolled back, removed and deleted forwards leave none behind, and every
\* forward leads to the VM that asked for it, whatever other calls do.
RulesMatchForwards ==
    crashes = 0 /\ ~Deleting => \A p \in Ports : Settled(p) =>
        {r \in dnat : r.port = p} =
            IF IsAvailable(p) THEN {} ELSE {Rule(p, handle[forwards[p]].ip)}

\* A forward of a running VM is in the kernel, across restarts too: the replay
\* of recover_vms misses none that the API lists.
ListedIsForwarded ==
    \A p \in Ports :
        Settled(p) /\ ~IsAvailable(p) /\ handle[forwards[p]].state = "running" =>
            Rule(p, handle[forwards[p]].ip) \in dnat

\* A VM's state file has its address and, of its forwards, those that the API
\* lists and no other, so that a restart brings them back: also when calls on
\* other ports of the VM are under way, or on the same port of other VMs.
PersistedMatchesForwards ==
    \A v \in Vms : Registered(v) /\ v \notin misfiled =>
        /\ files[v].ip = handle[v].ip
        /\ \A p \in Ports : Settled(p) => (p \in files[v].ports <=> forwards[p] = v)

\* A forward never passes from one VM to another in one step: a reserved port
\* is not given out again, and recover_vms finds no two state files with the
\* port, though it loads one over the other.
ForwardNeverStolen ==
    [][\A p \in Ports \ suspect : forwards[p] = NoVm \/ forwards'[p] \in {forwards[p], NoVm}]_vars

(* What the repository says of this code and the code does not do *)

\* "The host port is unique per forward, so there's no ambiguity."
HostPortUnambiguous == \A r, t \in dnat : r.port = t.port => r = t

=============================================================================
