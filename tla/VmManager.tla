------------------------------ MODULE VmManager ------------------------------
(***************************************************************************)
(* The life cycle of the VMs of one compute node: VmManager::create_vm,     *)
(* delete_vm and recover_vms of aleph-compute-node/src/vm/manager.rs, run   *)
(* by concurrent gRPC handlers over                                         *)
(*   - memory of the orchestrator (vms, used_ip_offsets, the IPv6           *)
(*     allocator, the NDP proxy's ranges), lost when it restarts;           *)
(*   - files that survive (DHCP reservations, one state file per VM);       *)
(*   - kernel and systemd objects that survive the orchestrator and die     *)
(*     with the host (TAP interfaces, nftables chains, QEMU units).         *)
(* A step is the code from one externally visible effect to the next.  NUMA *)
(* accounting is NumaAllocator's, so here the allocation only succeeds or   *)
(* fails; port forwards are not part of this module.                        *)
(***************************************************************************)
EXTENDS Naturals

CONSTANTS
    Vms,         \* VM ids
    NoVm,        \* the vm field of an idle request
    Slots,       \* create_vm calls that may run at the same time
    MaxOffset,   \* offsets 1..MaxOffset are handed out (254 in the code)
    Pool,        \* addresses of the IPv6 pool
    NoAddr,      \* no IPv6 address
    Faults,      \* the environment faults that may happen, see below
    MaxCrashes   \* bound on orchestrator and host restarts

\* slow_restart   systemd waits RestartSec before it starts a failed unit again
\* stop_fails     `systemctl stop` returns non-zero
\* unlink_fails   a state file cannot be removed
\* cleanup_fails  `ip link delete` or the nftables teardown fails
\* load_fails     the state directory cannot be read at startup
\* cancel         a caller disconnects and tonic drops the handler's future
FaultKinds == {"slow_restart", "stop_fails", "unlink_fails", "cleanup_fails",
               "load_fails", "cancel"}

ASSUME ConstantsAssumption ==
    /\ NoVm \notin Vms
    /\ NoAddr \notin Pool
    /\ MaxOffset \in Nat
    /\ MaxCrashes \in Nat
    /\ Faults \subseteq FaultKinds

VARIABLES
    phase,    \* "recovering" until recover_vms returns, then "up"
    pending,  \* state files recover_vms has not loaded yet
    vms,      \* VmManager.vms: the registered handles
    used,     \* VmManager.used_ip_offsets
    ipv6,     \* Ipv6RangeAllocator.allocations
    ndp,      \* NdpProxy.ranges
    dhcp,     \* the offset in {hostsdir}/{vm_id}, 0 when there is no file
    dhcp6,    \* the address in {hostsdir}/{vm_id}.v6
    files,    \* {state_dir}/{vm_id}.json
    taps,     \* TAP interfaces tap-{vm_id} on the host
    nft,      \* VMs whose nftables chains exist
    unit,     \* systemd units aleph-cvm-vm-{vm_id}.service
    req,      \* the create_vm calls
    del,      \* the delete_vm call; it holds vms.write() from start to end
    crashes   \* restarts so far

memory == <<vms, used, ipv6, ndp>>
disk   == <<dhcp, dhcp6, files>>
host   == <<taps, nft, unit>>
boot   == <<phase, pending, crashes>>
vars   == <<boot, memory, disk, host, req, del>>

-----------------------------------------------------------------------------
(* Values *)

Offsets == 1..MaxOffset
Addrs   == Pool \cup {NoAddr}

\* VmHandle.  A handle has a process exactly when its state is Running.
NoHandle == [state |-> "absent", off |-> 0, v6 |-> NoAddr]
Handles  == [state : {"absent", "running", "stopped"}, off : Nat, v6 : Addrs]

\* PersistedVm
NoFile == [off |-> 0, v6 |-> NoAddr]
Files  == [off : Nat, v6 : Addrs]

CreatePcs ==
    {"offset", "ipv6", "dhcp", "dhcp6", "tap", "tapaddr", "nft", "ndp",
     "prepare", "spawn", "save", "insert",
     "undo_ndp", "undo_nft", "undo_tap", "undo_res", "undo_v6"}
DeletePcs ==
    {"stop", "ndp", "ipv6", "nft", "tap", "dhcp", "offset", "file"}

NoRequest == [pc |-> "idle", vm |-> NoVm, off |-> 0, v6 |-> NoAddr]
NoDelete  == [pc |-> "idle", vm |-> NoVm, h |-> NoHandle]

Init ==
    /\ phase = "up"
    /\ pending = {}
    /\ vms = [v \in Vms |-> NoHandle]
    /\ used = {}
    /\ ipv6 = [v \in Vms |-> NoAddr]
    /\ ndp = [v \in Vms |-> NoAddr]
    /\ dhcp = [v \in Vms |-> 0]
    /\ dhcp6 = [v \in Vms |-> NoAddr]
    /\ files = [v \in Vms |-> NoFile]
    /\ taps = {}
    /\ nft = {}
    /\ unit = [v \in Vms |-> "inactive"]
    /\ req = [s \in Slots |-> NoRequest]
    /\ del = NoDelete
    /\ crashes = 0

-----------------------------------------------------------------------------
(* create_vm *)

Registered(v) == vms[v].state # "absent"

\* vms.read() and vms.write() are free: no delete_vm holds the lock.
VmsUnlocked == del.pc = "idle"

At(s, pc)   == req[s].pc = pc
Goto(s, pc) == req' = [req EXCEPT ![s].pc = pc]

\* Mutant: a call that returns drops its id and stays where it was.
ReturnKeepsStep(s) == req' = [req EXCEPT ![s].vm = NoVm]

Return(s)   == req' = [req EXCEPT ![s] = NoRequest]

\* The duplicate check, under a read lock that is released at once.
CheckDuplicate(s, v) ==
    /\ phase = "up"
    /\ At(s, "idle")
    /\ VmsUnlocked
    /\ ~Registered(v)
    /\ req' = [req EXCEPT ![s] = [NoRequest EXCEPT !.pc = "offset", !.vm = v]]
    /\ UNCHANGED <<boot, memory, disk, host, del>>

IsLowestFree(o) ==
    o \in Offsets \ used /\ \A p \in Offsets \ used : o <= p

\* Mutant: the offset is chosen but not recorded as used.
TakeOffsetUnrecorded(s) ==
    /\ At(s, "offset")
    /\ \E o \in Offsets :
          /\ IsLowestFree(o)
          /\ req' = [req EXCEPT ![s] = [@ EXCEPT !.pc = "ipv6", !.off = o]]
    /\ UNCHANGED <<boot, memory, disk, host, del>>

\* The lowest free offset, found and recorded under one write lock.
TakeOffset(s) ==
    /\ At(s, "offset")
    /\ \E o \in Offsets :
          /\ IsLowestFree(o)
          /\ used' = used \cup {o}
          /\ req' = [req EXCEPT ![s] = [@ EXCEPT !.pc = "ipv6", !.off = o]]
    /\ UNCHANGED <<boot, vms, ipv6, ndp, disk, host, del>>

\* "IPv4 address pool exhausted"
OffsetsExhausted(s) ==
    /\ At(s, "offset")
    /\ Offsets \subseteq used
    /\ Return(s)
    /\ UNCHANGED <<boot, memory, disk, host, del>>

Ipv6Free(a) == \A v \in Vms : ipv6[v] # a

\* Requested or random, the address overlaps no recorded allocation; the
\* record is overwritten if the id already had one.
AllocateIpv6(s) ==
    /\ At(s, "ipv6")
    /\ \E a \in Pool :
          /\ Ipv6Free(a)
          /\ ipv6' = [ipv6 EXCEPT ![req[s].vm] = a]
          /\ req' = [req EXCEPT ![s] = [@ EXCEPT !.pc = "dhcp", !.v6 = a]]
    /\ UNCHANGED <<boot, vms, used, ndp, disk, host, del>>

\* A requested address is outside the pool or overlaps, or 100 random ones
\* did: `?` returns and the offset stays used.
AllocateIpv6Fails(s) ==
    /\ At(s, "ipv6")
    /\ Return(s)
    /\ UNCHANGED <<boot, memory, disk, host, del>>

WriteDhcp(s) ==
    /\ At(s, "dhcp")
    /\ dhcp' = [dhcp EXCEPT ![req[s].vm] = req[s].off]
    /\ Goto(s, "dhcp6")
    /\ UNCHANGED <<boot, memory, dhcp6, files, host, del>>

\* `?` returns: the offset and the IPv6 address stay allocated.
WriteDhcpFails(s) ==
    /\ At(s, "dhcp")
    /\ Return(s)
    /\ UNCHANGED <<boot, memory, disk, host, del>>

WriteDhcp6(s) ==
    /\ At(s, "dhcp6")
    /\ dhcp6' = [dhcp6 EXCEPT ![req[s].vm] = req[s].v6]
    /\ Goto(s, "tap")
    /\ UNCHANGED <<boot, memory, dhcp, files, host, del>>

\* The DHCPv4 reservation is taken back, then the lock of the IPv6 allocator is
\* awaited.
WriteDhcp6Fails(s) ==
    /\ At(s, "dhcp6")
    /\ dhcp' = [dhcp EXCEPT ![req[s].vm] = 0]
    /\ Goto(s, "undo_v6")
    /\ UNCHANGED <<boot, memory, dhcp6, files, host, del>>

ReleaseIpv6(s) ==
    /\ At(s, "undo_v6")
    /\ ipv6' = [ipv6 EXCEPT ![req[s].vm] = NoAddr]
    /\ Return(s)
    /\ UNCHANGED <<boot, vms, used, ndp, disk, host, del>>

\* Mutant: a TAP of that name is adopted instead of being refused.
CreateTapAdopts(s) ==
    /\ At(s, "tap")
    /\ taps' = taps \cup {req[s].vm}
    /\ Goto(s, "tapaddr")
    /\ UNCHANGED <<boot, memory, disk, nft, unit, del>>

\* `ip tuntap add` refuses a name that exists.
CreateTap(s) ==
    /\ At(s, "tap")
    /\ req[s].vm \notin taps
    /\ taps' = taps \cup {req[s].vm}
    /\ Goto(s, "tapaddr")
    /\ UNCHANGED <<boot, memory, disk, nft, unit, del>>

\* The name exists or the command fails; or the interface was added and
\* `ip link set` up / master failed, and the interface stays.
CreateTapFails(s) ==
    /\ At(s, "tap")
    /\ taps' \in {taps, taps \cup {req[s].vm}}
    /\ Goto(s, "undo_res")
    /\ UNCHANGED <<boot, memory, disk, nft, unit, del>>

AddIpv6ToTap(s) ==
    /\ At(s, "tapaddr")
    /\ \/ Goto(s, "nft")
       \/ Goto(s, "undo_tap")
    /\ UNCHANGED <<boot, memory, disk, host, del>>

SetupNft(s) ==
    /\ At(s, "nft")
    /\ nft' = nft \cup {req[s].vm}
    /\ Goto(s, "ndp")
    /\ UNCHANGED <<boot, memory, disk, taps, unit, del>>

\* setup_vm fails: its commands are one nft batch, so none took effect.
SetupNftFails(s) ==
    /\ At(s, "nft")
    /\ Goto(s, "undo_tap")
    /\ UNCHANGED <<boot, memory, disk, host, del>>

AddNdpRange(s) ==
    /\ At(s, "ndp")
    /\ ndp' = [ndp EXCEPT ![req[s].vm] = req[s].v6]
    /\ Goto(s, "prepare")
    /\ UNCHANGED <<boot, vms, used, ipv6, disk, host, del>>

\* get_backend, ensure_verity and NumaAllocator::allocate.
Prepare(s) ==
    /\ At(s, "prepare")
    /\ Goto(s, "spawn")
    /\ UNCHANGED <<boot, memory, disk, host, del>>

\* Any of the three fails: `?` returns and nothing is undone.
PrepareFails(s) ==
    /\ At(s, "prepare")
    /\ Return(s)
    /\ UNCHANGED <<boot, memory, disk, host, del>>

\* systemd-run refuses a unit name that is loaded.
Spawn(s) ==
    /\ At(s, "spawn")
    /\ unit[req[s].vm] = "inactive"
    /\ unit' = [unit EXCEPT ![req[s].vm] = "active"]
    /\ Goto(s, "save")
    /\ UNCHANGED <<boot, memory, disk, taps, nft, del>>

SpawnFails(s) ==
    /\ At(s, "spawn")
    /\ Goto(s, "undo_ndp")
    /\ UNCHANGED <<boot, memory, disk, host, del>>

UndoNdp(s) ==
    /\ At(s, "undo_ndp")
    /\ ndp' = [ndp EXCEPT ![req[s].vm] = NoAddr]
    /\ Goto(s, "undo_nft")
    /\ UNCHANGED <<boot, vms, used, ipv6, disk, host, del>>

\* What a teardown whose result is ignored leaves of a set of host objects.
Torn(set, v) ==
    {set \ {v}} \cup (IF "cleanup_fails" \in Faults THEN {set} ELSE {})

UndoNft(s) ==
    /\ At(s, "undo_nft")
    /\ nft' \in Torn(nft, req[s].vm)
    /\ Goto(s, "undo_tap")
    /\ UNCHANGED <<boot, memory, disk, taps, unit, del>>

UndoTap(s) ==
    /\ At(s, "undo_tap")
    /\ taps' \in Torn(taps, req[s].vm)
    /\ Goto(s, "undo_res")
    /\ UNCHANGED <<boot, memory, disk, nft, unit, del>>

\* Somebody else is inside the allocator's lock when try_lock is called.
Ipv6Contended(s) ==
    \/ del.pc = "ipv6"
    \/ \E t \in Slots \ {s} : At(t, "ipv6") \/ At(t, "undo_v6")

\* cleanup_reservations: keyed by the id, whoever wrote the files.
UndoReservations(s) ==
    LET v == req[s].vm
    IN /\ At(s, "undo_res")
       /\ dhcp' = [dhcp EXCEPT ![v] = 0]
       /\ dhcp6' = [dhcp6 EXCEPT ![v] = NoAddr]
       /\ \/ ipv6' = [ipv6 EXCEPT ![v] = NoAddr]
          \/ Ipv6Contended(s) /\ UNCHANGED ipv6
       /\ Return(s)
       /\ UNCHANGED <<boot, vms, used, ndp, files, host, del>>

\* save_vm writes a temporary file and renames it; a failure is only logged.
Save(s) ==
    /\ At(s, "save")
    /\ \/ files' = [files EXCEPT ![req[s].vm] =
                       [off |-> req[s].off, v6 |-> req[s].v6]]
       \/ UNCHANGED files
    /\ Goto(s, "insert")
    /\ UNCHANGED <<boot, memory, dhcp, dhcp6, host, del>>

Insert(s) ==
    /\ At(s, "insert")
    /\ VmsUnlocked
    /\ vms' = [vms EXCEPT ![req[s].vm] =
                  [state |-> "running", off |-> req[s].off, v6 |-> req[s].v6]]
    /\ Return(s)
    /\ UNCHANGED <<boot, used, ipv6, ndp, disk, host, del>>

\* The points where create_vm can be suspended in an await.
CreateAwaits ==
    {"offset", "ipv6", "tap", "tapaddr", "nft", "ndp", "prepare", "insert",
     "undo_ndp", "undo_nft", "undo_tap", "undo_res", "undo_v6"}

CancelCreate(s) ==
    /\ "cancel" \in Faults
    /\ req[s].pc \in CreateAwaits
    /\ Return(s)
    /\ UNCHANGED <<boot, memory, disk, host, del>>

CreateStep(s) ==
    \/ TakeOffset(s) \/ OffsetsExhausted(s)
    \/ AllocateIpv6(s) \/ AllocateIpv6Fails(s)
    \/ WriteDhcp(s) \/ WriteDhcpFails(s)
    \/ WriteDhcp6(s) \/ WriteDhcp6Fails(s) \/ ReleaseIpv6(s)
    \/ CreateTap(s) \/ CreateTapFails(s)
    \/ AddIpv6ToTap(s)
    \/ SetupNft(s) \/ SetupNftFails(s)
    \/ AddNdpRange(s)
    \/ Prepare(s) \/ PrepareFails(s)
    \/ Spawn(s) \/ SpawnFails(s)
    \/ UndoNdp(s) \/ UndoNft(s) \/ UndoTap(s) \/ UndoReservations(s)
    \/ Save(s) \/ Insert(s)

-----------------------------------------------------------------------------
(* delete_vm *)

DeleteAt(pc)   == del.pc = pc
DeleteGoto(pc) == del' = [del EXCEPT !.pc = pc]

\* The handle leaves the map first; the write lock is kept to the end.
BeginDelete(v) ==
    /\ phase = "up"
    /\ VmsUnlocked
    /\ Registered(v)
    /\ vms' = [vms EXCEPT ![v] = NoHandle]
    /\ del' = [pc |-> "stop", vm |-> v, h |-> vms[v]]
    /\ UNCHANGED <<boot, used, ipv6, ndp, disk, host, req>>

\* Mutant: the TAP interface goes first and QEMU is stopped later.
DeleteStopSkipped ==
    /\ DeleteAt("stop")
    /\ DeleteGoto("ndp")
    /\ UNCHANGED <<boot, memory, disk, host, req>>

\* Mutant: a handle without a process is left in the middle of its deletion.
DeleteStopOnlyRunning ==
    /\ DeleteAt("stop")
    /\ del.h.state = "running"
    /\ unit' = [unit EXCEPT ![del.vm] = "inactive"]
    /\ DeleteGoto("ndp")
    /\ UNCHANGED <<boot, memory, disk, taps, nft, req>>

\* process.stop(), for a handle that has a process; the result is ignored.
DeleteStop ==
    /\ DeleteAt("stop")
    /\ \/ /\ del.h.state = "running"
          /\ unit' = [unit EXCEPT ![del.vm] = "inactive"]
       \/ /\ del.h.state = "stopped" \/ "stop_fails" \in Faults
          /\ UNCHANGED unit
    /\ DeleteGoto("ndp")
    /\ UNCHANGED <<boot, memory, disk, taps, nft, req>>

DeleteNdp ==
    /\ DeleteAt("ndp")
    /\ ndp' = [ndp EXCEPT ![del.vm] = NoAddr]
    /\ DeleteGoto("ipv6")
    /\ UNCHANGED <<boot, vms, used, ipv6, disk, host, req>>

DeleteIpv6 ==
    /\ DeleteAt("ipv6")
    /\ ipv6' = IF del.h.v6 = NoAddr THEN ipv6 ELSE [ipv6 EXCEPT ![del.vm] = NoAddr]
    /\ DeleteGoto("nft")
    /\ UNCHANGED <<boot, vms, used, ndp, disk, host, req>>

DeleteNft ==
    /\ DeleteAt("nft")
    /\ nft' \in Torn(nft, del.vm)
    /\ DeleteGoto("tap")
    /\ UNCHANGED <<boot, memory, disk, taps, unit, req>>

DeleteTap ==
    /\ DeleteAt("tap")
    /\ taps' \in Torn(taps, del.vm)
    /\ DeleteGoto("dhcp")
    /\ UNCHANGED <<boot, memory, disk, nft, unit, req>>

DeleteDhcp ==
    /\ DeleteAt("dhcp")
    /\ dhcp' = [dhcp EXCEPT ![del.vm] = 0]
    /\ dhcp6' = IF del.h.v6 = NoAddr THEN dhcp6
                ELSE [dhcp6 EXCEPT ![del.vm] = NoAddr]
    /\ DeleteGoto("offset")
    /\ UNCHANGED <<boot, memory, files, host, req>>

\* The offset is recomputed from the handle's address.
DeleteOffset ==
    /\ DeleteAt("offset")
    /\ used' = used \ {del.h.off}
    /\ DeleteGoto("file")
    /\ UNCHANGED <<boot, vms, ipv6, ndp, disk, host, req>>

\* persistence::delete_vm, whose failure is only logged; the lock is released.
DeleteFile ==
    /\ DeleteAt("file")
    /\ \/ files' = [files EXCEPT ![del.vm] = NoFile]
       \/ "unlink_fails" \in Faults /\ UNCHANGED files
    /\ del' = NoDelete
    /\ UNCHANGED <<boot, memory, dhcp, dhcp6, host, req>>

\* The points where delete_vm can be suspended in an await: the numa and port
\* forward locks and ndp.delete_range, the IPv6 lock, delete_tap (before or
\* after the command took effect), the offsets lock.
DeleteAwaits == {"ndp", "ipv6", "tap", "dhcp", "offset"}

CancelDelete ==
    /\ "cancel" \in Faults
    /\ del.pc \in DeleteAwaits
    /\ del' = NoDelete
    /\ UNCHANGED <<boot, memory, disk, host, req>>

DeleteStep ==
    \/ DeleteStop \/ DeleteNdp \/ DeleteIpv6 \/ DeleteNft \/ DeleteTap
    \/ DeleteDhcp \/ DeleteOffset \/ DeleteFile

-----------------------------------------------------------------------------
(* Restart and recover_vms *)

ForgetMemory ==
    /\ crashes < MaxCrashes
    /\ crashes' = crashes + 1
    /\ phase' = "recovering"
    /\ pending' = {v \in Vms : files[v] # NoFile}
    /\ vms' = [v \in Vms |-> NoHandle]
    /\ used' = {}
    /\ ipv6' = [v \in Vms |-> NoAddr]
    /\ ndp' = [v \in Vms |-> NoAddr]
    /\ req' = [s \in Slots |-> NoRequest]
    /\ del' = NoDelete

\* The orchestrator dies and is started again; QEMU keeps running.
Crash ==
    /\ ForgetMemory
    /\ UNCHANGED <<disk, host>>

\* The host reboots: transient units, interfaces and chains are gone.
Reboot ==
    /\ ForgetMemory
    /\ taps' = {}
    /\ nft' = {}
    /\ unit' = [v \in Vms |-> "inactive"]
    /\ UNCHANGED disk

\* Mutant: every VM with a state file is taken to be running.
RecoverAlwaysRunning(v) ==
    /\ phase = "recovering"
    /\ v \in pending
    /\ pending' = pending \ {v}
    /\ used' = used \cup {files[v].off}
    /\ vms' = [vms EXCEPT ![v] =
                  [state |-> "running", off |-> files[v].off, v6 |-> files[v].v6]]
    /\ ipv6' = IF Ipv6Free(files[v].v6) THEN [ipv6 EXCEPT ![v] = files[v].v6] ELSE ipv6
    /\ nft' = nft \cup {v}
    /\ ndp' = [ndp EXCEPT ![v] = files[v].v6]
    /\ UNCHANGED <<phase, crashes, disk, taps, unit, req, del>>

\* One iteration of the loop of recover_vms: is-active decides between
\* Running and Stopped, a taken address is not recorded again, and a running
\* VM gets its chains (a failure is only logged) and its NDP range back.
Recover(v) ==
    /\ phase = "recovering"
    /\ v \in pending
    /\ pending' = pending \ {v}
    /\ used' = used \cup {files[v].off}
    /\ ipv6' = IF Ipv6Free(files[v].v6) THEN [ipv6 EXCEPT ![v] = files[v].v6] ELSE ipv6
    /\ \/ /\ unit[v] = "active"
          /\ vms' = [vms EXCEPT ![v] =
                        [state |-> "running", off |-> files[v].off, v6 |-> files[v].v6]]
          /\ nft' \in {nft, nft \cup {v}}
          /\ ndp' = [ndp EXCEPT ![v] = files[v].v6]
       \/ /\ unit[v] # "active"
          /\ vms' = [vms EXCEPT ![v] =
                        [state |-> "stopped", off |-> files[v].off, v6 |-> files[v].v6]]
          /\ UNCHANGED <<nft, ndp>>
    /\ UNCHANGED <<phase, crashes, disk, taps, unit, req, del>>

\* recover_vms returns and the gRPC server starts.
Serve ==
    /\ phase = "recovering"
    /\ pending = {}
    /\ phase' = "up"
    /\ UNCHANGED <<pending, crashes, memory, disk, host, req, del>>

\* load_all_vms returns an error: it is logged and the server starts with no
\* VM registered.
LoadFails ==
    /\ "load_fails" \in Faults
    /\ phase = "recovering"
    /\ \A v \in Vms : ~Registered(v)
    /\ pending' = {}
    /\ phase' = "up"
    /\ UNCHANGED <<crashes, memory, disk, host, req, del>>

RecoverStep == (\E v \in Vms : Recover(v)) \/ Serve

-----------------------------------------------------------------------------
(* systemd *)

\* QEMU exits cleanly (guest poweroff): the transient unit is gone, and
\* nobody tells the orchestrator.
UnitExits(v) ==
    /\ unit[v] = "active"
    /\ unit' = [unit EXCEPT ![v] = "inactive"]
    /\ UNCHANGED <<boot, memory, disk, taps, nft, req, del>>

\* QEMU fails: Restart=on-failure, but is-active says no for RestartSec.
UnitFails(v) ==
    /\ "slow_restart" \in Faults
    /\ unit[v] = "active"
    /\ unit' = [unit EXCEPT ![v] = "restarting"]
    /\ UNCHANGED <<boot, memory, disk, taps, nft, req, del>>

UnitRestarts(v) ==
    /\ unit[v] = "restarting"
    /\ unit' = [unit EXCEPT ![v] = "active"]
    /\ UNCHANGED <<boot, memory, disk, taps, nft, req, del>>

-----------------------------------------------------------------------------

Next ==
    \/ \E s \in Slots, v \in Vms : CheckDuplicate(s, v)
    \/ \E s \in Slots : CreateStep(s) \/ CancelCreate(s)
    \/ \E v \in Vms : BeginDelete(v)
    \/ DeleteStep \/ CancelDelete
    \/ Crash \/ Reboot
    \/ RecoverStep \/ LoadFails
    \/ \E v \in Vms : UnitExits(v) \/ UnitFails(v) \/ UnitRestarts(v)

Spec == Init /\ [][Next]_vars

\* A handler that is not waiting for a lock runs to its end, and tokio's
\* RwLock queues its waiters in order, so an Insert that is repeatedly able to
\* take the lock gets it.
Fairness ==
    /\ \A s \in Slots : WF_vars(CreateStep(s)) /\ SF_vars(Insert(s))
    /\ WF_vars(DeleteStep)
    /\ WF_vars(RecoverStep)

FairSpec == Spec /\ Fairness

-----------------------------------------------------------------------------
(* Properties *)

\* Every variable has its type.
TypeOK ==
    /\ phase \in {"up", "recovering"}
    /\ pending \subseteq Vms
    /\ vms \in [Vms -> Handles]
    /\ used \subseteq Nat
    /\ ipv6 \in [Vms -> Addrs]
    /\ ndp \in [Vms -> Addrs]
    /\ dhcp \in [Vms -> Nat]
    /\ dhcp6 \in [Vms -> Addrs]
    /\ files \in [Vms -> Files]
    /\ taps \subseteq Vms
    /\ nft \subseteq Vms
    /\ unit \in [Vms -> {"inactive", "active", "restarting"}]
    /\ req \in [Slots -> [pc : CreatePcs \cup {"idle"}, vm : Vms \cup {NoVm},
                          off : Nat, v6 : Addrs]]
    /\ \A s \in Slots : req[s].pc # "idle" => req[s].vm \in Vms
    /\ del \in [pc : DeletePcs \cup {"idle"}, vm : Vms \cup {NoVm}, h : Handles]
    /\ del.pc # "idle" => del.vm \in Vms
    /\ crashes \in 0..MaxCrashes

\* The IPv4 addresses in somebody's hands, one per holder: a registered VM, a
\* create_vm that has taken its offset, a delete_vm that has not freed it yet.
Holders ==
    {[kind |-> "vm", who |-> v, off |-> vms[v].off] : v \in {x \in Vms : Registered(x)}}
    \cup {[kind |-> "create", who |-> s, off |-> req[s].off] :
             s \in {x \in Slots : req[x].pc \notin {"idle", "offset"}}}
    \cup {[kind |-> "delete", who |-> d, off |-> del.h.off] :
             d \in {x \in {del.vm} : del.pc \notin {"idle", "file"}}}

\* No two VMs, registered, being created or being deleted, are given the same
\* IPv4 address, and an address somebody holds is never considered free
\* (create_vm's offset search, delete_vm's reclaim), as long as the
\* orchestrator has not been restarted.
UniqueIp ==
    crashes = 0 =>
        /\ \A a, b \in Holders : a.off = b.off => a = b
        /\ \A a \in Holders : a.off \in used

\* QEMU never runs without the TAP interface and the chains that connect and
\* confine it: neither the failure path of a concurrent create_vm, nor a
\* delete_vm, nor a restart in the middle of either takes them away.
RunningUnitConnected ==
    \A v \in Vms : unit[v] # "inactive" => v \in taps /\ v \in nft

\* A VM the API reports as running is connected: its interface, its chains and
\* its NDP range are there, even when another create_vm for the same id passed
\* the duplicate check together with it and failed.
RunningVmReachable ==
    \A v \in Vms : vms[v].state = "running" =>
        /\ v \in taps
        /\ v \in nft
        /\ ndp[v] = vms[v].v6

\* A handle is only ever added for an id that has none: two create_vm calls
\* for the same id never both succeed, although the duplicate check and the
\* insertion are separate critical sections.
HandleNeverReplaced ==
    [][\A v \in Vms : Registered(v) /\ Registered(v)' => vms'[v] = vms[v]]_vars

\* Every create_vm and delete_vm call returns: nobody waits for ever for the
\* vms lock that delete_vm keeps while it waits for other locks and commands.
RequestsAnswered ==
    /\ \A s \in Slots : []<>At(s, "idle")
    /\ []<>VmsUnlocked

(* What the repository says of this code and the code does not do *)

\* "Clean up everything on failure": after a failed spawn the address that was
\* taken for the VM becomes free again.
SpawnFailureFreesAddress ==
    \A s \in Slots, o \in Offsets :
        (At(s, "undo_ndp") /\ req[s].off = o) ~> (o \notin used)

\* "VMs get their assigned IP via DHCP": while a VM is registered its DHCP
\* reservation is for its own address and its IPv6 address is allocated to it.
ReservationsMatch ==
    \A v \in Vms : vms[v].state = "running" =>
        /\ dhcp[v] = vms[v].off
        /\ ipv6[v] = vms[v].v6

\* "Stopped VMs have no QEMU process."
StoppedHasNoProcess ==
    \A v \in Vms : vms[v].state = "stopped" => unit[v] # "active"

=============================================================================
