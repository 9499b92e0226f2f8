--------------------------- MODULE SchedulerAgent ---------------------------
(***************************************************************************)
(* The scheduler agent: it receives messages that describe VMs and          *)
(* allocations that name the VMs this node should run, downloads what the   *)
(* messages refer to (VolumeCache), and makes the compute node (VmRegistry) *)
(* stop and start VMs until they agree.  Allocations are handled            *)
(* concurrently, each from its own list_vms; other clients of the compute   *)
(* node, restarts of either side and calls whose reply is lost interfere.   *)
(***************************************************************************)
EXTENDS VmRegistry, VmRequest, VolumeCache, FiniteSets

CONSTANTS
    Messages,          \* the executable messages there are
    Bodies,            \* the allocation requests that may arrive
    TokenConfigured,   \* --allocation-token was given
    KernelPath,        \* the adapter's kernel and initrd
    InitrdPath,
    MaxFaults,         \* bound on restarts, foreign calls and lost replies
    MaxAllocations     \* bound on the allocations that arrive

Hashes == {m.item_hash : m \in Messages}

ASSUME SchedulerAssumption ==
    /\ Hashes \subseteq Vms
    /\ Bodies \subseteq [signed : BOOLEAN, parses : BOOLEAN,
                         persistent_vms : SUBSET Vms, instances : SUBSET Vms]
    /\ TokenConfigured \in BOOLEAN
    /\ MaxFaults \in Nat /\ MaxAllocations \in Nat
    /\ IsFiniteSet(Vms)
    /\ NotListed \notin Tasks

VARIABLES
    stopped,   \* listed VMs whose QEMU does not run
    known,     \* AppState.messages, by item hash
    handler,   \* the handle_allocation call of each task, and its response
    lock,      \* who holds the write lock of compute_client between calls
    faults,    \* counts against MaxFaults
    received   \* counts against MaxAllocations

vars == <<registry, stopped, cache, known, handler, lock, faults, received>>

-----------------------------------------------------------------------------
(* adapter.rs *)

MessageOf(v) == CHOOSE m \in Messages : m.item_hash = v

NoRef == ""

\* A volume that a field of the message refers to, as the disk it becomes.
\* The file is found by the category it is downloaded from and its hash.
Disk(category, ref, readonly, format) ==
    IF ref = NoRef THEN <<>>
    ELSE <<[path |-> <<category, ref>>, readonly |-> readonly, format |-> format]>>

\* A volume with a `ref` is read as an immutable one and every other volume as
\* a persistent one: also an ephemeral one, whose fields a persistent one has.
\* Without a parent there is no disk.
VolumeDisk(v) ==
    Disk("data", v.ref, TRUE, "raw") \o
    (IF v.ref = NoRef THEN Disk("data", v.parent, FALSE, "qcow2") ELSE <<>>)

Disks(msg) ==
    Disk("runtime", msg.rootfs, FALSE, "raw") \o
    Disk("runtime", msg.runtime, TRUE, "squashfs") \o
    Disk("code", msg.code, TRUE, msg.encoding) \o
    FlattenSeq([i \in 1..Len(msg.volumes) |-> VolumeDisk(msg.volumes[i])])

VolumeDisks == [path : Volumes, readonly : BOOLEAN, format : STRING]

\* The cache has a name for every volume of a message.
ASSUME MessagesAssumption ==
    \A m \in Messages : Disks(m) \in Seq(VolumeDisks) /\ m.published_ports \in Seq(Nat)

\* trusted_execution is "" when the message has none.
is_confidential(msg) == msg.trusted_execution # ""

\* A message that is not confidential leaves the tee field out.
TeeConfig(msg) ==
    IF is_confidential(msg) THEN [backend |-> "sev-snp", policy |-> msg.policy] ELSE NoTee

translate_message(msg) ==
    [vm_id           |-> msg.item_hash,
     kernel          |-> KernelPath,
     initrd          |-> InitrdPath,
     disks           |-> Disks(msg),
     vcpus           |-> msg.vcpus,
     memory_mb       |-> msg.memory,
     tee             |-> TeeConfig(msg),
     ipv6_address    |-> "",
     ipv6_prefix_len |-> 0,
     encrypted       |-> msg.trusted_execution = "encrypted"]

\* Host ports are left to the compute node.
translate_port_forwards(msg) ==
    [i \in 1..Len(msg.published_ports) |->
        [vm_id |-> msg.item_hash, host_port |-> 0, vm_port |-> msg.published_ports[i]]]

-----------------------------------------------------------------------------
(* allocations.rs *)

all_vms(b) == b.persistent_vms \cup b.instances

verify_allocation_signature(b) == TokenConfigured => b.signed

reconcile(desired, running) ==
    [to_start  |-> desired \ running,
     to_stop   |-> running \ desired,
     unchanged |-> running \cap desired]

-----------------------------------------------------------------------------
(* State *)

NoActions  == [to_start |-> {}, to_stop |-> {}, unchanged |-> {}]
NoResponse == [status |-> 0, started |-> 0, stopped |-> 0]
Refused(status) == [NoResponse EXCEPT !.status = status]

NoCall ==
    [pc        |-> "idle",
     desired   |-> {},
     actions   |-> NoActions,
     left      |-> {},          \* what the loop has not come to yet
     cur       |-> NotListed,   \* the VM the start loop is at
     fetches   |-> <<>>,        \* the disks translate_message has not downloaded
     ports     |-> <<>>,        \* the port forwards not asked for yet
     errors    |-> {},
     created   |-> {},          \* history: create_vm answered with success
     disturbed |-> FALSE,       \* history: the VMs have changed under this call
     response  |-> NoResponse]

Init ==
    /\ RegistryInit
    /\ stopped = {}
    /\ CacheInit
    /\ known = {}
    /\ handler = [h \in Tasks |-> NoCall]
    /\ lock = NotListed
    /\ faults = 0
    /\ received = 0

Fault == faults < MaxFaults /\ faults' = faults + 1

\* list_vms returns every handle, and the agent takes the ids alone: also that
\* of a VM recovered as stopped, or whose QEMU has ended since.
ListedVms == {v \in Vms : Listed(v)}

Running == ListedVms \ stopped

\* A call that has seen list_vms, or has answered from what it saw.
HasListed(c) == c.pc \notin {"idle", "list"} \/ c.response.status \in {200, 207}

\* Calls other than `who`'s own are disturbed by a change of the registry.
Disturb(hs, who) ==
    [h \in Tasks |-> IF h \notin who /\ HasListed(hs[h])
                     THEN [hs[h] EXCEPT !.disturbed = TRUE] ELSE hs[h]]

\* The loop over `left` takes any element: the vectors come from hash sets.
StartLoop(c) == [c EXCEPT !.pc = IF c.left = {} THEN "answer" ELSE "start",
                          !.cur = NotListed, !.fetches = <<>>, !.ports = <<>>]
StopLoop(c) ==
    IF c.left # {} THEN [c EXCEPT !.pc = "stop"]
    ELSE StartLoop([c EXCEPT !.left = c.actions.to_start])

WithError(c, kind, v) == [c EXCEPT !.errors = @ \cup {<<kind, v>>}]

Set(h, c) == handler' = [handler EXCEPT ![h] = c]

-----------------------------------------------------------------------------
(* handle_message and handle_allocation *)

PostMessage(v) ==
    /\ known' = known \cup {v}
    /\ UNCHANGED <<registry, stopped, cache, handler, lock, faults, received>>

ReceiveAllocation(h, b) ==
    /\ handler[h].pc = "idle"
    /\ received < MaxAllocations
    /\ received' = received + 1
    /\ Set(h, IF ~verify_allocation_signature(b) THEN [NoCall EXCEPT !.response = Refused(401)]
              ELSE IF ~b.parses THEN [NoCall EXCEPT !.response = Refused(400)]
              ELSE [NoCall EXCEPT !.pc = "list", !.desired = all_vms(b)])
    /\ UNCHANGED <<registry, stopped, cache, known, lock, faults>>

ListVms(h) ==
    LET actions == reconcile(handler[h].desired, ListedVms)
    IN /\ handler[h].pc = "list"
       /\ lock = NotListed
       /\ serving
       /\ Set(h, StopLoop([handler[h] EXCEPT !.actions = actions, !.left = actions.to_stop]))
       /\ UNCHANGED <<registry, stopped, cache, known, lock, faults, received>>

ListVmsFails(h) ==
    /\ handler[h].pc = "list"
    /\ lock = NotListed
    /\ Set(h, [NoCall EXCEPT !.response = Refused(500)])
    /\ UNCHANGED <<registry, stopped, cache, known, lock, faults, received>>

StopVm(h) ==
    \E v \in handler[h].left :
        LET c == StopLoop([handler[h] EXCEPT !.left = @ \ {v}])
        IN /\ handler[h].pc = "stop"
           /\ lock = NotListed
           /\ Deregister(v)
           /\ stopped' = stopped \ {v}
           /\ handler' = Disturb([handler EXCEPT ![h] = c], {h})
           /\ UNCHANGED <<cache, known, lock, faults, received>>

StopVmFails(h) ==
    \E v \in handler[h].left :
        /\ handler[h].pc = "stop"
        /\ lock = NotListed
        /\ Set(h, StopLoop(WithError([handler[h] EXCEPT !.left = @ \ {v}], "stop", v)))
        /\ UNCHANGED <<registry, stopped, cache, known, lock, faults, received>>

\* translate_message has its disks, or an error.
Translated(c) == [c EXCEPT !.pc = IF c.fetches = <<>> THEN "create" ELSE "fetch"]

LookUp(h) ==
    \E v \in handler[h].left :
        LET c == [handler[h] EXCEPT !.left = @ \ {v}, !.cur = v]
        IN /\ handler[h].pc = "start"
           /\ Set(h, IF v \in known
                     THEN Translated([c EXCEPT !.fetches = Disks(MessageOf(v))])
                     ELSE StartLoop(WithError(c, "start", v)))
           /\ UNCHANGED <<registry, stopped, cache, known, lock, faults, received>>

\* ensure_cached of the next volume.
Fetch(h) ==
    /\ handler[h].pc = "fetch"
    /\ EnsureCached(h, handler[h].fetches[1].path)
    /\ Set(h, [handler[h] EXCEPT !.pc = "await"])
    /\ UNCHANGED <<registry, stopped, known, lock, faults, received>>

\* Mutant: a download that failed is not noticed.
TakeUnchecked(h) ==
    /\ handler[h].pc = "await"
    /\ Take(h)
    /\ Set(h, Translated([handler[h] EXCEPT !.fetches = Tail(@)]))
    /\ UNCHANGED <<registry, stopped, known, lock, faults, received>>

Fetched(h) ==
    /\ handler[h].pc = "await"
    /\ Take(h)
    /\ Set(h, IF dl[h].pc = "ok"
              THEN Translated([handler[h] EXCEPT !.fetches = Tail(@)])
              ELSE StartLoop(WithError(handler[h], "translate", handler[h].cur)))
    /\ UNCHANGED <<registry, stopped, known, lock, faults, received>>

CanStart(v) ==
    LET r == translate_message(MessageOf(v))
    IN Accepted(r) /\ HasBackend(ToConfig(r))

\* The write lock is kept until the port forwards have been asked for.
CreateVm(h) ==
    LET v == handler[h].cur
        c == [handler[h] EXCEPT !.pc = "ports", !.created = @ \cup {v},
                                !.ports = translate_port_forwards(MessageOf(v))]
    IN /\ handler[h].pc = "create"
       /\ lock = NotListed
       /\ CanStart(v)
       /\ \E a \in Addresses : Register(v, a)
       /\ handler' = Disturb([handler EXCEPT ![h] = c], {h})
       /\ lock' = h
       /\ UNCHANGED <<stopped, cache, known, faults, received>>

\* Mutant: a VM that fails to start is not reported.
CreateVmFailsSilently(h) ==
    /\ handler[h].pc = "create"
    /\ lock = NotListed
    /\ Set(h, StartLoop(handler[h]))
    /\ UNCHANGED <<registry, stopped, cache, known, lock, faults, received>>

\* The service or the manager refuses, or the node does not answer.
CreateVmFails(h) ==
    /\ handler[h].pc = "create"
    /\ lock = NotListed
    /\ Set(h, StartLoop(WithError(handler[h], "start", handler[h].cur)))
    /\ UNCHANGED <<registry, stopped, cache, known, lock, faults, received>>

\* Success and failure look the same: a failure is only logged.
AddPortForward(h) ==
    /\ handler[h].pc = "ports"
    /\ handler[h].ports # <<>>
    /\ Set(h, [handler[h] EXCEPT !.ports = Tail(@)])
    /\ UNCHANGED <<registry, stopped, cache, known, lock, faults, received>>

\* Mutant: the guard outlives the iteration.
PortsDoneLocked(h) ==
    /\ handler[h].pc = "ports"
    /\ handler[h].ports = <<>>
    /\ Set(h, StartLoop(handler[h]))
    /\ UNCHANGED <<registry, stopped, cache, known, lock, faults, received>>

PortsDone(h) ==
    /\ handler[h].pc = "ports"
    /\ handler[h].ports = <<>>
    /\ Set(h, StartLoop(handler[h]))
    /\ lock' = NotListed
    /\ UNCHANGED <<registry, stopped, cache, known, faults, received>>

\* A call that the node carried out, though the agent sees an error.
ReplyLost(h) ==
    LET c == handler[h]
    IN /\ lock = NotListed
       /\ Fault
       /\ \/ /\ c.pc = "create"
             /\ CanStart(c.cur)
             /\ \E a \in Addresses : Register(c.cur, a)
             /\ UNCHANGED stopped
             /\ handler' = Disturb([handler EXCEPT ![h] =
                               StartLoop(WithError(c, "start", c.cur))], {})
          \/ /\ c.pc = "stop"
             /\ \E v \in c.left :
                   /\ Deregister(v)
                   /\ stopped' = stopped \ {v}
                   /\ handler' = Disturb([handler EXCEPT ![h] =
                          StopLoop(WithError([c EXCEPT !.left = @ \ {v}], "stop", v))], {})
       /\ UNCHANGED <<cache, known, lock, received>>

ErrorCount(c, kind) == Cardinality({e \in c.errors : e[1] = kind})

\* Mutant: every error is taken off what was to start.
ResponseAllErrors(c) ==
    [status  |-> IF c.errors = {} THEN 200 ELSE 207,
     started |-> Cardinality(c.actions.to_start) - Cardinality(c.errors),
     stopped |-> Cardinality(c.actions.to_stop) - ErrorCount(c, "stop")]

\* "started" is what is left of to_start after the errors that begin with
\* "start": a message that could not be translated is counted as started.
Response(c) ==
    [status  |-> IF c.errors = {} THEN 200 ELSE 207,
     started |-> Cardinality(c.actions.to_start) - ErrorCount(c, "start"),
     stopped |-> Cardinality(c.actions.to_stop) - ErrorCount(c, "stop")]

Answer(h) ==
    /\ handler[h].pc = "answer"
    /\ Set(h, [handler[h] EXCEPT !.pc = "idle", !.response = Response(handler[h])])
    /\ UNCHANGED <<registry, stopped, cache, known, lock, faults, received>>

-----------------------------------------------------------------------------
(* The rest of the world *)

\* A download that is under way makes a step.
DownloadStep(h) ==
    /\ Download(h)
    /\ UNCHANGED <<registry, stopped, known, handler, lock, faults, received>>

\* aleph-cvm creates or deletes a VM.
ForeignCall(v) ==
    /\ Fault
    /\ Deregister(v) \/ \E a \in Addresses : Register(v, a)
    /\ stopped' = stopped \ {v}
    /\ handler' = Disturb(handler, {})
    /\ UNCHANGED <<cache, known, lock, received>>

\* Mutant: a lock that survives the task that held it.
AgentRestartLocked ==
    /\ Fault
    /\ known' = {}
    /\ handler' = [h \in Tasks |-> NoCall]
    /\ CacheRestart
    /\ UNCHANGED <<registry, stopped, lock, received>>

\* Messages live in memory only, and requests under way are lost.
AgentRestart ==
    /\ Fault
    /\ known' = {}
    /\ handler' = [h \in Tasks |-> NoCall]
    /\ lock' = NotListed
    /\ CacheRestart
    /\ UNCHANGED <<registry, stopped, received>>

NodeRestart ==
    /\ Fault
    /\ Restart
    /\ stopped' = {}
    /\ handler' = Disturb(handler, {})
    /\ UNCHANGED <<cache, known, lock, received>>

\* recover_vms keeps a VM whose unit is not active, as a stopped one.
NodeRecovers ==
    /\ \/ Resume /\ UNCHANGED stopped
       \/ \E v \in Vms, a \in Addresses :
             /\ Reload(v, a)
             /\ stopped' \in {stopped, stopped \cup {v}}
    /\ handler' = Disturb(handler, {})
    /\ UNCHANGED <<cache, known, lock, faults, received>>

\* create_vm saves its VM and delete_vm removes the file.  Only a restart reads
\* the files: once the bound allows no other restart they need not change.
NodeSaves(v) ==
    /\ faults < MaxFaults
    /\ \/ Listed(v) /\ v \notin saved /\ Persist(v)
       \/ ~Listed(v) /\ v \in saved /\ Unpersist(v)
    /\ UNCHANGED <<stopped, cache, known, handler, lock, faults, received>>

\* A VM's QEMU ends and is not restarted: its guest has powered off, or the
\* unit has failed too often.  The node keeps its handle.
QemuEnds(v) ==
    /\ Fault
    /\ v \in Running
    /\ stopped' = stopped \cup {v}
    /\ handler' = Disturb(handler, {})
    /\ UNCHANGED <<registry, cache, known, lock, received>>

Handle(h) ==
    \/ ListVms(h) \/ ListVmsFails(h) \/ StopVm(h) \/ StopVmFails(h)
    \/ LookUp(h) \/ Fetch(h) \/ Fetched(h)
    \/ CreateVm(h) \/ CreateVmFails(h) \/ AddPortForward(h) \/ PortsDone(h)
    \/ Answer(h)

Next ==
    \/ \E v \in Hashes : PostMessage(v)
    \/ \E h \in Tasks, b \in Bodies : ReceiveAllocation(h, b)
    \/ \E h \in Tasks : Handle(h) \/ DownloadStep(h) \/ ReplyLost(h)
    \/ \E v \in Vms : ForeignCall(v) \/ NodeSaves(v) \/ QemuEnds(v)
    \/ AgentRestart \/ NodeRestart \/ NodeRecovers

Progress == \E h \in Tasks : Handle(h) \/ DownloadStep(h)

\* The runtime goes on with some task while one can, and each HTTP and gRPC
\* call ends, with an answer or with a connection error.
Spec == Init /\ [][Next]_vars /\ WF_vars(Progress)

-----------------------------------------------------------------------------
(* Properties *)

\* Every variable has its type, and only the task that is adding port forwards
\* keeps the lock of compute_client.
SchedTypeOK ==
    /\ serving \in BOOLEAN
    /\ listed \in [Vms -> Addresses \cup {NotListed}]
    /\ saved \subseteq Vms
    /\ stopped \subseteq ListedVms
    /\ CacheTypeOK
    /\ known \subseteq Hashes
    /\ \A h \in Tasks :
          /\ handler[h].pc \in {"idle", "list", "stop", "start", "fetch", "await",
                                "create", "ports", "answer"}
          /\ handler[h].left \subseteq handler[h].actions.to_start \cup handler[h].actions.to_stop
          /\ dl[h].pc # "idle" => handler[h].pc = "await"
          /\ lock = h <=> handler[h].pc = "ports"
    /\ faults \in 0..MaxFaults
    /\ received \in 0..MaxAllocations

\* The answer to an allocation tells the truth about the node: unless something
\* else changed its VMs since the call listed them (another allocation, another
\* client, a restart, a lost reply, a QEMU that ended), the VMs that are
\* registered are the allocated ones without those reported as not started, and
\* those reported as not stopped.  They run, except VMs that list_vms returned
\* when the call began: one of these that is stopped counts as unchanged and
\* the answer is 200, though the design of VM persistence
\* (docs/plans/2026-03-04-vm-persistence-design.md:53-58) has it created again.
AnswerTellsTruth ==
    \A h \in Tasks :
        LET c == handler[h]
            failed(kinds) == {e[2] : e \in {x \in c.errors : x[1] \in kinds}}
        IN c.response.status \in {200, 207} /\ ~c.disturbed =>
              /\ ListedVms = (c.desired \ failed({"start", "translate"})) \cup failed({"stop"})
              /\ ListedVms \ Running \subseteq c.actions.unchanged \cup failed({"stop"})

\* The counts of the answer: "started" is the VMs that create_vm confirmed and
\* the messages that could not be translated (main.rs counts only the errors
\* that begin with "start"), and "stopped" never exceeds what was to stop.
CountsReported ==
    \A h \in Tasks :
        LET c == handler[h]
        IN c.response.status \in {200, 207} =>
              /\ c.response.started = Cardinality(c.created) + ErrorCount(c, "translate")
              /\ c.response.stopped >= 0

\* create_vm is called with files that are all there and, unless two tasks
\* downloaded one at the same time, complete: also when another task or a
\* restart left the download half done.
DisksReady ==
    \A h \in Tasks : handler[h].pc \in {"create", "ports"} =>
        \A i \in 1..Len(Disks(MessageOf(handler[h].cur))) :
            LET v == Disks(MessageOf(handler[h].cur))[i].path
            IN /\ local[v] # NoInode
               /\ v \notin overlapped => data[v][local[v]] = "full"

\* Every allocation is answered, or lost with the agent that was handling it:
\* when allocations stop arriving the agent comes to rest.  No loop runs
\* forever and no task waits forever for the client's lock.
AllocationsAnswered == <>[](\A h \in Tasks : handler[h].pc = "idle")

=============================================================================
