------------------------------ MODULE GuestBoot ------------------------------
(***************************************************************************)
(* A VM from the create request to the running guest: the gRPC service and  *)
(* create_vm turn the client's arguments into a QEMU command (VmRequest),   *)
(* nix/init.sh runs as PID 1 over the drives of that command, the           *)
(* attestation agent stores the secrets it is sent, and attestation         *)
(* clients verify the guest they talk to and send it secrets.  init, the    *)
(* agent's handlers and the clients run concurrently; files under           *)
(* /tmp/secrets are all that init and the agent share.                      *)
(***************************************************************************)
EXTENDS VmRequest, FiniteSets

CONSTANTS
    Calls,         \* the `create-vm` calls that may be made
    Arguments,     \* the arguments of each call
    Wanted,        \* the call the pinned measurement was computed for
    Emptied,       \* images whose cached root hash is empty on this node
    Clients,       \* attestation clients
    Owners,        \* the clients that know the LUKS passphrase
    Astray,        \* the clients that may reach another server
    NoClient,      \* nobody is inside inject_secret_handler
    Commands,      \* what a client may be told to do: [kind, pinned, keys]
    MaxTries,      \* polls of a wait loop (30, and 3000 for the passphrase)
    MaxAttempts    \* bound on the commands of each client

Luks == "luks_passphrase"
Keys == UNION {m.keys : m \in Commands}

ASSUME GuestAssumption ==
    /\ Wanted \in Calls
    /\ DOMAIN Arguments = Calls
    /\ Owners \subseteq Clients /\ Astray \subseteq Clients
    /\ NoClient \notin Clients
    /\ Commands \subseteq [kind : {"attest", "fresh", "inject"}, pinned : BOOLEAN,
                           keys : SUBSET {Luks, "api", "bad/key"}]
    /\ \A m \in Commands : m.kind = "inject" <=> m.keys # {}
    /\ MaxTries \in Nat /\ MaxAttempts \in [Clients -> Nat]

VARIABLES
    call,      \* the call that created the VM
    pc,        \* where init.sh is; "none" before there is a VM
    tries,     \* n of the wait loop init.sh is in
    seen,      \* how many drives the guest kernel has probed: vda, vdb, ...
    online,    \* the network interface was found and configured
    root,      \* what is mounted on /mnt/root, and how
    workload,  \* what is mounted on /mnt/workload
    agent,     \* the attestation agent: "down", "starting", "up", "dead"
    files,     \* /tmp/secrets/<key>
    injected,  \* INJECTION_LOCK holds Some(())
    inj,       \* the inject_secret_handler that holds INJECTION_LOCK
    client     \* the attestation clients

boot    == <<pc, tries, seen, online, root, workload>>
secrets == <<files, injected, inj>>
vars    == <<call, boot, agent, secrets, client>>

-----------------------------------------------------------------------------
(* Values *)

\* The VM configuration and the QEMU command of each call that is accepted.
AcceptedCalls ==
    {n \in Calls : /\ \A i \in 1..Len(Arguments[n].disk) : DiskSpecParses(Arguments[n].disk[i])
                   /\ Accepted(CliRequest(Arguments[n]))
                   /\ HasBackend(ToConfig(CliRequest(Arguments[n])))}
ConfigOf  == [n \in AcceptedCalls |-> ToConfig(CliRequest(Arguments[n]))]
CommandOf == [n \in AcceptedCalls |-> build_qemu_command(ConfigOf[n], Emptied)]
MeasurementOf == [n \in AcceptedCalls |-> Measurement(CommandOf[n])]

\* --expected-measurement: computed from the images themselves, and not from
\* what this node has cached.
Pin == Measurement(build_qemu_command(ConfigOf[Wanted], {}))

\* The disk arguments are a list, and the pinned measurement is that of a VM
\* the service would start.
ASSUME CallsAssumption ==
    /\ \A n \in Calls : Len(Arguments[n].disk) \in Nat
    /\ Wanted \in AcceptedCalls

qemu == CommandOf[call]

NoMount == [path |-> NoPath, via |-> "none"]
NoFile  == [state |-> "absent", from |-> NoClient, attempt |-> 0]
NoHandler == [who |-> NoClient, attempt |-> 0, left |-> {}, open |-> ""]
NoCommand == [pc |-> "idle", kind |-> "attest", pinned |-> FALSE, keys |-> {},
              peer |-> "none", reply |-> 0, attempt |-> 0]

Init ==
    /\ call = Wanted
    /\ pc = "none"
    /\ tries = 0
    /\ seen = 0
    /\ online = FALSE
    /\ root = NoMount
    /\ workload = NoMount
    /\ agent = "down"
    /\ files = [k \in Keys |-> NoFile]
    /\ injected = FALSE
    /\ inj = NoHandler
    /\ client = [c \in Clients |-> NoCommand]

-----------------------------------------------------------------------------
(* The compute node *)

\* create-vm, the service's checks, get_backend, and the start of QEMU.  A
\* request that any of them refuses changes nothing here.  QEMU's disk boot
\* runs the boot loader of the first drive, and no init.sh.
CreateVm(n) ==
    /\ pc = "none"
    /\ n \in AcceptedCalls
    /\ call' = n
    /\ pc' = IF CommandOf[n].kernelBoot THEN "net" ELSE "disk"
    /\ UNCHANGED <<tries, seen, online, root, workload, agent, secrets, client>>

-----------------------------------------------------------------------------
(* nix/init.sh *)

Running == pc \notin {"none", "off", "disk"}

\* virtio drives get their names in the order they are probed.
Probe ==
    /\ Running
    /\ seen < Len(qemu.drives)
    /\ seen' = seen + 1
    /\ UNCHANGED <<call, pc, tries, online, root, workload, agent, secrets, client>>

Goto(next) == pc' = next /\ tries' = 0

\* exec poweroff -f: the guest's memory, with the agent and its files, is gone.
PowerOff ==
    /\ Goto("off")
    /\ agent' = "down"
    /\ files' = [k \in Keys |-> NoFile]
    /\ inj' = NoHandler
    /\ UNCHANGED <<call, seen, online, root, workload, injected, client>>

\* Mutant: a wait loop that polls once too often.
PollOnceMore(here, cond, next) ==
    /\ pc = here
    /\ \/ cond /\ Goto(next)
       \/ ~cond /\ tries <= MaxTries /\ tries' = tries + 1 /\ pc' = here
    /\ UNCHANGED <<call, seen, online, root, workload, agent, secrets, client>>

\* A wait loop over `cond`: MaxTries polls, then one of two ways on.
Poll(here, cond, next) ==
    /\ pc = here
    /\ \/ cond /\ Goto(next)
       \/ ~cond /\ tries < MaxTries /\ tries' = tries + 1 /\ pc' = here
    /\ UNCHANGED <<call, seen, online, root, workload, agent, secrets, client>>

TimesOut(here, cond) ==
    /\ pc = here
    /\ ~cond
    /\ tries = MaxTries
    /\ PowerOff

\* 30 polls for an interface: init goes on without one, or runs udhcpc (no
\* command line of build_kernel_cmdline has an `ip=`).
WaitInterface ==
    /\ pc = "net"
    /\ \E next \in {"vda", "dhcp"} : Goto(next)
    /\ UNCHANGED <<call, seen, online, root, workload, agent, secrets, client>>

\* udhcpc -q without -n or -b returns when it has a lease or fails to run, and
\* tries again for as long as nobody answers.
Dhcp ==
    /\ pc = "dhcp"
    /\ online' \in BOOLEAN
    /\ Goto("vda")
    /\ UNCHANGED <<call, seen, root, workload, agent, secrets, client>>

\* [ -n "$roothash" ]: an empty hash reads like none.
Given(hash) == hash.of # NoPath

\* The mode is parsed from /proc/cmdline before vda is waited for.
BootMode ==
    IF qemu.cmdline.luks THEN "luks"
    ELSE IF Given(qemu.cmdline.roothash) THEN "vdb"
    ELSE "plain"

WaitRootDevice == Poll("vda", seen >= 1, BootMode) \/ TimesOut("vda", seen >= 1)

WaitHashDevice == Poll("vdb", seen >= 2, "verity") \/ TimesOut("vdb", seen >= 2)

\* veritysetup open: the tree on the hash device is the data device's, and
\* its root is the hash of the command line.
VerityMatches(data, hash) ==
    LET d == qemu.drives[data]
        t == qemu.drives[data + 1]
    IN t.tree /\ t.path = d.path /\ ~d.tree /\ hash = HashOf(d.path)

AfterRoot == IF Given(qemu.cmdline.workload) THEN "vdc" ELSE "start"

OpenVerityRoot ==
    /\ pc = "verity"
    /\ VerityMatches(1, qemu.cmdline.roothash)
    /\ root' = [path |-> qemu.drives[1].path, via |-> "verity"]
    /\ Goto(AfterRoot)
    /\ UNCHANGED <<call, seen, online, workload, agent, secrets, client>>

\* Mutant: a root that does not verify is mounted as it is.
PlainMountInstead ==
    /\ pc = "verity"
    /\ root' = [path |-> qemu.drives[1].path, via |-> "plain"]
    /\ Goto(AfterRoot)
    /\ UNCHANGED <<call, seen, online, workload, agent, secrets, client>>

\* The modules, veritysetup or the mount fail.
VerityRootFails == pc = "verity" /\ PowerOff

\* Read-only, then read-write, then not at all: init goes on either way.
MountPlain ==
    /\ pc = "plain"
    /\ root' \in {NoMount, [path |-> qemu.drives[1].path, via |-> "plain"]}
    /\ Goto(AfterRoot)
    /\ UNCHANGED <<call, seen, online, workload, agent, secrets, client>>

WaitWorkloadDevice == Poll("vdc", seen >= 3, "vdd") \/ TimesOut("vdc", seen >= 3)

WaitWorkloadHash == Poll("vdd", seen >= 4, "wlverity") \/ TimesOut("vdd", seen >= 4)

OpenWorkload ==
    /\ pc = "wlverity"
    /\ VerityMatches(3, qemu.cmdline.workload)
    /\ workload' = [path |-> qemu.drives[3].path, via |-> "verity"]
    /\ Goto("start")
    /\ UNCHANGED <<call, seen, online, root, agent, secrets, client>>

WorkloadFails == pc = "wlverity" /\ PowerOff

\* prepare_chroot, /sbin/init if a root file system is mounted and has one, and
\* then the agent, which LUKS mode started long before.
StartRoot ==
    /\ pc = "start"
    /\ agent' = IF qemu.cmdline.luks THEN agent ELSE "starting"
    /\ Goto("wait")
    /\ UNCHANGED <<call, seen, online, root, workload, secrets, client>>

StartAgentEarly ==
    /\ pc = "luks"
    /\ agent' = "starting"
    /\ Goto("passphrase")
    /\ UNCHANGED <<call, seen, online, root, workload, secrets, client>>

HasPassphrase == Luks \in Keys /\ files[Luks].state # "absent"

\* Mutant: the passphrase is waited for without a limit.
WaitPassphraseForever ==
    /\ pc = "passphrase"
    /\ HasPassphrase
    /\ Goto("luksopen")
    /\ UNCHANGED <<call, seen, online, root, workload, agent, secrets, client>>

\* The loop ends at the last poll, and the file is looked for once more.
WaitPassphrase ==
    \/ Poll("passphrase", HasPassphrase, "luksopen")
    \/ /\ pc = "passphrase"
       /\ ~HasPassphrase
       /\ tries = MaxTries
       /\ Goto("lastlook")
       /\ UNCHANGED <<call, seen, online, root, workload, agent, secrets, client>>

LastLook ==
    \/ /\ pc = "lastlook"
       /\ HasPassphrase
       /\ Goto("luksopen")
       /\ UNCHANGED <<call, seen, online, root, workload, agent, secrets, client>>
    \/ /\ pc = "lastlook"
       /\ ~HasPassphrase
       /\ PowerOff

\* cryptsetup reads whatever the file holds at this moment.
LuksOpen ==
    /\ pc = "luksopen"
    /\ files[Luks].state = "written"
    /\ files[Luks].from \in Owners
    /\ Goto("wipe")
    /\ UNCHANGED <<call, seen, online, root, workload, agent, secrets, client>>

\* A file that was created and not written yet is an empty passphrase.
LuksOpenFails ==
    /\ pc = "luksopen"
    /\ Goto("wipefail")
    /\ UNCHANGED <<call, seen, online, root, workload, agent, secrets, client>>

Wipe ==
    /\ pc = "wipe"
    /\ files' = [files EXCEPT ![Luks] = NoFile]
    /\ Goto("mount")
    /\ UNCHANGED <<call, seen, online, root, workload, agent, injected, inj, client>>

WipeAndStop == pc = "wipefail" /\ PowerOff

MountLuks ==
    /\ pc = "mount"
    /\ root' = [path |-> qemu.drives[1].path, via |-> "luks"]
    /\ Goto("start")
    /\ UNCHANGED <<call, seen, online, workload, agent, secrets, client>>

MountLuksFails == pc = "mount" /\ PowerOff

InitStep ==
    \/ WaitInterface \/ WaitRootDevice
    \/ WaitHashDevice \/ OpenVerityRoot \/ VerityRootFails \/ MountPlain
    \/ WaitWorkloadDevice \/ WaitWorkloadHash \/ OpenWorkload \/ WorkloadFails
    \/ StartRoot
    \/ StartAgentEarly \/ WaitPassphrase \/ LastLook
    \/ LuksOpen \/ LuksOpenFails \/ Wipe \/ WipeAndStop
    \/ MountLuks \/ MountLuksFails

-----------------------------------------------------------------------------
(* aleph-attest-agent *)

\* The TLS identity needs a report from /dev/sev-guest, which only an SNP
\* guest has; binding the port may fail as well.
AgentStarts ==
    /\ agent = "starting"
    /\ agent' \in {"dead"} \cup (IF qemu.tee.snp THEN {"up"} ELSE {})
    /\ UNCHANGED <<call, boot, secrets, client>>

\* The client waits for this agent's answer.
Asks(c) == client[c].pc = "sent" /\ client[c].peer = "guest"

\* ... to this attempt.
Waits(c, attempt) == Asks(c) /\ client[c].attempt = attempt

Reply(c, status) ==
    client' = [client EXCEPT ![c] = [@ EXCEPT !.pc = "replied", !.reply = status]]

ReplyIfWaiting(c, attempt, status) ==
    IF Waits(c, attempt) THEN Reply(c, status) ELSE UNCHANGED client

\* attestation_endpoint: a report with the client's nonce, or a 500.
ServeReport(c) ==
    /\ agent = "up"
    /\ Asks(c)
    /\ client[c].kind = "fresh"
    /\ \E status \in {200, 500} : Reply(c, status)
    /\ UNCHANGED <<call, boot, agent, secrets>>

\* proxy_handler: the upstream's answer, or a 502 when there is no upstream;
\* the client looks at neither status.  An upstream that keeps the request is
\* waited for without a limit.
ServeProxied(c) ==
    /\ agent = "up"
    /\ Asks(c)
    /\ client[c].kind = "attest"
    /\ Reply(c, 200)
    /\ UNCHANGED <<call, boot, agent, secrets>>

\* No key, or a key that is no file name, is refused before anything is written.
BodyAccepted(keys) == keys # {} /\ "bad/key" \notin keys


\* inject_secret_handler takes the lock and answers at once: 409, 400, or 500
\* when the directory cannot be made.
InjectRefused(c) ==
    /\ agent = "up"
    /\ Asks(c)
    /\ client[c].kind = "inject"
    /\ inj = NoHandler
    /\ \/ injected /\ Reply(c, 409)
       \/ ~injected /\ ~BodyAccepted(client[c].keys) /\ Reply(c, 400)
       \/ ~injected /\ BodyAccepted(client[c].keys) /\ Reply(c, 500)
    /\ UNCHANGED <<call, boot, agent, secrets>>

\* Mutant: the flag is not looked at.
InjectLockUnguarded(c) ==
    /\ agent = "up"
    /\ Asks(c)
    /\ client[c].kind = "inject"
    /\ inj = NoHandler
    /\ BodyAccepted(client[c].keys)
    /\ inj' = [who |-> c, attempt |-> client[c].attempt, left |-> client[c].keys, open |-> ""]
    /\ UNCHANGED <<call, boot, agent, files, injected, client>>

\* ... or keeps the lock until the last secret is written.
InjectLock(c) ==
    /\ agent = "up"
    /\ Asks(c)
    /\ client[c].kind = "inject"
    /\ inj = NoHandler
    /\ ~injected
    /\ BodyAccepted(client[c].keys)
    /\ inj' = [who |-> c, attempt |-> client[c].attempt, left |-> client[c].keys, open |-> ""]
    /\ UNCHANGED <<call, boot, agent, files, injected, client>>

\* The file exists, empty, before it has its content.
InjectOpen(k) ==
    /\ inj.who # NoClient
    /\ inj.open = ""
    /\ k \in inj.left
    /\ files' = [files EXCEPT ![k] = [state |-> "empty", from |-> inj.who,
                                      attempt |-> inj.attempt]]
    /\ inj' = [inj EXCEPT !.open = k]
    /\ UNCHANGED <<call, boot, agent, injected, client>>

\* init may have unlinked the file meanwhile: the bytes go nowhere.
InjectWrite ==
    LET k == inj.open
    IN /\ k # ""
       /\ files' = IF files[k].state = "absent" THEN files
                   ELSE [files EXCEPT ![k].state = "written"]
       /\ inj' = [inj EXCEPT !.open = "", !.left = @ \ {k}]
       /\ UNCHANGED <<call, boot, agent, injected, client>>

\* Mutant: the flag stays clear, so that the client may try again.
InjectFailsUnmarked ==
    /\ inj.who # NoClient
    /\ inj.left # {}
    /\ inj' = NoHandler
    /\ ReplyIfWaiting(inj.who, inj.attempt, 500)
    /\ UNCHANGED <<call, boot, agent, files, injected>>

\* Opening or writing fails: what was written stays, and so does the flag.
InjectFails ==
    /\ inj.who # NoClient
    /\ inj.left # {}
    /\ injected' = TRUE
    /\ inj' = NoHandler
    /\ ReplyIfWaiting(inj.who, inj.attempt, 500)
    /\ UNCHANGED <<call, boot, agent, files>>

\* Mutant: the answer is sent before the last secret is written.
InjectEndsEarly ==
    /\ inj.who # NoClient
    /\ Cardinality(inj.left) <= 1
    /\ injected' = TRUE
    /\ inj' = NoHandler
    /\ ReplyIfWaiting(inj.who, inj.attempt, 200)
    /\ UNCHANGED <<call, boot, agent, files>>

InjectEnds ==
    /\ inj.who # NoClient
    /\ inj.left = {}
    /\ injected' = TRUE
    /\ inj' = NoHandler
    /\ ReplyIfWaiting(inj.who, inj.attempt, 200)
    /\ UNCHANGED <<call, boot, agent, files>>

AgentStep ==
    \/ AgentStarts
    \/ \E c \in Clients : ServeReport(c) \/ InjectRefused(c) \/ InjectLock(c)
    \/ (\E k \in Keys : InjectOpen(k)) \/ InjectWrite \/ InjectFails \/ InjectEnds

-----------------------------------------------------------------------------
(* aleph-attest-cli *)

\* A command of the client, possibly after one that failed.  An injection has
\* at least one secret.
StartCommand(c) ==
    /\ client[c].pc \in {"idle", "failed"}
    /\ client[c].attempt < MaxAttempts[c]
    /\ \E m \in Commands :
          client' = [client EXCEPT ![c] =
             [pc |-> "connect", kind |-> m.kind, pinned |-> m.pinned, keys |-> m.keys,
              peer |-> "none", reply |-> 0, attempt |-> @.attempt + 1]]
    /\ UNCHANGED <<call, boot, agent, secrets>>

\* A command that ended without success: nothing of it is kept.
ClientFails(c) ==
    client' = [client EXCEPT ![c] = [NoCommand EXCEPT !.pc = "failed", !.attempt = client[c].attempt]]

ClientSucceeds(c) == client' = [client EXCEPT ![c].pc = "ok"]

\* The fields of a certificate's attestation extension.  Only `signed`, the
\* report itself, is covered by the signature that is verified later.
AgentCertificate ==
    [bound |-> TRUE, measurement |-> MeasurementOf[call], signed |-> MeasurementOf[call]]
Certificates ==
    LET m == {MeasurementOf[n] : n \in AcceptedCalls} \cup {Pin}
    IN [bound : BOOLEAN, measurement : m, signed : m]

\* Mutant: the measurement is not compared.
MeasurementNotCompared(cert, pinned) == cert.bound

\* The report_data field is the hash of the certificate's key, and a pinned
\* measurement is compared with the measurement field.
verify_server_cert(cert, pinned) ==
    cert.bound /\ (pinned => cert.measurement = Pin)

\* The handshake ends, and the request is sent.
Connected(c, peer) ==
    client' = [client EXCEPT ![c] = [@ EXCEPT !.pc = "sent", !.peer = peer]]

Handshake(c) ==
    /\ client[c].pc = "connect"
    /\ online
    /\ agent = "up"
    /\ verify_server_cert(AgentCertificate, client[c].pinned)
    /\ Connected(c, "guest")
    /\ UNCHANGED <<call, boot, agent, secrets>>

\* Another server answers at the address, with a certificate of its own.
HandshakeElsewhere(c) ==
    /\ c \in Astray
    /\ client[c].pc = "connect"
    /\ {cert \in Certificates : verify_server_cert(cert, client[c].pinned)} # {}
    /\ Connected(c, "other")
    /\ UNCHANGED <<call, boot, agent, secrets>>

\* There is no agent to connect to, or its measurement is not the pinned one.
ConnectFails(c) ==
    /\ client[c].pc = "connect"
    /\ pc # "off"
    /\ \/ ~online \/ agent # "up"
       \/ ~verify_server_cert(AgentCertificate, client[c].pinned)
    /\ ClientFails(c)
    /\ UNCHANGED <<call, boot, agent, secrets>>

\* The connection is lost, during the handshake or later.  The client sets no
\* time limit, so that a guest which powers off may go unnoticed.
ConnectionLost(c) ==
    /\ client[c].pc \in {"connect", "sent"}
    /\ ClientFails(c)
    /\ UNCHANGED <<call, boot, agent, secrets>>

\* A status that is no success ends like an answer that does not verify.
OtherAnswers(c) ==
    /\ client[c].pc = "sent"
    /\ client[c].peer = "other"
    /\ Reply(c, 200)
    /\ UNCHANGED <<call, boot, agent, secrets>>

\* The certificate chain and the report's signature are only verified once
\* the answer is there, and the answer's status only after that.
Verify(c) ==
    /\ client[c].pc = "replied"
    /\ IF client[c].kind = "attest" \/ client[c].reply = 200
       THEN ClientSucceeds(c) ELSE ClientFails(c)
    /\ UNCHANGED <<call, boot, agent, secrets>>

\* The certificates cannot be fetched, or do not verify.
VerifyFails(c) ==
    /\ client[c].pc = "replied"
    /\ ClientFails(c)
    /\ UNCHANGED <<call, boot, agent, secrets>>

ClientStep(c) == Handshake(c) \/ ConnectFails(c) \/ Verify(c) \/ VerifyFails(c)

-----------------------------------------------------------------------------

Next ==
    \/ \E n \in Calls : CreateVm(n)
    \/ Probe
    \/ InitStep
    \/ Dhcp
    \/ AgentStep
    \/ \E c \in Clients :
          \/ StartCommand(c) \/ ClientStep(c)
          \/ ServeProxied(c) \/ HandshakeElsewhere(c) \/ ConnectionLost(c) \/ OtherAnswers(c)

\* init.sh, the agent's threads and the clients run.  Nothing says that a
\* drive, an interface or a lease ever shows up, that the upstream or another
\* server answers, or that a connection is lost.
Spec ==
    /\ Init /\ [][Next]_vars
    /\ WF_vars(InitStep) /\ WF_vars(AgentStep)
    /\ \A c \in Clients : WF_vars(ClientStep(c))

-----------------------------------------------------------------------------
(* Properties *)

\* Every variable has its type.
GuestTypeOK ==
    /\ call \in AcceptedCalls
    /\ tries \in 0..MaxTries
    /\ seen \in 0..Len(qemu.drives)
    /\ root.via \in {"none", "plain", "verity", "luks"}
    /\ workload.via \in {"none", "verity"}
    /\ agent \in {"down", "starting", "up", "dead"}
    /\ files \in [Keys -> [state : {"absent", "empty", "written"},
                           from : Clients \cup {NoClient}, attempt : Nat]]
    /\ inj.left \subseteq Keys
    /\ \A c \in Clients : client[c].pc \in {"idle", "connect", "sent", "replied", "ok", "failed"}

\* What the gRPC service accepts never reaches the panics of
\* build_qemu_command, which would take the orchestrator's handler down after
\* it took an address, an interface and chains for the VM.
AcceptedNeverPanics == pc # "none" => ~QemuCommandPanics(qemu.drives)

\* create_vm's disk layout and command line agree with the device names that
\* init.sh has wired in: whenever init opens a verity device, the hash, the
\* data and the tree belong together, whatever disks were requested.
LayoutMatchesInit ==
    /\ pc = "verity" => VerityMatches(1, qemu.cmdline.roothash)
    /\ pc = "wlverity" => VerityMatches(3, qemu.cmdline.workload)

\* A confidential guest only ever starts the root file system of its request,
\* verified or decrypted, with the requested workload volume when there is
\* one: no failure on the way makes init fall back to an unverified mount.
\* The one exception is an image whose cached root hash is empty: create_vm
\* puts `roothash=` on the command line, which init reads as no hash at all.
ConfidentialRootVerified ==
    qemu.tee.snp /\ pc = "wait" =>
        LET c == ConfigOf[call]
            hashed(i) == c.disks[i].path \notin Emptied
        IN /\ c.encrypted \/ hashed(1) =>
                 root = [path |-> c.disks[1].path,
                         via |-> IF c.encrypted THEN "luks" ELSE "verity"]
           /\ workload = IF Len(c.disks) > 1 /\ ~c.encrypted /\ hashed(2)
                         THEN [path |-> c.disks[2].path, via |-> "verity"]
                         ELSE NoMount

\* A command succeeded over a connection to this guest's agent.
Succeeded(c) == client[c].pc = "ok" /\ client[c].peer = "guest"

\* A command that succeeded against a pinned measurement, over a connection to
\* this guest's agent, talked to a guest that runs the root file system and
\* the workload the measurement was computed for, although the measurement
\* covers neither disk, and although the node may have cached an empty hash
\* (for an unencrypted root, which the agent only serves once it is mounted).
\* Of another server it says nothing: the pin is compared with a field of the
\* certificate that no signature covers.
AttestedMeansExpected ==
    \A c \in Clients :
        Succeeded(c) /\ client[c].pinned /\ ~ConfigOf[Wanted].encrypted /\ pc # "off" =>
            /\ root = [path |-> ConfigOf[Wanted].disks[1].path, via |-> "verity"]
            /\ workload.path = IF Len(ConfigOf[Wanted].disks) > 1
                               THEN ConfigOf[Wanted].disks[2].path ELSE NoPath

\* Once the root is unlocked the passphrase is gone for good: no handler that
\* was in the middle of an injection, and no later one, puts it back.
PassphraseGone ==
    qemu.cmdline.luks /\ pc \in {"mount", "start", "wait"} => ~HasPassphrase

\* The secrets of a guest all come from one request, whatever requests raced
\* for the lock, failed half way or were repeated.
SecretsFromOneRequest ==
    \A j, k \in Keys :
        files[j].state # "absent" /\ files[k].state # "absent" =>
            files[j].from = files[k].from /\ files[j].attempt = files[k].attempt

\* A client that this guest's agent told its secrets were injected finds every one of them
\* written, from the attempt that was answered, except the passphrase that
\* init has consumed.
InjectedMeansStored ==
    \A c \in Clients :
        Succeeded(c) /\ client[c].kind = "inject" /\ pc # "off" =>
            \A k \in client[c].keys :
                \/ files[k] = [state |-> "written", from |-> c, attempt |-> client[c].attempt]
                \/ k = Luks /\ qemu.cmdline.luks /\ ~HasPassphrase

\* init.sh starts what it found or powers off, also when drives, the interface,
\* the passphrase or the agent never show up: udhcpc without a lease is the
\* only thing it waits for without a limit.
BootEnds == pc \notin {"none", "dhcp"} ~> pc \in {"wait", "off", "disk", "dhcp"}

\* Neither the client nor the proxy has a time limit: a client may wait for
\* ever for an upstream that keeps its request, for another server, or for a
\* guest that has powered off.
WaitsOnOthers(c) ==
    \/ client[c].pc = "sent" /\ (client[c].kind = "attest" \/ client[c].peer = "other")
    \/ client[c].pc \in {"connect", "sent"} /\ pc = "off"


=============================================================================
