------------------------------ MODULE VmRequest ------------------------------
(***************************************************************************)
(* How a create request becomes a QEMU command: the command line client's   *)
(* arguments, the checks of the gRPC service, the disk layout and kernel    *)
(* command line that VmManager::create_vm computes, and the arguments of    *)
(* QEMU.  Pure operators; GuestBoot boots what they compute.                *)
(*                                                                          *)
(* A vm_id is the sequence of its character classes.  A path is an opaque   *)
(* value whose properties the constants give.  A root hash is the record    *)
(* of the file it was computed from: hashing is injective.  `emptied` are   *)
(* the images whose cached hash file is empty and newer than the image,     *)
(* which VerityCache shows can happen: ensure_verity returns what the file  *)
(* holds.  The NUMA node of a request is left to NumaAllocator.             *)
(***************************************************************************)
EXTENDS Integers, SequencesExt

CONSTANTS
    NoPath,      \* the empty path
    Absolute,    \* paths that are absolute
    Existing,    \* paths of files that exist
    WithComma    \* paths that contain a comma

ASSUME PathsAssumption == NoPath \notin Absolute \cup Existing \cup WithComma

-----------------------------------------------------------------------------
(* aleph-cvm-cli *)

\* A disk specification is the sequence of its colon-separated parts.
DiskSpecParses(parts) == Len(parts) \in 1..3

parse_disk(parts) ==
    [path     |-> parts[1],
     format   |-> IF Len(parts) = 1 THEN "raw" ELSE parts[2],
     readonly |-> Len(parts) = 3 /\ parts[3] = "ro"]

\* unwrap_or_default of a request without a tee field.
NoTee == [backend |-> "", policy |-> ""]

\* The request of `create-vm`: --tee-backend never carries a policy.
CliRequest(args) ==
    [vm_id           |-> args.vm_id,
     kernel          |-> args.kernel,
     initrd          |-> args.initrd,
     disks           |-> [i \in 1..Len(args.disk) |-> parse_disk(args.disk[i])],
     vcpus           |-> args.vcpus,
     memory_mb       |-> args.memory_mb,
     tee             |-> [NoTee EXCEPT !.backend = args.tee_backend],
     ipv6_address    |-> args.ipv6_address,
     ipv6_prefix_len |-> args.ipv6_prefix_len,
     encrypted       |-> args.encrypted]

-----------------------------------------------------------------------------
(* grpc/service.rs *)

MAX_VM_ID_LEN == 11

validate_vm_id(id) ==
    /\ Len(id) \in 1..MAX_VM_ID_LEN
    /\ \A i \in 1..Len(id) : id[i] \in {"lower", "digit", "hyphen"}
    /\ id[1] # "hyphen"
    /\ id[Len(id)] # "hyphen"

validate_file_path(p) == p \in Absolute \cap Existing

validate_vm_resources(vcpus, memory_mb) == vcpus > 0 /\ memory_mb > 0

TeeTypes == {"sev-snp", "tdx", "nvidia-cc", "none"}

\* An unset backend means SEV-SNP; an empty policy means the default one.
parse_tee_config(tee) ==
    [backend |-> IF tee.backend = "" THEN "sev-snp" ELSE tee.backend,
     policy  |-> tee.policy]

IsConfidential(tee) == tee.backend # "none"

\* Kernel and initrd may only be left out of a VM without a TEE.
BootFileAccepted(p, tee) ==
    IF p = NoPath THEN ~IsConfidential(tee) ELSE validate_file_path(p)

DiskFormat(d) == IF d.format = "" THEN "raw" ELSE d.format

\* Mutant: any format is passed on.
AnyDiskFormatAccepted(d) == validate_file_path(d.path) /\ d.path \notin WithComma

DiskAccepted(d) ==
    /\ validate_file_path(d.path)
    /\ DiskFormat(d) \in {"raw", "qcow2"}
    /\ d.path \notin WithComma

\* `as u8` of a u32.
Ipv6Prefix(len) == IF len = 0 THEN 128 ELSE len % 256

Ipv6Accepted(r) ==
    \/ r.ipv6_address = ""
    \/ r.ipv6_address # "malformed" /\ Ipv6Prefix(r.ipv6_prefix_len) <= 128

\* The checks of create_vm; each one that fails is an INVALID_ARGUMENT.
Accepted(r) ==
    LET tee == parse_tee_config(r.tee)
    IN /\ validate_vm_id(r.vm_id)
       /\ tee.backend \in TeeTypes
       /\ BootFileAccepted(r.kernel, tee)
       /\ BootFileAccepted(r.initrd, tee)
       /\ validate_vm_resources(r.vcpus, r.memory_mb)
       /\ IsConfidential(tee) \/ ~r.encrypted
       /\ \A i \in 1..Len(r.disks) : DiskAccepted(r.disks[i])
       /\ r.kernel # NoPath \/ r.disks # <<>>
       /\ Ipv6Accepted(r)

\* The VmConfig of an accepted request.  tree marks the hash trees that
\* create_vm adds to the disks of the request.
ToConfig(r) ==
    [vm_id     |-> r.vm_id,
     kernel    |-> r.kernel,
     initrd    |-> r.initrd,
     disks     |-> [i \in 1..Len(r.disks) |->
                       [path |-> r.disks[i].path, readonly |-> r.disks[i].readonly,
                        format |-> DiskFormat(r.disks[i]), tree |-> FALSE]],
     vcpus     |-> r.vcpus,
     memory_mb |-> r.memory_mb,
     tee       |-> parse_tee_config(r.tee),
     encrypted |-> r.encrypted]

-----------------------------------------------------------------------------
(* VmManager::create_vm: backend, disk layout, kernel command line *)

\* main registers two backends; any other TEE fails here.
Backends == {"sev-snp", "none"}
HasBackend(c) == c.tee.backend \in Backends

\* An optional root hash: None, Some("") and Some of an image's hash.
NoHash    == [some |-> FALSE, of |-> NoPath]
HashOf(p) == [some |-> TRUE, of |-> p]
EmptyHash == HashOf(NoPath)

\* ensure_verity: the cached hash as it stands, or the one just computed.
ensure_verity(p, emptied) == IF p \in emptied THEN EmptyHash ELSE HashOf(p)

\* What ensure_verity adds next to a disk.
HashTree(d) == [path |-> d.path, readonly |-> TRUE, format |-> "raw", tree |-> TRUE]

UsesVerity(c) == IsConfidential(c.tee) /\ ~c.encrypted /\ c.disks # <<>>

\* Mutant: the insertion of the first hash tree is forgotten, and the second
\* one is put where the workload disk was in the request.
DiskLayoutNotShifted(c) ==
    IF ~UsesVerity(c) THEN c.disks
    ELSE LET rooted == InsertAt(c.disks, 2, HashTree(c.disks[1]))
         IN IF Len(c.disks) > 1 THEN InsertAt(rooted, 3, HashTree(rooted[3]))
            ELSE rooted

\* [root, tree, workload, tree, the rest] of a confidential VM whose root is
\* not encrypted; the disks as they were requested otherwise.
DiskLayout(c) ==
    IF ~UsesVerity(c) THEN c.disks
    ELSE LET rooted == InsertAt(c.disks, 2, HashTree(c.disks[1]))
         IN IF Len(c.disks) > 1 THEN InsertAt(rooted, 4, HashTree(rooted[3]))
            ELSE rooted

\* What QEMU is given as -append.
build_kernel_cmdline(roothash, workload, encrypted) ==
    IF encrypted THEN [luks |-> TRUE, roothash |-> NoHash, workload |-> NoHash]
    ELSE [luks |-> FALSE, roothash |-> roothash, workload |-> workload]

\* No -append at all is read back like the plain command line.
NoCmdline == build_kernel_cmdline(NoHash, NoHash, FALSE)

KernelCmdline(c, emptied) ==
    IF ~IsConfidential(c.tee) THEN NoCmdline
    ELSE build_kernel_cmdline(
            IF UsesVerity(c) THEN ensure_verity(c.disks[1].path, emptied) ELSE NoHash,
            IF UsesVerity(c) /\ Len(c.disks) > 1
            THEN ensure_verity(c.disks[2].path, emptied) ELSE NoHash,
            c.encrypted)

-----------------------------------------------------------------------------
(* qemu/args.rs and the TEE backends' arguments *)

DEFAULT_POLICY == "0x30000"

\* The node and the page size of the memory backend are NumaAllocator's.
sev_snp_qemu_args(c) ==
    [snp |-> TRUE,
     policy |-> IF c.tee.policy = "" THEN DEFAULT_POLICY ELSE c.tee.policy]

\* NoTeeBackend passes only -cpu host.
no_tee_qemu_args == [snp |-> FALSE, policy |-> ""]

\* The panics of build_qemu_command.
QemuCommandPanics(disks) ==
    \E i \in 1..Len(disks) :
        disks[i].format \notin {"raw", "qcow2"} \/ disks[i].path \in WithComma

\* Kernel boot needs both files; one of them alone is a disk boot.
build_qemu_command(c, emptied) ==
    [kernelBoot |-> c.kernel # NoPath /\ c.initrd # NoPath,
     kernel     |-> c.kernel,
     initrd     |-> c.initrd,
     cmdline    |-> KernelCmdline(c, emptied),
     smp        |-> c.vcpus,
     mem        |-> c.memory_mb,
     drives     |-> DiskLayout(c),
     tee        |-> IF IsConfidential(c.tee) THEN sev_snp_qemu_args(c)
                    ELSE no_tee_qemu_args]

\* The launch digest: kernel-hashes=on puts the kernel, the initrd and the
\* command line into it, and the initial state of every vCPU is part of it.
Measurement(q) ==
    [kernel |-> q.kernel, initrd |-> q.initrd, cmdline |-> q.cmdline, smp |-> q.smp]

=============================================================================
