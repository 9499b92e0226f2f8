----------------------------- MODULE MCGuestBoot -----------------------------
(* An instance of GuestBoot for TLC: requests with zero to three disks, with *)
(* and without a TEE and encryption, and every kind of argument the service  *)
(* refuses; two clients, of which one knows the LUKS passphrase.             *)
EXTENDS GuestBoot

Id(n) == [i \in 1..n |-> "lower"]
RootDisk == <<"/root.img", "raw", "ro">>
AppDisk  == <<"/app.img">>
DataDisk == <<"/data.qcow2", "qcow2">>

Confidential ==
    [vm_id |-> Id(2), kernel |-> "/bzImage", initrd |-> "/initrd", disk |-> <<RootDisk>>,
     vcpus |-> 1, memory_mb |-> 512, tee_backend |-> "sev-snp",
     ipv6_address |-> "", ipv6_prefix_len |-> 0, encrypted |-> FALSE]

\* The hash of this image was lost when it was cached.
TornDisk == <<"/torn.img">>

TwoDisks == [Confidential EXCEPT !.disk = <<RootDisk, AppDisk>>]

\* The first seven are started; some check refuses each of the others.
MCArguments ==
    [wanted      |-> TwoDisks,
     torn_first  |-> [Confidential EXCEPT !.disk = <<TornDisk>>, !.tee_backend = ""],
     torn_second |-> [TwoDisks EXCEPT !.disk = <<RootDisk, TornDisk, DataDisk>>],
     no_disk     |-> [Confidential EXCEPT !.disk = << >>],
     encrypted   |-> [Confidential EXCEPT !.encrypted = TRUE],
     plain       |-> [Confidential EXCEPT !.tee_backend = "none", !.ipv6_address = "address"],
     disk_boot   |-> [Confidential EXCEPT !.tee_backend = "none", !.initrd = ""],
     long_id     |-> [Confidential EXCEPT !.vm_id = Id(12)],
     no_kernel   |-> [Confidential EXCEPT !.kernel = ""],
     no_vcpu     |-> [Confidential EXCEPT !.vcpus = 0],
     no_backend  |-> [Confidential EXCEPT !.tee_backend = "tdx"],
     plain_luks  |-> [Confidential EXCEPT !.tee_backend = "none", !.encrypted = TRUE],
     bad_format  |-> [Confidential EXCEPT !.disk = <<<<"/root.img", "squashfs">>>>],
     comma       |-> [Confidential EXCEPT !.disk = <<<<"/a,b.img">>>>],
     bad_spec    |-> [Confidential EXCEPT !.disk = <<<<"/root.img", "raw", "ro", "x">>>>],
     bad_prefix  |-> [Confidential EXCEPT !.ipv6_address = "address", !.ipv6_prefix_len = 129]]

MCCalls  == DOMAIN MCArguments
MCPaths  == {"/bzImage", "/initrd", "/root.img", "/app.img", "/data.qcow2", "/torn.img", "/a,b.img"}
MCEmptied == {"/torn.img"}
MCComma  == {"/a,b.img"}
MCCommands ==
    {[kind |-> "attest", pinned |-> TRUE, keys |-> {}],
     [kind |-> "fresh",  pinned |-> FALSE, keys |-> {}],
     [kind |-> "inject", pinned |-> FALSE, keys |-> {Luks, "api"}],
     [kind |-> "inject", pinned |-> TRUE, keys |-> {"bad/key"}]}

\* The client that knows the passphrase may try twice.
MCAttempts == [c \in Clients |-> IF c \in Owners THEN 2 ELSE 1]
=============================================================================
