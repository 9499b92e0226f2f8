--------------------------- MODULE GuestBootProof ---------------------------
(***************************************************************************)
(* The theorems of GuestBoot, for every list of disks, every set of calls,  *)
(* clients and commands and every bound on polls and attempts.              *)
(*                                                                          *)
(* First what create_vm makes of the disks of an accepted request, in terms *)
(* of InsertAt and KernelCmdline; then the inductive invariant GuestInv,    *)
(* which ties the place init.sh has reached to the command line, the mounts *)
(* and the agent, and the secrets to the handler that holds the injection   *)
(* lock; then one lemma for each step.                                      *)
(***************************************************************************)
EXTENDS GuestBoot, TLAPS

-----------------------------------------------------------------------------
(* What an accepted request makes of its disks *)

\* A drive that build_qemu_command takes, of a file that exists.
GoodDrive(d) ==
    /\ d.path # NoPath
    /\ d.path \notin WithComma
    /\ d.format \in {"raw", "qcow2"}

LEMMA ConcatOf ==
    ASSUME NEW S, NEW s \in Seq(S), NEW t \in Seq(S)
    PROVE  /\ s \o t \in Seq(S) /\ Len(s \o t) = Len(s) + Len(t)
           /\ \A j \in 1..Len(s) : (s \o t)[j] = s[j]
           /\ \A j \in 1..Len(t) : (s \o t)[Len(s) + j] = t[j]
<1>1. s \o t \in Seq(S) /\ Len(s \o t) = Len(s) + Len(t)
    OBVIOUS
<1>2. \A j \in 1..Len(s) : (s \o t)[j] = s[j]
    OBVIOUS
<1>3. \A j \in 1..Len(t) : (s \o t)[Len(s) + j] = t[j]
    OBVIOUS
<1> QED
    BY <1>1, <1>2, <1>3

\* insert(i, e) on the Vec of disks.
LEMMA Inserted ==
    ASSUME NEW S, NEW s \in Seq(S), NEW e \in S, NEW i \in 1..(Len(s) + 1)
    PROVE  /\ InsertAt(s, i, e) \in Seq(S)
           /\ Len(InsertAt(s, i, e)) = Len(s) + 1
           /\ InsertAt(s, i, e)[i] = e
           /\ \A j \in 1..(i - 1) : InsertAt(s, i, e)[j] = s[j]
           /\ \A j \in i..Len(s) : InsertAt(s, i, e)[j + 1] = s[j]
<1> DEFINE a == SubSeq(s, 1, i - 1)
           b == SubSeq(s, i, Len(s))
<1>0. Len(s) \in Nat /\ i \in Nat /\ i - 1 \in 0..Len(s)
    OBVIOUS
<1>1. a \in Seq(S) /\ Len(a) = i - 1 /\ \A j \in 1..(i - 1) : a[j] = s[j]
    BY <1>0
<1>2. b \in Seq(S) /\ Len(b) = Len(s) - i + 1 /\ \A j \in 1..(Len(s) - i + 1) : b[j] = s[i + j - 1]
    BY <1>0
<1>3. InsertAt(s, i, e) = a \o <<e>> \o b
    BY DEF InsertAt
<1> HIDE DEF a, b
<1>4. /\ a \o <<e>> \in Seq(S) /\ Len(a \o <<e>>) = i
      /\ (a \o <<e>>)[i] = e
      /\ \A j \in 1..(i - 1) : (a \o <<e>>)[j] = s[j]
    BY <1>0, <1>1
<1> DEFINE ae == a \o <<e>>
<1> HIDE DEF ae
<1>5. ae \in Seq(S) /\ Len(ae) = i /\ ae[i] = e /\ \A j \in 1..(i - 1) : ae[j] = s[j]
    BY <1>4 DEF ae
<1>6. /\ ae \o b \in Seq(S) /\ Len(ae \o b) = Len(s) + 1
      /\ \A j \in 1..i : (ae \o b)[j] = ae[j]
      /\ \A j \in 1..(Len(s) - i + 1) : (ae \o b)[i + j] = b[j]
    <2>1. /\ ae \o b \in Seq(S) /\ Len(ae \o b) = Len(ae) + Len(b)
          /\ \A j \in 1..Len(ae) : (ae \o b)[j] = ae[j]
          /\ \A j \in 1..Len(b) : (ae \o b)[Len(ae) + j] = b[j]
        BY <1>2, <1>5, ConcatOf
    <2> QED
        BY <1>0, <1>2, <1>5, <2>1
<1>7. \A j \in i..Len(s) : (ae \o b)[j + 1] = s[j]
    <2> TAKE j \in i..Len(s)
    <2> DEFINE k == j - i + 1
    <2>1. k \in 1..(Len(s) - i + 1) /\ i + k = j + 1 /\ i + k - 1 = j
        BY <1>0
    <2> HIDE DEF k
    <2> QED
        BY <1>2, <1>6, <2>1
<1> QED
    BY <1>0, <1>3, <1>5, <1>6, <1>7 DEF ae

LEMMA ConfigDisks ==
    ASSUME NEW n \in AcceptedCalls
    PROVE  LET c == ConfigOf[n]
           IN /\ Len(c.disks) \in Nat
              /\ c.disks \in Seq({c.disks[i] : i \in 1..Len(c.disks)})
              /\ \A i \in 1..Len(c.disks) : GoodDrive(c.disks[i]) /\ c.disks[i].tree = FALSE
<1> DEFINE r == CliRequest(Arguments[n])
           m == Len(Arguments[n].disk)
           ds == [i \in 1..m |-> [path |-> r.disks[i].path, readonly |-> r.disks[i].readonly,
                                  format |-> DiskFormat(r.disks[i]), tree |-> FALSE]]
<1>1. m \in Nat /\ Accepted(r)
    BY CallsAssumption DEF AcceptedCalls
<1>2. r.disks = [i \in 1..m |-> parse_disk(Arguments[n].disk[i])]
    BY DEF CliRequest
<1>3. Len(r.disks) = m
    <2> HIDE DEF r, m
    <2> QED
        BY <1>1, <1>2
<1>4. ConfigOf[n].disks = ds
    BY <1>3 DEF ConfigOf, ToConfig
<1>5. \A i \in 1..m : DiskAccepted(r.disks[i])
    BY <1>1, <1>3 DEF Accepted
<1>6. Len(ds) = m /\ \A i \in 1..m : GoodDrive(ds[i]) /\ ds[i].tree = FALSE
    <2> HIDE DEF r, m
    <2>1. \A i \in 1..m : /\ ds[i].path = r.disks[i].path
                          /\ ds[i].format = DiskFormat(r.disks[i])
                          /\ ds[i].tree = FALSE
        OBVIOUS
    <2>2. Len(ds) = m
        BY <1>1
    <2> HIDE DEF ds
    <2> QED
        BY <1>5, <2>1, <2>2, PathsAssumption DEF GoodDrive, DiskAccepted, validate_file_path
<1>7. ds \in Seq({ds[i] : i \in 1..m})
    <2> DEFINE S == {ds[i] : i \in 1..m}
    <2>1. ds \in [1..m -> S]
        <3> HIDE DEF r, m
        <3> QED OBVIOUS
    <2> HIDE DEF ds, S, m
    <2>2. ds \in Seq(S)
        BY <1>1, <2>1
    <2> QED
        BY <2>2 DEF S
<1> HIDE DEF ds, m, r
<1> QED
    BY <1>1, <1>4, <1>6, <1>7

\* The layout of create_vm: the hash tree of the root behind the root, that of
\* the workload behind the workload.
LEMMA LayoutOf ==
    ASSUME NEW n \in AcceptedCalls
    PROVE  LET c == ConfigOf[n]
               d == DiskLayout(c)
           IN /\ Len(d) \in Nat
              /\ \A i \in 1..Len(d) : GoodDrive(d[i])
              /\ ~UsesVerity(c) => d = c.disks
              /\ UsesVerity(c) =>
                    /\ Len(c.disks) >= 1
                    /\ d[1] = c.disks[1] /\ d[2] = HashTree(c.disks[1])
                    /\ Len(c.disks) > 1 => d[3] = c.disks[2] /\ d[4] = HashTree(c.disks[2])
<1> DEFINE c == ConfigOf[n]
           ds == c.disks
           D == {ds[i] : i \in 1..Len(ds)}
           S == D \cup {HashTree(x) : x \in D}
<1>0. Len(ds) \in Nat /\ ds \in Seq(D) /\ \A i \in 1..Len(ds) : GoodDrive(ds[i])
    BY ConfigDisks
<1>1. \A x \in S : GoodDrive(x)
    BY <1>0 DEF GoodDrive, HashTree
<1>2. ds \in Seq(S)
    <2>1. D \subseteq S
        OBVIOUS
    <2> HIDE DEF S, D
    <2> QED
        BY <1>0, <2>1
<1>3. CASE ~UsesVerity(c)
    BY <1>0, <1>3 DEF DiskLayout
<1>4. CASE UsesVerity(c)
    <2> DEFINE rooted == InsertAt(ds, 2, HashTree(ds[1]))
    <2>1. Len(ds) >= 1
        BY <1>0, <1>4 DEF UsesVerity
    <2>2. ds[1] \in D /\ HashTree(ds[1]) \in S
        BY <1>0, <2>1
    <2>3. /\ rooted \in Seq(S) /\ Len(rooted) = Len(ds) + 1
          /\ rooted[1] = ds[1] /\ rooted[2] = HashTree(ds[1])
          /\ Len(ds) > 1 => rooted[3] = ds[2]
        <3>1. 2 \in 1..(Len(ds) + 1)
            BY <1>0, <2>1
        <3> HIDE DEF S, ds
        <3>2. /\ rooted \in Seq(S) /\ Len(rooted) = Len(ds) + 1 /\ rooted[2] = HashTree(ds[1])
              /\ \A j \in 1..(2 - 1) : rooted[j] = ds[j]
              /\ \A j \in 2..Len(ds) : rooted[j + 1] = ds[j]
            BY <1>2, <2>2, <3>1, Inserted
        <3> HIDE DEF rooted
        <3> QED
            BY <1>0, <3>2
    <2>4. CASE Len(ds) > 1
        <3> DEFINE d == InsertAt(rooted, 4, HashTree(rooted[3]))
        <3>1. HashTree(rooted[3]) \in S
            BY <1>0, <2>3, <2>4
        <3>2. /\ d \in Seq(S) /\ Len(d) = Len(ds) + 2 /\ d[4] = HashTree(rooted[3])
              /\ d[1] = rooted[1] /\ d[2] = rooted[2] /\ d[3] = rooted[3]
            <4>1. 4 \in 1..(Len(rooted) + 1)
                BY <1>0, <2>3, <2>4
            <4> HIDE DEF S, rooted, ds
            <4>2. /\ d \in Seq(S) /\ Len(d) = Len(rooted) + 1 /\ d[4] = HashTree(rooted[3])
                  /\ \A j \in 1..(4 - 1) : d[j] = rooted[j]
                BY <2>3, <3>1, <4>1, Inserted
            <4> HIDE DEF d
            <4> QED
                BY <1>0, <2>3, <4>2
        <3>3. DiskLayout(c) = d
            BY <1>4, <2>4 DEF DiskLayout
        <3> HIDE DEF d, S, rooted, ds
        <3>4. \A i \in 1..Len(d) : d[i] \in S
            BY <3>2
        <3>5. /\ Len(d) \in Nat /\ \A i \in 1..Len(d) : GoodDrive(d[i])
              /\ d[1] = ds[1] /\ d[2] = HashTree(ds[1]) /\ d[3] = ds[2] /\ d[4] = HashTree(ds[2])
            BY <1>0, <1>1, <2>3, <2>4, <3>2, <3>4
        <3> QED
            BY <1>4, <2>1, <3>3, <3>5 DEF ds
    <2>5. CASE ~(Len(ds) > 1)
        <3>1. DiskLayout(c) = rooted
            BY <1>4, <2>5 DEF DiskLayout
        <3> HIDE DEF S, rooted, ds
        <3>2. \A i \in 1..Len(rooted) : rooted[i] \in S
            BY <2>3
        <3>3. Len(rooted) \in Nat /\ \A i \in 1..Len(rooted) : GoodDrive(rooted[i])
            BY <1>0, <1>1, <2>3, <3>2
        <3> QED
            BY <1>4, <2>1, <2>3, <2>5, <3>1, <3>3 DEF ds
    <2> QED
        BY <2>4, <2>5
<1> QED
    BY <1>3, <1>4

LEMMA SnpArgs == ASSUME NEW c PROVE sev_snp_qemu_args(c).snp
BY DEF sev_snp_qemu_args

LEMMA NoTeeArgs == ~no_tee_qemu_args.snp
BY DEF no_tee_qemu_args

\* What the QEMU command of an accepted call says, in terms of its disks.
LEMMA BuildFacts ==
    ASSUME NEW n \in AcceptedCalls, NEW e
    PROVE  LET c == ConfigOf[n]
               q == build_qemu_command(c, e)
               h == q.cmdline
           IN /\ q.drives = DiskLayout(c)
              /\ q.tee.snp <=> IsConfidential(c.tee)
              /\ h.luks <=> IsConfidential(c.tee) /\ c.encrypted
              /\ h.luks => q.drives = c.disks /\ h.workload = NoHash
              /\ ~h.luks /\ UsesVerity(c) => h.roothash = ensure_verity(c.disks[1].path, e)
              /\ UsesVerity(c) => ~h.luks
              /\ ~UsesVerity(c) => h.roothash = NoHash /\ h.workload = NoHash
              /\ UsesVerity(c) =>
                    h.workload = IF Len(c.disks) > 1 THEN ensure_verity(c.disks[2].path, e) ELSE NoHash
              /\ q.tee.snp /\ ~h.luks /\ Len(q.drives) >= 1 => UsesVerity(c)
<1> DEFINE c == ConfigOf[n]
           q == build_qemu_command(c, e)
<1>1. q.drives = DiskLayout(c) /\ q.cmdline = KernelCmdline(c, e)
    BY DEF build_qemu_command
<1>2. q.tee = IF IsConfidential(c.tee) THEN sev_snp_qemu_args(c) ELSE no_tee_qemu_args
    BY DEF build_qemu_command
<1> HIDE DEF c, q
<1>3. q.tee.snp <=> IsConfidential(c.tee)
    <2>1. CASE IsConfidential(c.tee)
        <3>1. q.tee = sev_snp_qemu_args(c)
            BY <1>2, <2>1
        <3>2. q.tee.snp
            BY <3>1, SnpArgs
        <3> QED
            BY <2>1, <3>2
    <2>2. CASE ~IsConfidential(c.tee)
        <3>1. q.tee = no_tee_qemu_args
            BY <1>2, <2>2
        <3>2. ~q.tee.snp
            BY <3>1, NoTeeArgs
        <3> QED
            BY <2>2, <3>2
    <2> QED
        BY <2>1, <2>2
<1>4. CASE ~IsConfidential(c.tee)
    <2>1. /\ q.cmdline.luks = FALSE /\ q.cmdline.roothash = NoHash
          /\ q.cmdline.workload = NoHash
        BY <1>1, <1>4 DEF KernelCmdline, NoCmdline, build_kernel_cmdline
    <2>2. ~UsesVerity(c)
        BY <1>4 DEF UsesVerity
    <2> QED
        BY <1>1, <1>3, <1>4, <2>1, <2>2 DEF c, q
<1>5. CASE IsConfidential(c.tee) /\ c.encrypted
    <2>1. /\ q.cmdline.luks = TRUE /\ q.cmdline.roothash = NoHash
          /\ q.cmdline.workload = NoHash
        BY <1>1, <1>5 DEF KernelCmdline, build_kernel_cmdline
    <2>2. ~UsesVerity(c)
        BY <1>5 DEF UsesVerity
    <2>3. q.drives = c.disks
        BY <1>1, <2>2 DEF DiskLayout
    <2> QED
        BY <1>1, <1>3, <1>5, <2>1, <2>2, <2>3 DEF c, q
<1>6. CASE IsConfidential(c.tee) /\ ~c.encrypted
    <2>1. /\ q.cmdline.luks = FALSE
          /\ q.cmdline.roothash = IF UsesVerity(c) THEN ensure_verity(c.disks[1].path, e) ELSE NoHash
          /\ q.cmdline.workload = IF UsesVerity(c) /\ Len(c.disks) > 1
                                  THEN ensure_verity(c.disks[2].path, e) ELSE NoHash
        BY <1>1, <1>6 DEF KernelCmdline, build_kernel_cmdline
    <2>2. ~UsesVerity(c) => q.drives = <<>>
        BY <1>1, <1>6 DEF UsesVerity, DiskLayout
    <2>3. Len(q.drives) >= 1 => UsesVerity(c)
        BY <2>2
    <2> QED
        BY <1>1, <1>3, <1>6, <2>1, <2>3 DEF c, q
<1> QED
    BY <1>4, <1>5, <1>6

LEMMA CommandFacts ==
    ASSUME NEW n \in AcceptedCalls
    PROVE  LET c == ConfigOf[n]
               q == CommandOf[n]
               h == q.cmdline
           IN /\ q.drives = DiskLayout(c)
              /\ q.tee.snp <=> IsConfidential(c.tee)
              /\ h.luks <=> IsConfidential(c.tee) /\ c.encrypted
              /\ h.luks => q.drives = c.disks /\ h.workload = NoHash
              /\ UsesVerity(c) => ~h.luks /\ h.roothash = ensure_verity(c.disks[1].path, Emptied)
              /\ ~UsesVerity(c) => h.roothash = NoHash /\ h.workload = NoHash
              /\ UsesVerity(c) =>
                    h.workload = IF Len(c.disks) > 1 THEN ensure_verity(c.disks[2].path, Emptied)
                                 ELSE NoHash
              /\ q.tee.snp /\ ~h.luks /\ Len(q.drives) >= 1 => UsesVerity(c)
<1>1. CommandOf[n] = build_qemu_command(ConfigOf[n], Emptied)
    BY DEF CommandOf
<1> QED
    BY <1>1, BuildFacts

\* init.sh reads a hash back exactly when the cached one is not empty, and a
\* hash that is put on the command line is never missing there.
LEMMA HashesGiven ==
    ASSUME NEW n \in AcceptedCalls, NEW i \in 1..Len(ConfigOf[n].disks), NEW e
    PROVE  LET p == ConfigOf[n].disks[i].path
           IN /\ p # NoPath
              /\ Given(ensure_verity(p, e)) <=> p \notin e
              /\ p \notin e => ensure_verity(p, e) = HashOf(p)
              /\ p \in e => ensure_verity(p, e) = HashOf(NoPath)
              /\ ensure_verity(p, e) # NoHash
<1>1. PICK p : p = ConfigOf[n].disks[i].path
    OBVIOUS
<1>2. p # NoPath
    BY <1>1, ConfigDisks DEF GoodDrive
<1>3. CASE p \in e
    BY <1>1, <1>2, <1>3 DEF ensure_verity, EmptyHash, HashOf, NoHash, Given
<1>4. CASE p \notin e
    BY <1>1, <1>2, <1>4 DEF ensure_verity, HashOf, NoHash, Given
<1> QED
    BY <1>3, <1>4

LEMMA NoneGiven == ~Given(NoHash)
BY DEF Given, NoHash

\* The drives that init.sh opens with veritysetup belong together.
LEMMA VerityFits ==
    ASSUME call \in AcceptedCalls
    PROVE  /\ Given(qemu.cmdline.roothash) => VerityMatches(1, qemu.cmdline.roothash)
           /\ Given(qemu.cmdline.workload) => VerityMatches(3, qemu.cmdline.workload)
<1>0. PICK n \in AcceptedCalls : n = call
    OBVIOUS
<1> DEFINE c == ConfigOf[n]
<1>1. /\ qemu.drives = DiskLayout(c)
      /\ ~UsesVerity(c) => qemu.cmdline.roothash = NoHash /\ qemu.cmdline.workload = NoHash
      /\ UsesVerity(c) => /\ qemu.cmdline.roothash = ensure_verity(c.disks[1].path, Emptied)
                          /\ qemu.cmdline.workload =
                                IF Len(c.disks) > 1 THEN ensure_verity(c.disks[2].path, Emptied)
                                ELSE NoHash
    BY <1>0, CommandFacts DEF qemu
<1>2. CASE ~UsesVerity(c)
    BY <1>1, <1>2, NoneGiven
<1>3. CASE UsesVerity(c)
    <2>1. /\ Len(c.disks) \in Nat /\ Len(c.disks) >= 1
          /\ qemu.drives[1] = c.disks[1] /\ qemu.drives[2] = HashTree(c.disks[1])
          /\ Len(c.disks) > 1 => qemu.drives[3] = c.disks[2] /\ qemu.drives[4] = HashTree(c.disks[2])
        BY <1>1, <1>3, LayoutOf, ConfigDisks
    <2>0. \A i \in 1..Len(c.disks) :
             /\ c.disks[i].tree = FALSE
             /\ Given(ensure_verity(c.disks[i].path, Emptied)) =>
                   ensure_verity(c.disks[i].path, Emptied) = HashOf(c.disks[i].path)
        BY ConfigDisks, HashesGiven
    <2> HIDE DEF c
    <2>2. /\ c.disks[1].tree = FALSE /\ (Len(c.disks) > 1 => c.disks[2].tree = FALSE)
          /\ Given(qemu.cmdline.roothash) => qemu.cmdline.roothash = HashOf(c.disks[1].path)
          /\ Len(c.disks) > 1 /\ Given(qemu.cmdline.workload) =>
                qemu.cmdline.workload = HashOf(c.disks[2].path)
        BY <1>1, <1>3, <2>0, <2>1
    <2>3. Given(qemu.cmdline.roothash) => VerityMatches(1, qemu.cmdline.roothash)
        BY <2>1, <2>2 DEF VerityMatches, HashTree
    <2>4. Len(c.disks) > 1 /\ Given(qemu.cmdline.workload) =>
             VerityMatches(3, qemu.cmdline.workload)
        BY <2>1, <2>2 DEF VerityMatches, HashTree
    <2> QED
        BY <1>1, <1>3, <2>3, <2>4, NoneGiven
<1> QED
    BY <1>2, <1>3

-----------------------------------------------------------------------------
(* The inductive invariant *)

LuksMode == qemu.cmdline.luks

LuksPcs   == {"luks", "passphrase", "lastlook", "luksopen", "wipe", "wipefail", "mount"}
VerityPcs == {"vdb", "verity", "plain", "vdc", "vdd", "wlverity"}
Pcs       == {"none", "net", "dhcp", "vda", "disk", "off", "start", "wait"} \cup LuksPcs \cup VerityPcs

ClientPcs == {"idle", "connect", "sent", "replied", "ok", "failed"}
FileRecs  == [state : {"absent", "empty", "written"}, from : Clients \cup {NoClient},
              attempt : Nat]
Handlers  == [who : Clients \cup {NoClient}, attempt : Nat, left : SUBSET Keys,
              open : Keys \cup {""}]
Pins      == {m.pinned : m \in Commands} \cup {FALSE}
Replies   == {0, 200, 400, 409, 500}
Requests  == [pc : ClientPcs, kind : {"attest", "fresh", "inject"}, pinned : Pins,
              keys : SUBSET Keys, peer : {"none", "guest", "other"}, reply : Replies,
              attempt : Nat]

\* Types.  Only the machine that was created has drives to probe.
TypeInv ==
    /\ call \in AcceptedCalls
    /\ pc \in Pcs
    /\ tries \in 0..MaxTries
    /\ seen \in 0..Len(qemu.drives)
    /\ pc = "none" => seen = 0
    /\ root.via \in {"none", "plain", "verity", "luks"}
    /\ workload.via \in {"none", "verity"}
    /\ agent \in {"down", "starting", "up", "dead"}
    /\ files \in [Keys -> FileRecs]
    /\ inj \in Handlers
    /\ client \in [Clients -> Requests]

\* Where init.sh is tells the mode of the command line, what is mounted and
\* whether the agent may run.
ModeInv ==
    /\ pc \in LuksPcs => LuksMode
    /\ pc \in VerityPcs => ~LuksMode
    /\ pc \in {"vdb", "verity"} => Given(qemu.cmdline.roothash)
    /\ pc = "plain" => ~Given(qemu.cmdline.roothash)
    /\ pc \in {"vdc", "vdd", "wlverity"} => Given(qemu.cmdline.workload)
    /\ pc \notin {"none", "net", "dhcp", "vda", "disk", "off"} => seen >= 1

RootReady ==
    /\ LuksMode => root = [path |-> qemu.drives[1].path, via |-> "luks"]
    /\ ~LuksMode /\ Given(qemu.cmdline.roothash) =>
          root = [path |-> qemu.drives[1].path, via |-> "verity"]

WorkloadReady ==
    workload = IF ~LuksMode /\ Given(qemu.cmdline.workload)
               THEN [path |-> qemu.drives[3].path, via |-> "verity"] ELSE NoMount

MountInv ==
    /\ pc \in {"vdc", "vdd", "wlverity", "start", "wait"} => RootReady
    /\ pc \notin {"start", "wait", "off"} => workload = NoMount
    /\ pc \in {"start", "wait"} => WorkloadReady

AgentInv ==
    /\ agent # "down" => /\ pc \notin {"none", "net", "dhcp", "vda", "luks", "disk", "off"}
                         /\ LuksMode \/ pc = "wait"
    /\ agent = "up" => qemu.tee.snp
    /\ inj.who # NoClient => agent = "up"

\* One request fills /tmp/secrets, and init.sh removes the passphrase only
\* once the handler is through with it.
InjectInv ==
    /\ inj.who = NoClient => inj = NoHandler
    /\ injected => inj.who = NoClient
    /\ inj.open # "" => inj.open \in inj.left /\ files[inj.open].state = "empty"
    /\ \A k \in Keys : files[k].state # "absent" =>
          /\ inj.who # NoClient \/ injected
          /\ inj.who # NoClient => files[k].from = inj.who /\ files[k].attempt = inj.attempt
          /\ files[k].state = "written" => k \notin inj.left
    /\ SecretsFromOneRequest

LuksInv ==
    /\ pc = "luksopen" => Luks \in Keys
    /\ LuksMode /\ pc \in {"wipe", "mount", "start", "wait"} =>
          /\ Luks \in Keys
          /\ Luks \notin inj.left
          /\ inj.who # NoClient \/ injected
    /\ LuksMode /\ pc \in {"mount", "start", "wait"} => files[Luks].state = "absent"

\* The secret of the client's last request is on disk, or was used by init.sh.
Stored(c, k) ==
    \/ files[k] = [state |-> "written", from |-> c, attempt |-> client[c].attempt]
    \/ k = Luks /\ LuksMode /\ ~HasPassphrase

Answered(c) ==
    /\ client[c].kind = "inject" /\ client[c].peer = "guest"
    /\ client[c].pc = "replied" => client[c].reply = 200
    /\ client[c].pc \in {"replied", "ok"}

StoredInv ==
    \A c \in Clients :
        /\ inj.who = c => inj.attempt <= client[c].attempt
        /\ inj.who = c /\ client[c].attempt = inj.attempt =>
              \A k \in client[c].keys : k \in inj.left \/ Stored(c, k)
        /\ Answered(c) => injected
        /\ Answered(c) /\ pc # "off" => \A k \in client[c].keys : Stored(c, k)

\* A client that got through the handshake with the agent talks to a
\* confidential guest that, in verity mode, is done with its mounts.
Talks(c) == client[c].pc \in {"sent", "replied", "ok"} /\ client[c].peer = "guest"

Trusted(c) ==
    /\ pc # "none"
    /\ qemu.tee.snp
    /\ LuksMode \/ pc = "wait"
    /\ client[c].pinned => MeasurementOf[call] = Pin

ClientInv == \A c \in Clients : Talks(c) => Trusted(c)

GuestInv ==
    /\ TypeInv /\ ModeInv /\ MountInv /\ AgentInv
    /\ InjectInv /\ LuksInv /\ StoredInv /\ ClientInv

-----------------------------------------------------------------------------
(* Facts about the values *)

LEMMA KeysKnown ==
    /\ "" \notin Keys
    /\ \A m \in Commands : m.keys \subseteq Keys
<1>1. \A m \in Commands : m.keys \subseteq Keys
    BY DEF Keys
<1>2. ASSUME NEW m \in Commands PROVE m.keys \subseteq {"luks_passphrase", "api", "bad/key"}
    BY GuestAssumption DEF Luks
<1>3. ASSUME "" \in Keys PROVE FALSE
    <2>1. PICK m \in Commands : "" \in m.keys
        BY <1>3 DEF Keys
    <2> QED
        BY <1>2, <2>1
<1> QED
    BY <1>1, <1>3

LEMMA Bounds ==
    /\ NoClient \notin Clients
    /\ MaxTries \in Nat /\ 0 \in 0..MaxTries
BY GuestAssumption

LEMMA NoneTyped ==
    /\ NoFile \in FileRecs /\ NoFile.state = "absent"
    /\ NoHandler \in Handlers /\ NoHandler.who = NoClient
    /\ NoHandler.left = {} /\ NoHandler.open = ""
    /\ NoCommand \in Requests /\ NoCommand.pc = "idle" /\ NoCommand.peer = "none"
    /\ NoMount.via = "none"
BY DEF NoFile, FileRecs, NoHandler, Handlers, NoCommand, Requests, ClientPcs, Pins, Replies, NoMount

LEMMA FileFields ==
    ASSUME NEW f \in FileRecs
    PROVE  /\ f.state \in {"absent", "empty", "written"}
           /\ f.from \in Clients \cup {NoClient}
           /\ f.attempt \in Nat
           /\ f = [state |-> f.state, from |-> f.from, attempt |-> f.attempt]
BY DEF FileRecs

LEMMA HandlerFields ==
    ASSUME NEW h \in Handlers
    PROVE  /\ h.who \in Clients \cup {NoClient}
           /\ h.attempt \in Nat
           /\ h.left \subseteq Keys
           /\ h.open \in Keys \cup {""}
BY DEF Handlers

LEMMA RequestFields ==
    ASSUME NEW r \in Requests
    PROVE  /\ r.pc \in ClientPcs
           /\ r.kind \in {"attest", "fresh", "inject"}
           /\ r.keys \subseteq Keys
           /\ r.peer \in {"none", "guest", "other"}
           /\ r.attempt \in Nat
BY DEF Requests

LEMMA DrivesCounted ==
    ASSUME NEW n \in AcceptedCalls
    PROVE  Len(CommandOf[n].drives) \in Nat
BY LayoutOf, CommandFacts

LEMMA GuestInit == Init => GuestInv
<1> SUFFICES ASSUME Init PROVE GuestInv
    OBVIOUS
<1>1. TypeInv
    <2>1. call \in AcceptedCalls /\ Len(qemu.drives) \in Nat
        BY CallsAssumption, DrivesCounted DEF Init, qemu
    <2>2. files \in [Keys -> FileRecs] /\ inj \in Handlers /\ client \in [Clients -> Requests]
        BY NoneTyped DEF Init
    <2>3. root.via = "none" /\ workload.via = "none"
        BY NoneTyped DEF Init
    <2>4. tries \in 0..MaxTries /\ seen = 0 /\ pc = "none" /\ agent = "down"
        BY Bounds DEF Init
    <2> QED
        BY <2>1, <2>2, <2>3, <2>4 DEF TypeInv, Pcs
<1>2. ModeInv /\ MountInv /\ AgentInv
    BY NoneTyped DEF Init, ModeInv, LuksPcs, VerityPcs, MountInv, AgentInv
<1>3. \A k \in Keys : files[k].state = "absent"
    BY NoneTyped DEF Init
<1>4. InjectInv /\ LuksInv
    BY <1>3, NoneTyped DEF Init, InjectInv, LuksInv, SecretsFromOneRequest
<1>5. \A c \in Clients : client[c].pc = "idle"
    BY NoneTyped DEF Init
<1>6. StoredInv /\ ClientInv
    BY <1>5, NoneTyped, Bounds DEF Init, StoredInv, ClientInv, Answered, Talks
<1> QED
    BY <1>1, <1>2, <1>4, <1>6 DEF GuestInv

-----------------------------------------------------------------------------
(* create_vm and the guest kernel *)

LEMMA CreateVmHolds ==
    ASSUME GuestInv, NEW n \in Calls, CreateVm(n)
    PROVE  GuestInv'
<1>1. /\ pc = "none" /\ n \in AcceptedCalls /\ call' = n /\ pc' \in {"net", "disk"}
      /\ UNCHANGED <<tries, seen, online, root, workload, agent, files, injected, inj, client>>
    BY DEF CreateVm, secrets
<1>2. /\ seen = 0 /\ agent = "down" /\ inj.who = NoClient
      /\ \A c \in Clients : ~Talks(c) /\ ~Answered(c)
    BY <1>1 DEF GuestInv, TypeInv, AgentInv, ClientInv, Talks, Trusted, Answered
<1>3. TypeInv'
    <2>1. Len(qemu'.drives) \in Nat
        BY <1>1, DrivesCounted DEF qemu
    <2> QED
        BY <1>1, <1>2, <2>1 DEF GuestInv, TypeInv, Pcs
<1>4. ModeInv' /\ MountInv' /\ AgentInv'
    BY <1>1, <1>2 DEF GuestInv, ModeInv, MountInv, AgentInv, LuksPcs, VerityPcs
<1>5. InjectInv'
    BY <1>1 DEF GuestInv, InjectInv, SecretsFromOneRequest
<1>6. LuksInv'
    BY <1>1 DEF LuksInv
<1>7. StoredInv' /\ ClientInv'
    BY <1>1, <1>2, Bounds DEF StoredInv, ClientInv, Answered, Talks
<1> QED
    BY <1>3, <1>4, <1>5, <1>6, <1>7 DEF GuestInv

\* A step that leaves the secrets and the clients alone, and starts somewhere
\* in init.sh.
LEMMA WalkHolds ==
    ASSUME GuestInv, UNCHANGED <<call, files, injected, inj, client>>,
           pc \notin {"none", "off"}, pc' # "none", pc = "wait" => pc' = "wait"
    PROVE  InjectInv' /\ StoredInv' /\ ClientInv'
<1>1. qemu' = qemu /\ (LuksMode' <=> LuksMode) /\ (HasPassphrase' <=> HasPassphrase)
    BY DEF qemu, LuksMode, HasPassphrase
<1>2. InjectInv'
    BY DEF GuestInv, InjectInv, SecretsFromOneRequest
<1>3. \A c \in Clients : /\ Answered(c)' <=> Answered(c)
                         /\ \A k \in Keys : Stored(c, k)' <=> Stored(c, k)
    BY <1>1 DEF Answered, Stored
<1>4. \A c \in Clients : client[c].keys \subseteq Keys
    BY RequestFields DEF GuestInv, TypeInv
<1>5. StoredInv'
    BY <1>3, <1>4 DEF GuestInv, StoredInv
<1>6. ClientInv'
    BY <1>1 DEF GuestInv, ClientInv, Talks, Trusted
<1> QED
    BY <1>2, <1>5, <1>6

LEMMA ProbeHolds ==
    ASSUME GuestInv, Probe
    PROVE  GuestInv'
<1>1. /\ UNCHANGED <<call, pc, tries, root, workload, agent, files, injected, inj, client>>
      /\ pc \notin {"none", "off"} /\ seen < Len(qemu.drives) /\ seen' = seen + 1
    BY DEF Probe, Running, secrets
<1>2. qemu' = qemu /\ (LuksMode' <=> LuksMode) /\ Len(qemu.drives) \in Nat
    BY <1>1, DrivesCounted DEF qemu, LuksMode, GuestInv, TypeInv
<1>3. TypeInv' /\ ModeInv'
    BY <1>1, <1>2 DEF GuestInv, TypeInv, ModeInv
<1>4. MountInv' /\ AgentInv' /\ LuksInv'
    BY <1>1, <1>2 DEF GuestInv, MountInv, AgentInv, LuksInv, RootReady, WorkloadReady
<1>5. InjectInv' /\ StoredInv' /\ ClientInv'
    BY <1>1, WalkHolds
<1> QED
    BY <1>3, <1>4, <1>5 DEF GuestInv

-----------------------------------------------------------------------------
(* nix/init.sh *)

LEMMA PowerOffHolds ==
    ASSUME GuestInv, PowerOff, pc \notin {"none", "wait"}
    PROVE  GuestInv'
<1>1. /\ UNCHANGED <<call, seen, root, workload, injected, client>>
      /\ pc' = "off" /\ tries' = 0 /\ agent' = "down" /\ inj' = NoHandler
      /\ files' = [k \in Keys |-> NoFile]
    BY DEF PowerOff, Goto
<1>2. qemu' = qemu /\ (LuksMode' <=> LuksMode)
    BY <1>1 DEF qemu, LuksMode
<1>3. TypeInv'
    BY <1>1, <1>2, NoneTyped, Bounds DEF GuestInv, TypeInv, Pcs
<1>4. ModeInv' /\ MountInv' /\ AgentInv' /\ LuksInv'
    BY <1>1, NoneTyped DEF ModeInv, MountInv, AgentInv, LuksInv, LuksPcs, VerityPcs
<1>5. \A k \in Keys : files'[k].state = "absent"
    BY <1>1, NoneTyped
<1>6. InjectInv'
    BY <1>1, <1>5, NoneTyped DEF InjectInv, SecretsFromOneRequest
<1>7. StoredInv'
    BY <1>1, NoneTyped, Bounds DEF GuestInv, StoredInv, Answered
<1>8. ClientInv'
    BY <1>1, <1>2 DEF GuestInv, ClientInv, Talks, Trusted
<1> QED
    BY <1>3, <1>4, <1>6, <1>7, <1>8 DEF GuestInv

LEMMA WipeHolds ==
    ASSUME GuestInv, Wipe
    PROVE  GuestInv'
<1>1. /\ UNCHANGED <<call, seen, root, workload, agent, injected, inj, client>>
      /\ pc = "wipe" /\ pc' = "mount" /\ tries' = 0
      /\ files' = [files EXCEPT ![Luks] = NoFile]
    BY DEF Wipe, Goto
<1>2. qemu' = qemu /\ LuksMode /\ LuksMode'
    BY <1>1 DEF qemu, LuksMode, GuestInv, ModeInv, LuksPcs
<1>3. Luks \in Keys /\ Luks \notin inj.left /\ (inj.who # NoClient \/ injected)
    BY <1>1, <1>2 DEF GuestInv, LuksInv
<1>4. /\ files \in [Keys -> FileRecs]
      /\ files'[Luks].state = "absent" /\ \A k \in Keys : k # Luks => files'[k] = files[k]
    BY <1>1, <1>3, NoneTyped DEF GuestInv, TypeInv
<1>5. TypeInv'
    BY <1>1, <1>2, NoneTyped, Bounds DEF GuestInv, TypeInv, Pcs, LuksPcs
<1>6. ModeInv' /\ MountInv' /\ AgentInv'
    BY <1>1, <1>2 DEF GuestInv, ModeInv, MountInv, AgentInv, LuksPcs, VerityPcs
<1>7. LuksInv'
    BY <1>1, <1>3, <1>4 DEF LuksInv
<1>8. InjectInv'
    <2>1. inj.open # Luks /\ inj.open \in Keys \cup {""}
        BY <1>3, HandlerFields, KeysKnown DEF GuestInv, InjectInv, TypeInv, Luks
    <2> QED
        BY <1>1, <1>4, <2>1 DEF GuestInv, InjectInv, SecretsFromOneRequest
<1>9. ~HasPassphrase'
    BY <1>4 DEF HasPassphrase
<1>10. StoredInv'
    <2>1. ASSUME NEW c \in Clients, NEW k \in Keys, Stored(c, k) PROVE Stored(c, k)'
        <3>1. CASE k = Luks
            BY <1>2, <1>9, <3>1 DEF Stored
        <3>2. CASE k # Luks
            BY <1>1, <1>4, <2>1, <3>2 DEF Stored
        <3> QED
            BY <3>1, <3>2
    <2>2. \A c \in Clients : client[c].keys \subseteq Keys
        BY RequestFields DEF GuestInv, TypeInv
    <2>3. \A c \in Clients : Answered(c)' <=> Answered(c)
        BY <1>1 DEF Answered
    <2> QED
        BY <1>1, <2>1, <2>2, <2>3 DEF GuestInv, StoredInv
<1>11. ClientInv'
    BY <1>1, <1>2 DEF GuestInv, ClientInv, Talks, Trusted
<1> QED
    BY <1>5, <1>6, <1>7, <1>8, <1>10, <1>11 DEF GuestInv

\* What a step of init.sh keeps when it neither powers off nor wipes a file.
Kept == UNCHANGED <<call, seen, files, injected, inj, client>>

LEMMA KeptFacts ==
    ASSUME GuestInv, Kept
    PROVE  /\ qemu' = qemu /\ (LuksMode' <=> LuksMode)
           /\ call' = call /\ seen' = seen /\ files' = files /\ injected' = injected
           /\ inj' = inj /\ client' = client
BY DEF Kept, qemu, LuksMode

LEMMA InitWalk ==
    ASSUME GuestInv, Kept,
           pc \notin {"none", "off", "wait"}, pc' \in Pcs \ {"none"}, tries' \in 0..MaxTries,
           root'.via \in {"none", "plain", "verity", "luks"},
           workload'.via \in {"none", "verity"},
           agent' \in {"down", "starting", "up", "dead"},
           ModeInv', MountInv', AgentInv', LuksInv'
    PROVE  GuestInv'
<1>1. TypeInv'
    BY KeptFacts DEF GuestInv, TypeInv
<1>2. InjectInv' /\ StoredInv' /\ ClientInv'
    BY WalkHolds, KeptFacts
<1> QED
    BY <1>1, <1>2 DEF GuestInv

\* init.sh goes on and mounts and starts nothing.
Onward ==
    \/ pc' = pc
    \/ pc = "net" /\ pc' \in {"vda", "dhcp"}
    \/ pc = "dhcp" /\ pc' = "vda"
    \/ pc = "vda" /\ pc' = BootMode /\ seen >= 1
    \/ pc = "vdb" /\ pc' = "verity"
    \/ pc = "vdc" /\ pc' = "vdd"
    \/ pc = "vdd" /\ pc' = "wlverity"
    \/ pc = "passphrase" /\ pc' = "lastlook"
    \/ pc \in {"passphrase", "lastlook"} /\ pc' = "luksopen" /\ HasPassphrase
    \/ pc = "luksopen" /\ pc' = "wipefail"
    \/ pc = "luksopen" /\ pc' = "wipe" /\ files[Luks].state = "written"

LEMMA OnwardHolds ==
    ASSUME GuestInv, Kept, UNCHANGED <<root, workload, agent>>, Onward,
           pc \notin {"none", "off", "wait", "disk"}, tries' \in 0..MaxTries
    PROVE  GuestInv'
<1>0. pc \in Pcs /\ seen \in Nat
    BY DrivesCounted DEF GuestInv, TypeInv, qemu
<1>1. BootMode \in {"luks", "vdb", "plain"}
    BY DEF BootMode
<1>2. pc' \in Pcs \ {"none"}
    BY <1>0, <1>1 DEF Onward, Pcs, LuksPcs, VerityPcs
<1>3. ModeInv'
    <2>1. CASE pc = "vda" /\ pc' = BootMode /\ seen >= 1
        BY <1>1, <2>1, KeptFacts DEF BootMode, ModeInv, LuksPcs, VerityPcs, LuksMode
    <2>2. CASE ~(pc = "vda" /\ pc' = BootMode /\ seen >= 1)
        BY <1>0, <2>2, KeptFacts DEF GuestInv, ModeInv, Onward, LuksPcs, VerityPcs
    <2> QED
        BY <2>1, <2>2
<1>4. MountInv'
    <2>1. (RootReady' <=> RootReady) /\ (WorkloadReady' <=> WorkloadReady)
        BY KeptFacts DEF RootReady, WorkloadReady
    <2>2. pc' \in {"vdc", "vdd", "wlverity", "start"} => pc \in {"vdc", "vdd", "wlverity", "start"}
        BY <1>1 DEF Onward
    <2>3. pc' # "wait" /\ pc' # "off"
        BY <1>1 DEF Onward
    <2>4. pc' = "start" <=> pc = "start"
        BY <1>1 DEF Onward
    <2> QED
        BY <2>1, <2>2, <2>3, <2>4 DEF GuestInv, MountInv
<1>5. AgentInv'
    <2>1. agent # "down" => LuksMode /\ pc \in {"passphrase", "lastlook", "luksopen"} \cup {pc'}
        BY DEF GuestInv, AgentInv, Onward, ModeInv, VerityPcs
    <2>2. agent # "down" => pc' \notin {"none", "net", "dhcp", "vda", "luks", "disk", "off"}
        BY <2>1 DEF GuestInv, AgentInv, Onward
    <2> QED
        BY <2>1, <2>2, KeptFacts DEF GuestInv, AgentInv
<1>6. LuksInv'
    <2>1. pc' = "luksopen" => Luks \in Keys
        BY <1>1 DEF Onward, HasPassphrase, GuestInv, LuksInv
    <2>2. pc' \in {"mount", "start", "wait"} => pc' = pc
        BY <1>1 DEF Onward
    <2>3. pc' = "wipe" => pc' = pc \/ (pc = "luksopen" /\ files[Luks].state = "written")
        BY <1>1 DEF Onward
    <2>4. pc = "luksopen" /\ files[Luks].state = "written" =>
              /\ Luks \in Keys /\ Luks \notin inj.left /\ (inj.who # NoClient \/ injected)
        BY DEF GuestInv, LuksInv, InjectInv
    <2> QED
        BY <2>1, <2>2, <2>3, <2>4, KeptFacts DEF GuestInv, LuksInv
<1>7. /\ root'.via \in {"none", "plain", "verity", "luks"}
      /\ workload'.via \in {"none", "verity"}
      /\ agent' \in {"down", "starting", "up", "dead"}
    BY DEF GuestInv, TypeInv
<1> QED
    BY <1>2, <1>3, <1>4, <1>5, <1>6, <1>7, InitWalk

LEMMA MountHolds ==
    ASSUME GuestInv, Kept, UNCHANGED <<workload, agent>>, tries' = 0,
           \/ pc = "verity" /\ pc' = AfterRoot /\ root' = [path |-> qemu.drives[1].path, via |-> "verity"]
           \/ /\ pc = "plain" /\ pc' = AfterRoot
              /\ root' \in {NoMount, [path |-> qemu.drives[1].path, via |-> "plain"]}
           \/ pc = "mount" /\ pc' = "start" /\ root' = [path |-> qemu.drives[1].path, via |-> "luks"]
    PROVE  GuestInv'
<1>1. /\ AfterRoot \in {"vdc", "start"}
      /\ AfterRoot = "vdc" <=> Given(qemu.cmdline.workload)
    BY DEF AfterRoot
<1>2. pc' \in {"vdc", "start"} /\ pc \in {"verity", "plain", "mount"}
    BY <1>1
<1>3. root'.via \in {"none", "plain", "verity", "luks"}
    <2>1. \A p : LET m(via) == [path |-> p, via |-> via]
                 IN m("verity").via = "verity" /\ m("plain").via = "plain" /\ m("luks").via = "luks"
        OBVIOUS
    <2> QED
        BY <2>1, NoneTyped
<1>4. /\ pc = "mount" <=> LuksMode
      /\ pc = "verity" => Given(qemu.cmdline.roothash)
      /\ pc = "plain" => ~Given(qemu.cmdline.roothash)
      /\ seen >= 1 /\ workload = NoMount
    BY <1>2 DEF GuestInv, ModeInv, MountInv, LuksPcs, VerityPcs
<1>5. RootReady'
    BY <1>2, <1>4, KeptFacts DEF RootReady
<1>6. ModeInv'
    BY <1>1, <1>2, <1>4, KeptFacts DEF ModeInv, LuksPcs, VerityPcs
<1>7. MountInv'
    <2>1. pc' = "start" => LuksMode \/ ~Given(qemu.cmdline.workload)
        BY <1>1, <1>2, <1>4
    <2>2. pc' = "start" => WorkloadReady'
        BY <1>4, <2>1, KeptFacts DEF WorkloadReady
    <2> QED
        BY <1>2, <1>4, <1>5, <2>2 DEF MountInv
<1>8. AgentInv'
    BY <1>2, <1>4, KeptFacts DEF GuestInv, AgentInv
<1>9. LuksInv'
    BY <1>2, <1>4, KeptFacts DEF GuestInv, LuksInv
<1>10. /\ pc' \in Pcs \ {"none"} /\ tries' \in 0..MaxTries
       /\ workload'.via \in {"none", "verity"}
       /\ agent' \in {"down", "starting", "up", "dead"}
    BY <1>2, Bounds DEF GuestInv, TypeInv, Pcs, VerityPcs
<1> QED
    BY <1>2, <1>3, <1>6, <1>7, <1>8, <1>9, <1>10, InitWalk

LEMMA OpenWorkloadHolds ==
    ASSUME GuestInv, OpenWorkload
    PROVE  GuestInv'
<1>1. /\ Kept /\ UNCHANGED <<root, agent>> /\ pc = "wlverity" /\ pc' = "start" /\ tries' = 0
      /\ workload' = [path |-> qemu.drives[3].path, via |-> "verity"]
    BY DEF OpenWorkload, Goto, Kept, secrets
<1>2. ~LuksMode /\ Given(qemu.cmdline.workload) /\ seen >= 1 /\ RootReady
    BY <1>1 DEF GuestInv, ModeInv, MountInv, VerityPcs
<1>3. ModeInv'
    BY <1>1, <1>2, KeptFacts DEF ModeInv, LuksPcs, VerityPcs
<1>4. MountInv'
    BY <1>1, <1>2, KeptFacts DEF MountInv, RootReady, WorkloadReady
<1>5. AgentInv' /\ LuksInv'
    BY <1>1, <1>2, KeptFacts DEF GuestInv, AgentInv, LuksInv
<1>6. /\ pc' \in Pcs \ {"none"} /\ tries' \in 0..MaxTries
      /\ root'.via \in {"none", "plain", "verity", "luks"} /\ workload'.via = "verity"
      /\ agent' \in {"down", "starting", "up", "dead"}
    BY <1>1, Bounds DEF GuestInv, TypeInv, Pcs
<1> QED
    BY <1>1, <1>3, <1>4, <1>5, <1>6, InitWalk

LEMMA StartRootHolds ==
    ASSUME GuestInv, StartRoot
    PROVE  GuestInv'
<1>1. /\ Kept /\ UNCHANGED <<root, workload>> /\ pc = "start" /\ pc' = "wait" /\ tries' = 0
      /\ agent' = IF LuksMode THEN agent ELSE "starting"
    BY DEF StartRoot, Goto, Kept, secrets, LuksMode
<1>2. seen >= 1 /\ RootReady /\ WorkloadReady
    BY <1>1 DEF GuestInv, ModeInv, MountInv
<1>3. ModeInv'
    BY <1>1, <1>2, KeptFacts DEF ModeInv, LuksPcs, VerityPcs
<1>4. MountInv'
    BY <1>1, <1>2, KeptFacts DEF MountInv, RootReady, WorkloadReady
<1>5. AgentInv' /\ LuksInv'
    <2>1. ~LuksMode => agent = "down"
        BY <1>1 DEF GuestInv, AgentInv
    <2> QED
        BY <1>1, <2>1, KeptFacts DEF GuestInv, AgentInv, LuksInv
<1>6. /\ pc' \in Pcs \ {"none"} /\ tries' \in 0..MaxTries
      /\ root'.via \in {"none", "plain", "verity", "luks"} /\ workload'.via \in {"none", "verity"}
      /\ agent' \in {"down", "starting", "up", "dead"}
    BY <1>1, Bounds DEF GuestInv, TypeInv, Pcs
<1> QED
    BY <1>1, <1>3, <1>4, <1>5, <1>6, InitWalk

LEMMA StartAgentEarlyHolds ==
    ASSUME GuestInv, StartAgentEarly
    PROVE  GuestInv'
<1>1. /\ Kept /\ UNCHANGED <<root, workload>> /\ pc = "luks" /\ pc' = "passphrase"
      /\ tries' = 0 /\ agent' = "starting"
    BY DEF StartAgentEarly, Goto, Kept, secrets
<1>2. seen >= 1 /\ LuksMode /\ workload = NoMount /\ agent = "down" /\ inj.who = NoClient
    BY <1>1 DEF GuestInv, ModeInv, MountInv, AgentInv, LuksPcs
<1>3. ModeInv' /\ MountInv'
    BY <1>1, <1>2, KeptFacts DEF ModeInv, MountInv, LuksPcs, VerityPcs
<1>4. AgentInv' /\ LuksInv'
    BY <1>1, <1>2, KeptFacts DEF AgentInv, LuksInv
<1>5. /\ pc' \in Pcs \ {"none"} /\ tries' \in 0..MaxTries
      /\ root'.via \in {"none", "plain", "verity", "luks"} /\ workload'.via \in {"none", "verity"}
      /\ agent' \in {"down", "starting", "up", "dead"}
    BY <1>1, Bounds DEF GuestInv, TypeInv, Pcs, LuksPcs
<1> QED
    BY <1>1, <1>3, <1>4, <1>5, InitWalk

LEMMA InitStepHolds ==
    ASSUME GuestInv, InitStep
    PROVE  GuestInv'
<1> USE DEF Onward
<1>1. CASE WaitInterface
    <2>1. /\ Kept /\ UNCHANGED <<root, workload, agent>> /\ pc = "net"
          /\ pc' \in {"vda", "dhcp"} /\ tries' = 0
        BY <1>1 DEF WaitInterface, Goto, Kept, secrets
    <2> QED
        BY <2>1, Bounds, OnwardHolds
<1>2. CASE WaitRootDevice
    <2>1. CASE Poll("vda", seen >= 1, BootMode)
        <3>1. /\ Kept /\ UNCHANGED <<root, workload, agent>> /\ pc = "vda"
              /\ tries' \in 0..MaxTries
              /\ pc' = pc \/ (pc' = BootMode /\ seen >= 1)
            BY <2>1, Bounds DEF Poll, Goto, Kept, secrets, GuestInv, TypeInv
        <3> QED
            BY <3>1, OnwardHolds
    <2>2. CASE TimesOut("vda", seen >= 1)
        BY <2>2, PowerOffHolds DEF TimesOut
    <2> QED
        BY <1>2, <2>1, <2>2 DEF WaitRootDevice
<1>3. CASE WaitHashDevice
    <2>1. CASE Poll("vdb", seen >= 2, "verity")
        <3>1. /\ Kept /\ UNCHANGED <<root, workload, agent>> /\ pc = "vdb"
              /\ tries' \in 0..MaxTries
              /\ pc' = pc \/ pc' = "verity"
            BY <2>1, Bounds DEF Poll, Goto, Kept, secrets, GuestInv, TypeInv
        <3> QED
            BY <3>1, OnwardHolds
    <2>2. CASE TimesOut("vdb", seen >= 2)
        BY <2>2, PowerOffHolds DEF TimesOut
    <2> QED
        BY <1>3, <2>1, <2>2 DEF WaitHashDevice
<1>4. CASE WaitWorkloadDevice
    <2>1. CASE Poll("vdc", seen >= 3, "vdd")
        <3>1. /\ Kept /\ UNCHANGED <<root, workload, agent>> /\ pc = "vdc"
              /\ tries' \in 0..MaxTries
              /\ pc' = pc \/ pc' = "vdd"
            BY <2>1, Bounds DEF Poll, Goto, Kept, secrets, GuestInv, TypeInv
        <3> QED
            BY <3>1, OnwardHolds
    <2>2. CASE TimesOut("vdc", seen >= 3)
        BY <2>2, PowerOffHolds DEF TimesOut
    <2> QED
        BY <1>4, <2>1, <2>2 DEF WaitWorkloadDevice
<1>5. CASE WaitWorkloadHash
    <2>1. CASE Poll("vdd", seen >= 4, "wlverity")
        <3>1. /\ Kept /\ UNCHANGED <<root, workload, agent>> /\ pc = "vdd"
              /\ tries' \in 0..MaxTries
              /\ pc' = pc \/ pc' = "wlverity"
            BY <2>1, Bounds DEF Poll, Goto, Kept, secrets, GuestInv, TypeInv
        <3> QED
            BY <3>1, OnwardHolds
    <2>2. CASE TimesOut("vdd", seen >= 4)
        BY <2>2, PowerOffHolds DEF TimesOut
    <2> QED
        BY <1>5, <2>1, <2>2 DEF WaitWorkloadHash
<1>6. CASE OpenVerityRoot \/ MountPlain \/ MountLuks
    <2>1. Kept /\ UNCHANGED <<workload, agent>> /\ tries' = 0
        BY <1>6 DEF OpenVerityRoot, MountPlain, MountLuks, Goto, Kept, secrets
    <2>2. \/ /\ pc = "verity" /\ pc' = AfterRoot
             /\ root' = [path |-> qemu.drives[1].path, via |-> "verity"]
          \/ /\ pc = "plain" /\ pc' = AfterRoot
             /\ root' \in {NoMount, [path |-> qemu.drives[1].path, via |-> "plain"]}
          \/ /\ pc = "mount" /\ pc' = "start"
             /\ root' = [path |-> qemu.drives[1].path, via |-> "luks"]
        BY <1>6 DEF OpenVerityRoot, MountPlain, MountLuks, Goto
    <2> QED
        BY <2>1, <2>2, MountHolds
<1>7. CASE VerityRootFails \/ WorkloadFails \/ WipeAndStop \/ MountLuksFails
    BY <1>7, PowerOffHolds DEF VerityRootFails, WorkloadFails, WipeAndStop, MountLuksFails
<1>8. CASE WaitPassphrase
    <2>1. CASE Poll("passphrase", HasPassphrase, "luksopen")
        <3>1. /\ Kept /\ UNCHANGED <<root, workload, agent>> /\ pc = "passphrase"
              /\ tries' \in 0..MaxTries /\ (pc' = pc \/ (pc' = "luksopen" /\ HasPassphrase))
            BY <2>1, Bounds DEF Poll, Goto, Kept, secrets, GuestInv, TypeInv
        <3> QED
            BY <3>1, OnwardHolds
    <2>2. CASE ~Poll("passphrase", HasPassphrase, "luksopen")
        <3>1. /\ Kept /\ UNCHANGED <<root, workload, agent>> /\ pc = "passphrase"
              /\ tries' = 0 /\ pc' = "lastlook"
            BY <1>8, <2>2 DEF WaitPassphrase, Goto, Kept, secrets
        <3> QED
            BY <3>1, Bounds, OnwardHolds
    <2> QED
        BY <2>1, <2>2
<1>9. CASE LastLook
    <2>1. CASE PowerOff /\ pc = "lastlook"
        BY <2>1, PowerOffHolds
    <2>2. CASE ~(PowerOff /\ pc = "lastlook")
        <3>1. /\ Kept /\ UNCHANGED <<root, workload, agent>> /\ pc = "lastlook"
              /\ tries' = 0 /\ pc' = "luksopen" /\ HasPassphrase
            BY <1>9, <2>2 DEF LastLook, Goto, Kept, secrets
        <3> QED
            BY <3>1, Bounds, OnwardHolds
    <2> QED
        BY <2>1, <2>2
<1>10. CASE LuksOpen
    <2>1. /\ Kept /\ UNCHANGED <<root, workload, agent>> /\ pc = "luksopen"
          /\ tries' = 0 /\ pc' = "wipe" /\ files[Luks].state = "written"
        BY <1>10 DEF LuksOpen, Goto, Kept, secrets
    <2> QED
        BY <2>1, Bounds, OnwardHolds
<1>11. CASE LuksOpenFails
    <2>1. /\ Kept /\ UNCHANGED <<root, workload, agent>> /\ pc = "luksopen"
          /\ tries' = 0 /\ pc' = "wipefail"
        BY <1>11 DEF LuksOpenFails, Goto, Kept, secrets
    <2> QED
        BY <2>1, Bounds, OnwardHolds
<1> QED
    BY <1>1, <1>2, <1>3, <1>4, <1>5, <1>6, <1>7, <1>8, <1>9, <1>10, <1>11, WipeHolds,
       OpenWorkloadHolds, StartRootHolds, StartAgentEarlyHolds
    DEF InitStep

LEMMA DhcpHolds ==
    ASSUME GuestInv, Dhcp
    PROVE  GuestInv'
<1>1. /\ Kept /\ UNCHANGED <<root, workload, agent>> /\ pc = "dhcp" /\ pc' = "vda"
      /\ tries' = 0
    BY DEF Dhcp, Goto, Kept, secrets
<1> QED
    BY <1>1, Bounds, OnwardHolds DEF Onward

-----------------------------------------------------------------------------
(* aleph-attest-agent *)

\* The steps of the agent and of the clients leave the boot alone.
LEMMA BootKept ==
    ASSUME GuestInv, UNCHANGED <<call, boot>>
    PROVE  /\ qemu' = qemu /\ (LuksMode' <=> LuksMode) /\ pc' = pc
           /\ ModeInv' /\ MountInv'
           /\ (call \in AcceptedCalls)' /\ (pc \in Pcs)' /\ (tries \in 0..MaxTries)'
           /\ (seen \in 0..Len(qemu.drives))' /\ (pc = "none" => seen = 0)'
           /\ (root.via \in {"none", "plain", "verity", "luks"})'
           /\ (workload.via \in {"none", "verity"})'
<1>1. UNCHANGED <<call, pc, tries, seen, root, workload>>
    BY DEF boot
<1>2. qemu' = qemu /\ (LuksMode' <=> LuksMode)
    BY <1>1 DEF qemu, LuksMode
<1>3. ModeInv' /\ MountInv'
    BY <1>1, <1>2 DEF GuestInv, ModeInv, MountInv, RootReady, WorkloadReady
<1> QED
    BY <1>1, <1>2, <1>3 DEF GuestInv, TypeInv

Elsewhere(c) == \A d \in Clients : d # c => client'[d] = client[d]

LEMMA ReplyDoes ==
    ASSUME client \in [Clients -> Requests], NEW c \in Clients,
           NEW status \in {200, 400, 409, 500}, Reply(c, status)
    PROVE  /\ client' \in [Clients -> Requests] /\ Elsewhere(c)
           /\ client'[c].pc = "replied" /\ client'[c].reply = status
           /\ client'[c].kind = client[c].kind /\ client'[c].keys = client[c].keys
           /\ client'[c].attempt = client[c].attempt /\ client'[c].pinned = client[c].pinned
           /\ client'[c].peer = client[c].peer
<1>1. PICK q \in Requests : q = client[c]
    OBVIOUS
<1> DEFINE r == [q EXCEPT !.pc = "replied", !.reply = status]
<1>2. client' = [client EXCEPT ![c] = r]
    BY <1>1 DEF Reply
<1>3. /\ r.pc = "replied" /\ r.reply = status /\ r.kind = q.kind
      /\ r.keys = q.keys /\ r.attempt = q.attempt /\ r.pinned = q.pinned
      /\ r.peer = q.peer
    BY DEF Requests
<1>4. "replied" \in ClientPcs /\ status \in Replies
    BY DEF ClientPcs, Replies
<1>5. r \in Requests
    BY <1>4 DEF Requests
<1> HIDE DEF r
<1> QED
    BY <1>1, <1>2, <1>3, <1>5 DEF Elsewhere

LEMMA InjectKept ==
    ASSUME InjectInv, UNCHANGED <<files, injected, inj>>
    PROVE  InjectInv'
<1>1. SecretsFromOneRequest'
    BY DEF InjectInv, SecretsFromOneRequest
<1> QED
    BY <1>1 DEF InjectInv

LEMMA AgentStartsHolds ==
    ASSUME GuestInv, AgentStarts
    PROVE  GuestInv'
<1>1. /\ UNCHANGED <<call, boot>> /\ UNCHANGED <<files, injected, inj, client>>
      /\ agent = "starting" /\ agent' \in {"dead", "up"} /\ (agent' = "up" => qemu.tee.snp)
    BY DEF AgentStarts, secrets
<1>2. TypeInv'
    BY <1>1, BootKept DEF GuestInv, TypeInv
<1>3. pc \notin {"none", "off"}
    BY <1>1 DEF GuestInv, AgentInv
<1>4. InjectInv' /\ StoredInv' /\ ClientInv'
    BY <1>1, <1>3, BootKept, WalkHolds
<1>5. AgentInv' /\ LuksInv'
    BY <1>1, BootKept DEF GuestInv, AgentInv, LuksInv
<1> QED
    BY <1>1, <1>2, <1>4, <1>5, BootKept DEF GuestInv

\* An answer that says nothing of an injection.
LEMMA ReplyHolds ==
    ASSUME GuestInv, NEW c \in Clients, NEW status \in {200, 400, 409, 500}, Reply(c, status),
           client[c].pc = "sent",
           client[c].kind = "inject" /\ client[c].peer = "guest" => status # 200,
           UNCHANGED <<call, boot>>, UNCHANGED <<agent, files, injected, inj>>
    PROVE  GuestInv'
<1>1. /\ client' \in [Clients -> Requests] /\ Elsewhere(c)
      /\ client'[c].pc = "replied" /\ client'[c].reply = status
      /\ client'[c].kind = client[c].kind /\ client'[c].keys = client[c].keys
      /\ client'[c].attempt = client[c].attempt /\ client'[c].pinned = client[c].pinned
      /\ client'[c].peer = client[c].peer
    BY ReplyDoes DEF GuestInv, TypeInv
<1>2. TypeInv' /\ AgentInv' /\ LuksInv'
    BY <1>1, BootKept DEF GuestInv, TypeInv, AgentInv, LuksInv
<1>3. InjectInv'
    BY InjectKept DEF GuestInv
<1>4. \A d \in Clients :
         /\ client'[d].keys = client[d].keys /\ client'[d].attempt = client[d].attempt
         /\ Answered(d)' => Answered(d)
         /\ \A k : Stored(d, k)' <=> Stored(d, k)
    BY <1>1, BootKept DEF Elsewhere, Answered, Stored, HasPassphrase
<1>5. StoredInv'
    BY <1>4, BootKept DEF GuestInv, StoredInv
<1>6. ClientInv'
    BY <1>1, BootKept DEF GuestInv, ClientInv, Elsewhere, Talks, Trusted
<1> QED
    BY <1>2, <1>3, <1>5, <1>6, BootKept DEF GuestInv

LEMMA ServeGetHolds ==
    ASSUME GuestInv, NEW c \in Clients, ServeReport(c) \/ ServeProxied(c) \/ OtherAnswers(c)
    PROVE  GuestInv'
<1>1. PICK status \in {200, 500} : Reply(c, status)
    BY DEF ServeReport, ServeProxied, OtherAnswers
<1>2. /\ client[c].pc = "sent" /\ (client[c].kind # "inject" \/ client[c].peer # "guest")
      /\ UNCHANGED <<call, boot>> /\ UNCHANGED <<agent, files, injected, inj>>
    BY DEF ServeReport, ServeProxied, OtherAnswers, Asks, secrets
<1> QED
    BY <1>1, <1>2, ReplyHolds

LEMMA InjectRefusedHolds ==
    ASSUME GuestInv, NEW c \in Clients, InjectRefused(c)
    PROVE  GuestInv'
<1>1. PICK status \in {400, 409, 500} : Reply(c, status)
    BY DEF InjectRefused
<1> QED
    BY <1>1, ReplyHolds DEF InjectRefused, Asks, secrets

LEMMA InjectLockHolds ==
    ASSUME GuestInv, NEW c \in Clients, InjectLock(c)
    PROVE  GuestInv'
<1>1. /\ UNCHANGED <<call, boot>> /\ UNCHANGED <<agent, files, injected, client>>
      /\ agent = "up" /\ client[c].pc = "sent" /\ inj = NoHandler /\ ~injected
      /\ inj' = [who |-> c, attempt |-> client[c].attempt, left |-> client[c].keys, open |-> ""]
    BY DEF InjectLock, Asks
<1>2. inj'.who = c /\ inj'.attempt = client[c].attempt /\ inj'.left = client[c].keys /\ inj'.open = ""
    BY <1>1
<1>3. client[c].keys \subseteq Keys /\ client[c].attempt \in Nat
    BY RequestFields DEF GuestInv, TypeInv
<1>4. inj' \in Handlers
    BY <1>1, <1>3 DEF Handlers
<1>5. TypeInv'
    BY <1>1, <1>4, BootKept DEF GuestInv, TypeInv
<1>6. c # NoClient /\ inj.who = NoClient
    BY <1>1, NoneTyped, Bounds
<1>7. \A k \in Keys : files[k].state = "absent"
    BY <1>1, <1>6 DEF GuestInv, InjectInv
<1>8. InjectInv'
    BY <1>1, <1>2, <1>6, <1>7 DEF InjectInv, SecretsFromOneRequest
<1>9. AgentInv'
    BY <1>1, BootKept DEF GuestInv, AgentInv
<1>10. LuksInv'
    BY <1>1, <1>6, BootKept DEF GuestInv, LuksInv
<1>11. StoredInv'
    <2>1. \A d \in Clients : ~Answered(d)
        BY <1>1 DEF GuestInv, StoredInv
    <2>2. \A d \in Clients : Answered(d)' <=> Answered(d)
        BY <1>1 DEF Answered
    <2>3. ASSUME NEW d \in Clients, inj'.who = d
          PROVE  /\ inj'.attempt <= client'[d].attempt
                 /\ \A k \in client'[d].keys : k \in inj'.left
        <3>1. d = c /\ client' = client
            BY <1>1, <1>2, <2>3
        <3>2. client'[d].attempt = client[c].attempt /\ client'[d].keys = client[c].keys
            BY <3>1
        <3>3. \A i \in Nat : i <= i
            OBVIOUS
        <3>4. inj'.attempt <= client'[d].attempt
            BY <1>2, <1>3, <3>2, <3>3
        <3> QED
            BY <1>2, <3>2, <3>4
    <2> QED
        BY <2>1, <2>2, <2>3 DEF StoredInv
<1>12. ClientInv'
    BY <1>1, BootKept DEF GuestInv, ClientInv, Talks, Trusted
<1> QED
    BY <1>1, <1>5, <1>8, <1>9, <1>10, <1>11, <1>12, BootKept DEF GuestInv

LEMMA InjectOpenHolds ==
    ASSUME GuestInv, NEW k \in Keys, InjectOpen(k)
    PROVE  GuestInv'
<1>1. /\ UNCHANGED <<call, boot>> /\ UNCHANGED <<agent, injected, client>>
      /\ inj.who # NoClient /\ inj.open = "" /\ k \in inj.left
      /\ files' = [files EXCEPT ![k] = [state |-> "empty", from |-> inj.who,
                                        attempt |-> inj.attempt]]
      /\ inj' = [inj EXCEPT !.open = k]
    BY DEF InjectOpen
<1>2. /\ files \in [Keys -> FileRecs] /\ inj \in Handlers
      /\ inj.who \in Clients /\ inj.attempt \in Nat /\ inj.left \subseteq Keys
    BY <1>1, HandlerFields DEF GuestInv, TypeInv
<1>3. /\ inj' \in Handlers /\ inj'.open = k /\ inj'.who = inj.who
      /\ inj'.attempt = inj.attempt /\ inj'.left = inj.left
    BY <1>1, <1>2 DEF Handlers
<1>4. /\ files'[k].state = "empty" /\ files'[k].from = inj.who /\ files'[k].attempt = inj.attempt
      /\ \A j \in Keys : j # k => files'[j] = files[j]
    BY <1>1, <1>2
<1>5. files' \in [Keys -> FileRecs]
    <2>1. [state |-> "empty", from |-> inj.who, attempt |-> inj.attempt] \in FileRecs
        BY <1>2 DEF FileRecs
    <2> QED
        BY <1>1, <1>2, <2>1
<1>6. TypeInv'
    BY <1>1, <1>3, <1>5, BootKept DEF GuestInv, TypeInv
<1>7. InjectInv'
    <2>1. ~injected /\ k # ""
        BY <1>1, KeysKnown DEF GuestInv, InjectInv
    <2>2. \A j \in Keys : files'[j].state # "absent" =>
             /\ files'[j].from = inj.who /\ files'[j].attempt = inj.attempt
             /\ files'[j].state = "written" => j \notin inj.left
        BY <1>1, <1>4 DEF GuestInv, InjectInv
    <2>3. SecretsFromOneRequest'
        BY <2>2 DEF SecretsFromOneRequest
    <2> QED
        BY <1>1, <1>3, <1>4, <2>1, <2>2, <2>3 DEF InjectInv
<1>8. AgentInv'
    BY <1>1, <1>3, BootKept DEF GuestInv, AgentInv
<1>9. LuksInv'
    BY <1>1, <1>3, <1>4, BootKept DEF GuestInv, LuksInv
<1>10. StoredInv'
    <2>1. \A d \in Clients : ~Answered(d)'
        BY <1>1 DEF GuestInv, StoredInv, InjectInv, Answered
    <2>2. \A d \in Clients : client[d].keys \subseteq Keys
        BY RequestFields DEF GuestInv, TypeInv
    <2>3. ASSUME NEW j \in Keys, NEW d \in Clients, Stored(d, j), j \notin inj.left
          PROVE  Stored(d, j)'
        <3>1. j # k
            BY <1>1, <2>3
        <3>2. CASE k = Luks
            BY <1>1, <1>4, <2>3, <3>1, <3>2 DEF Stored
        <3>3. CASE k # Luks
            BY <1>1, <1>4, <2>3, <3>1, <3>3, BootKept DEF Stored, HasPassphrase
        <3> QED
            BY <3>2, <3>3
    <2> QED
        BY <1>1, <1>3, <2>1, <2>2, <2>3 DEF GuestInv, StoredInv
<1>11. ClientInv'
    BY <1>1, BootKept DEF GuestInv, ClientInv, Talks, Trusted
<1> QED
    BY <1>1, <1>6, <1>7, <1>8, <1>9, <1>10, <1>11, BootKept DEF GuestInv

LEMMA InjectWriteHolds ==
    ASSUME GuestInv, InjectWrite
    PROVE  GuestInv'
<1>0. PICK k : k = inj.open
    OBVIOUS
<1>1. /\ UNCHANGED <<call, boot>> /\ UNCHANGED <<agent, injected, client>>
      /\ k # "" /\ inj' = [inj EXCEPT !.open = "", !.left = @ \ {k}]
      /\ files' = IF files[k].state = "absent" THEN files
                  ELSE [files EXCEPT ![k].state = "written"]
    BY <1>0 DEF InjectWrite
<1>2. /\ files \in [Keys -> FileRecs] /\ inj \in Handlers /\ inj.left \subseteq Keys
    BY HandlerFields DEF GuestInv, TypeInv
<1>3. k \in inj.left /\ k \in Keys /\ files[k].state = "empty" /\ inj.who # NoClient /\ ~injected
    <2>1. k \in inj.left /\ files[k].state = "empty"
        BY <1>0, <1>1 DEF GuestInv, InjectInv
    <2>2. inj.who # NoClient
        BY <2>1, NoneTyped DEF GuestInv, InjectInv
    <2> QED
        BY <1>2, <2>1, <2>2 DEF GuestInv, InjectInv
<1>4. files[k].from = inj.who /\ files[k].attempt = inj.attempt /\ inj.who \in Clients
    BY <1>2, <1>3, HandlerFields DEF GuestInv, InjectInv
<1>5. /\ inj' \in Handlers /\ inj'.open = "" /\ inj'.who = inj.who
      /\ inj'.attempt = inj.attempt /\ inj'.left = inj.left \ {k}
    <2> QED
        BY <1>1, <1>2 DEF Handlers
<1>6. /\ files' \in [Keys -> FileRecs]
      /\ files'[k] = [state |-> "written", from |-> inj.who, attempt |-> inj.attempt]
      /\ \A j \in Keys : j # k => files'[j] = files[j]
    <2> DEFINE f == [files[k] EXCEPT !.state = "written"]
    <2>1. files' = [files EXCEPT ![k] = f]
        BY <1>1, <1>3
    <2>2. f \in FileRecs /\ f = [state |-> "written", from |-> inj.who, attempt |-> inj.attempt]
        BY <1>2, <1>3, <1>4 DEF FileRecs
    <2> HIDE DEF f
    <2> QED
        BY <1>2, <1>3, <2>1, <2>2
<1>7. TypeInv'
    BY <1>1, <1>5, <1>6, BootKept DEF GuestInv, TypeInv
<1>8. InjectInv'
    <2>1. files'[k].state = "written" /\ files'[k].from = inj.who /\ files'[k].attempt = inj.attempt
        BY <1>6
    <2>2. \A j \in Keys : files'[j].state # "absent" =>
             /\ files'[j].from = inj.who /\ files'[j].attempt = inj.attempt
             /\ files'[j].state = "written" => j \notin inj.left \ {k}
        BY <1>3, <1>6, <2>1 DEF GuestInv, InjectInv
    <2>3. SecretsFromOneRequest'
        BY <2>2 DEF SecretsFromOneRequest
    <2> QED
        BY <1>1, <1>3, <1>5, <2>2, <2>3 DEF InjectInv
<1>9. AgentInv'
    BY <1>1, <1>5, BootKept DEF GuestInv, AgentInv
<1>10. LuksInv'
    BY <1>1, <1>3, <1>5, <1>6, BootKept DEF GuestInv, LuksInv
<1>11. StoredInv'
    <2>1. \A d \in Clients : ~Answered(d)'
        BY <1>1, <1>3 DEF GuestInv, StoredInv, Answered
    <2>2. \A d \in Clients : client[d].keys \subseteq Keys
        BY RequestFields DEF GuestInv, TypeInv
    <2>3. ASSUME NEW j \in Keys, NEW d \in Clients, Stored(d, j), j # k PROVE Stored(d, j)'
        <3>1. HasPassphrase' <=> HasPassphrase
            BY <1>3, <1>6 DEF HasPassphrase
        <3> QED
            BY <1>1, <1>6, <2>3, <3>1, BootKept DEF Stored
    <2>4. \A d \in Clients : inj.who = d /\ client[d].attempt = inj.attempt => Stored(d, k)'
        BY <1>1, <1>6 DEF Stored
    <2> QED
        BY <1>1, <1>3, <1>5, <2>1, <2>2, <2>3, <2>4 DEF GuestInv, StoredInv
<1>12. ClientInv'
    BY <1>1, BootKept DEF GuestInv, ClientInv, Talks, Trusted
<1> QED
    BY <1>1, <1>7, <1>8, <1>9, <1>10, <1>11, <1>12, BootKept DEF GuestInv

\* The handler lets the lock go; 200 is only said once nothing is left.
LEMMA InjectReturnHolds ==
    ASSUME GuestInv, NEW status \in {200, 500}, status = 200 => inj.left = {},
           inj.who # NoClient, injected' = TRUE, inj' = NoHandler,
           ReplyIfWaiting(inj.who, inj.attempt, status),
           UNCHANGED <<call, boot>>, UNCHANGED <<agent, files>>
    PROVE  GuestInv'
<1>0. PICK c \in Clients : c = inj.who
    BY HandlerFields DEF GuestInv, TypeInv
<1>1. /\ client' \in [Clients -> Requests] /\ Elsewhere(c)
      /\ client'[c].kind = client[c].kind /\ client'[c].keys = client[c].keys
      /\ client'[c].attempt = client[c].attempt /\ client'[c].pinned = client[c].pinned
      /\ client'[c].peer = client[c].peer
      /\ \/ client'[c].pc = client[c].pc /\ client'[c].reply = client[c].reply
         \/ /\ client[c].pc = "sent" /\ client[c].attempt = inj.attempt
            /\ client'[c].pc = "replied" /\ client'[c].reply = status
    <2>1. client \in [Clients -> Requests]
        BY DEF GuestInv, TypeInv
    <2>2. CASE Waits(c, inj.attempt)
        BY <1>0, <2>1, <2>2, ReplyDoes DEF ReplyIfWaiting, Waits, Asks
    <2>3. CASE ~Waits(c, inj.attempt)
        BY <1>0, <2>1, <2>3 DEF ReplyIfWaiting, Elsewhere
    <2> QED
        BY <2>2, <2>3
<1>2. TypeInv'
    BY <1>1, NoneTyped, BootKept DEF GuestInv, TypeInv
<1>3. InjectInv'
    <2>1. InjectInv /\ files' = files /\ injected' /\ inj' = NoHandler
        BY DEF GuestInv
    <2>4. SecretsFromOneRequest
        BY DEF GuestInv, InjectInv
    <2>2. SecretsFromOneRequest'
        BY <2>4 DEF SecretsFromOneRequest
    <2>3. /\ inj'.who = NoClient /\ inj'.open = "" /\ inj'.left = {}
        BY <2>1, NoneTyped
    <2> QED
        BY <2>1, <2>2, <2>3 DEF InjectInv
<1>4. AgentInv' /\ LuksInv'
    <2>1. /\ AgentInv /\ LuksInv /\ UNCHANGED <<agent, files>> /\ injected' /\ inj' = NoHandler
          /\ qemu' = qemu /\ (LuksMode' <=> LuksMode) /\ pc' = pc
        BY BootKept DEF GuestInv
    <2>2. /\ inj'.who = NoClient /\ inj'.open = "" /\ inj'.left = {}
        BY <2>1, NoneTyped
    <2>3. AgentInv'
        BY <2>1, <2>2 DEF AgentInv
    <2> QED
        BY <2>1, <2>2, <2>3 DEF LuksInv
<1>5. \A d \in Clients : ~Answered(d)
    BY DEF GuestInv, StoredInv, InjectInv
<1>6. ASSUME NEW d \in Clients, Answered(d)'
      PROVE  \A k \in client'[d].keys : Stored(d, k)'
    <2>1. d = c
        BY <1>1, <1>5, <1>6 DEF Elsewhere, Answered
    <2>2. /\ client[c].attempt = inj.attempt
          /\ client'[c].pc = "replied" /\ client'[c].reply = status /\ status = 200
        BY <1>1, <1>5, <1>6, <2>1 DEF Answered
    <2>3. \A k \in client[c].keys : Stored(c, k)
        BY <1>0, <2>2 DEF GuestInv, StoredInv
    <2> QED
        BY <1>1, <2>1, <2>3, BootKept DEF Stored, HasPassphrase
<1>7. StoredInv'
    BY <1>6, NoneTyped, Bounds DEF StoredInv
<1>8. ClientInv'
    BY <1>1, BootKept DEF GuestInv, ClientInv, Elsewhere, Talks, Trusted
<1> QED
    BY <1>2, <1>3, <1>4, <1>7, <1>8, BootKept DEF GuestInv

LEMMA AgentStepHolds ==
    ASSUME GuestInv, AgentStep
    PROVE  GuestInv'
<1>1. CASE InjectFails
    BY <1>1, InjectReturnHolds DEF InjectFails
<1>2. CASE InjectEnds
    BY <1>2, InjectReturnHolds DEF InjectEnds
<1> QED
    BY <1>1, <1>2, AgentStartsHolds, ServeGetHolds, InjectRefusedHolds, InjectLockHolds,
       InjectOpenHolds, InjectWriteHolds
    DEF AgentStep

-----------------------------------------------------------------------------
(* aleph-attest-cli *)

LEMMA ClientFailsDoes ==
    ASSUME client \in [Clients -> Requests], NEW c \in Clients, ClientFails(c)
    PROVE  /\ client' \in [Clients -> Requests] /\ Elsewhere(c)
           /\ client'[c].pc = "failed" /\ client'[c].keys = {}
           /\ client'[c].attempt = client[c].attempt
<1>1. PICK a \in Nat : a = client[c].attempt
    BY RequestFields
<1> DEFINE r == [NoCommand EXCEPT !.pc = "failed", !.attempt = a]
<1>2. client' = [client EXCEPT ![c] = r]
    BY <1>1 DEF ClientFails
<1>3. r.pc = "failed" /\ r.keys = {} /\ r.attempt = a
    BY DEF NoCommand
<1>4. r \in Requests
    BY DEF Requests, NoCommand, ClientPcs, Pins, Replies
<1> HIDE DEF r
<1> QED
    BY <1>1, <1>2, <1>3, <1>4 DEF Elsewhere

LEMMA ClientBecomes ==
    ASSUME client \in [Clients -> Requests], NEW c \in Clients, NEW r \in Requests,
           client' = [client EXCEPT ![c] = r]
    PROVE  client' \in [Clients -> Requests] /\ Elsewhere(c) /\ client'[c] = r
BY DEF Elsewhere

\* A client gets on: its command becomes neither answered by this guest nor
\* trusted unless it was, or the handshake says so.
LEMMA ClientMoves ==
    ASSUME GuestInv, NEW c \in Clients,
           UNCHANGED <<call, boot>>, UNCHANGED <<agent, files, injected, inj>>,
           client' \in [Clients -> Requests], Elsewhere(c),
           client'[c].attempt = client[c].attempt, client'[c].keys \subseteq client[c].keys,
           Answered(c)' => Answered(c),
           Talks(c)' => Trusted(c)'
    PROVE  GuestInv'
<1>2. TypeInv' /\ AgentInv' /\ LuksInv'
    BY BootKept DEF GuestInv, TypeInv, AgentInv, LuksInv
<1>3. InjectInv'
    BY InjectKept DEF GuestInv
<1>4. \A d \in Clients :
         /\ client'[d].keys \subseteq client[d].keys /\ client'[d].attempt = client[d].attempt
         /\ Answered(d)' => Answered(d)
         /\ \A k : Stored(d, k)' <=> Stored(d, k)
    BY BootKept DEF Elsewhere, Answered, Stored, HasPassphrase
<1>5. StoredInv'
    BY <1>4, BootKept DEF GuestInv, StoredInv
<1>6. ClientInv'
    BY BootKept DEF GuestInv, ClientInv, Elsewhere, Talks, Trusted
<1> QED
    BY <1>2, <1>3, <1>5, <1>6, BootKept DEF GuestInv

LEMMA StartCommandHolds ==
    ASSUME GuestInv, NEW c \in Clients, StartCommand(c)
    PROVE  GuestInv'
<1>1. UNCHANGED <<call, boot>> /\ UNCHANGED <<agent, files, injected, inj>>
    BY DEF StartCommand, secrets
<1>2. client \in [Clients -> Requests] /\ client[c].attempt \in Nat
    BY RequestFields DEF GuestInv, TypeInv
<1>0. PICK a \in Nat : a = client[c].attempt + 1
    BY <1>2
<1>3. PICK m \in Commands :
         client' = [client EXCEPT ![c] =
            [pc |-> "connect", kind |-> m.kind, pinned |-> m.pinned, keys |-> m.keys,
             peer |-> "none", reply |-> 0, attempt |-> a]]
    BY <1>0, <1>2 DEF StartCommand
<1> DEFINE r == [pc |-> "connect", kind |-> m.kind, pinned |-> m.pinned, keys |-> m.keys,
                 peer |-> "none", reply |-> 0, attempt |-> a]
<1>4. r \in Requests /\ r.pc = "connect" /\ r.attempt = a
    <2>1. m.kind \in {"attest", "fresh", "inject"}
        BY GuestAssumption
    <2>2. m.pinned \in Pins /\ m.keys \in SUBSET Keys
        BY KeysKnown DEF Pins
    <2>3. "connect" \in ClientPcs /\ 0 \in Replies
        BY DEF ClientPcs, Replies
    <2> QED
        BY <2>1, <2>2, <2>3 DEF Requests
<1> HIDE DEF r
<1>5. client' = [client EXCEPT ![c] = r]
    BY <1>3 DEF r
<1>6. /\ client' \in [Clients -> Requests] /\ Elsewhere(c)
      /\ client'[c].pc = "connect" /\ client'[c].attempt = a
    BY <1>2, <1>4, <1>5 DEF Elsewhere
<1>7. TypeInv' /\ AgentInv' /\ LuksInv'
    BY <1>1, <1>6, BootKept DEF GuestInv, TypeInv, AgentInv, LuksInv
<1>8. InjectInv'
    BY <1>1, InjectKept DEF GuestInv
<1>9. StoredInv'
    <2>1. \A d \in Clients : Answered(d)' => d # c /\ Answered(d)
        BY <1>6 DEF Answered, Elsewhere
    <2>2. \A d \in Clients : d # c => /\ client'[d] = client[d]
                                      /\ \A k : Stored(d, k)' <=> Stored(d, k)
        BY <1>1, <1>6, BootKept DEF Elsewhere, Stored, HasPassphrase
    <2>3. inj.who = c => inj.attempt <= client[c].attempt
        BY DEF GuestInv, StoredInv
    <2>4. inj.attempt \in Nat
        BY HandlerFields DEF GuestInv, TypeInv
    <2>5. inj.who = c => inj.attempt <= a /\ a # inj.attempt
        BY <1>0, <1>2, <2>3, <2>4
    <2> QED
        BY <1>1, <1>6, <2>1, <2>2, <2>5, BootKept DEF GuestInv, StoredInv
<1>10. ClientInv'
    BY <1>1, <1>6, BootKept DEF GuestInv, ClientInv, Elsewhere, Talks, Trusted
<1> QED
    BY <1>1, <1>7, <1>8, <1>9, <1>10, BootKept DEF GuestInv

LEMMA ClientStepHolds ==
    ASSUME GuestInv, NEW c \in Clients,
           ClientStep(c) \/ ConnectionLost(c) \/ HandshakeElsewhere(c)
    PROVE  GuestInv'
<1>0. /\ UNCHANGED <<call, boot>> /\ UNCHANGED <<agent, files, injected, inj>>
      /\ client \in [Clients -> Requests]
    BY DEF ClientStep, Handshake, ConnectFails, Verify, VerifyFails, ConnectionLost,
           HandshakeElsewhere, secrets, GuestInv, TypeInv
<1>1. PICK q \in Requests : q = client[c]
    BY <1>0
<1>2. CASE ClientFails(c)
    <2>1. /\ client' \in [Clients -> Requests] /\ Elsewhere(c)
          /\ client'[c].pc = "failed" /\ client'[c].keys = {}
          /\ client'[c].attempt = client[c].attempt
        BY <1>0, <1>2, ClientFailsDoes
    <2>2. ~Answered(c)' /\ ~Talks(c)'
        BY <2>1 DEF Answered, Talks
    <2> QED
        BY <1>0, <2>1, <2>2, ClientMoves
<1>3. CASE ClientSucceeds(c) /\ Verify(c)
    <2>1. /\ q.pc = "replied" /\ (q.kind = "attest" \/ q.reply = 200)
          /\ client' = [client EXCEPT ![c] = [q EXCEPT !.pc = "ok", !.peer = q.peer]]
        <3>1. q.pc = "replied"
            BY <1>1, <1>3 DEF Verify
        <3>2. client' = [client EXCEPT ![c] = [q EXCEPT !.pc = "ok"]]
            BY <1>1, <1>3 DEF ClientSucceeds
        <3>3. [q EXCEPT !.pc = "ok"] = [q EXCEPT !.pc = "ok", !.peer = q.peer]
            BY <1>1 DEF Requests
        <3>4. q.kind = "attest" \/ q.reply = 200
            <4>1. SUFFICES ASSUME ClientFails(c) PROVE FALSE
                BY <1>1, <1>3 DEF Verify
            <4>2. client'[c].pc = "failed"
                BY <1>0, <4>1, ClientFailsDoes
            <4>3. [q EXCEPT !.pc = "ok"].pc = "ok"
                BY <1>1 DEF Requests
            <4> QED
                BY <1>0, <3>2, <4>2, <4>3
        <3> QED
            BY <3>1, <3>2, <3>3, <3>4
    <2>2. /\ client' \in [Clients -> Requests] /\ Elsewhere(c)
          /\ client'[c].pc = "ok" /\ client'[c].peer = q.peer
          /\ client'[c].kind = q.kind /\ client'[c].keys = q.keys
          /\ client'[c].attempt = q.attempt /\ client'[c].pinned = q.pinned
        <3>1. "ok" \in ClientPcs /\ q.peer \in {"none", "guest", "other"}
            BY <1>1, RequestFields DEF ClientPcs
        <3> DEFINE r == [q EXCEPT !.pc = "ok", !.peer = q.peer]
        <3>2. /\ r \in Requests /\ r.pc = "ok" /\ r.peer = q.peer /\ r.kind = q.kind
              /\ r.keys = q.keys /\ r.attempt = q.attempt /\ r.pinned = q.pinned
            BY <3>1 DEF Requests
        <3>3. client' = [client EXCEPT ![c] = r]
            BY <2>1
        <3> HIDE DEF r
        <3> QED
            BY <1>0, <3>2, <3>3, ClientBecomes
    <2>3. Answered(c)' => Answered(c)
        BY <1>1, <2>1, <2>2 DEF Answered
    <2>4. Talks(c)' => Trusted(c)'
        BY <1>0, <1>1, <2>1, <2>2, BootKept DEF Talks, Trusted, GuestInv, ClientInv
    <2> QED
        BY <1>0, <1>1, <2>2, <2>3, <2>4, ClientMoves
<1>4. ASSUME NEW peer \in {"guest", "other"}, Connected(c, peer), peer = "guest" => Handshake(c)
      PROVE  GuestInv'
    <2>1. /\ client' \in [Clients -> Requests] /\ Elsewhere(c)
          /\ client'[c].pc = "sent" /\ client'[c].peer = peer
          /\ client'[c].keys = q.keys
          /\ client'[c].attempt = q.attempt /\ client'[c].pinned = q.pinned
        <3>1. client' = [client EXCEPT ![c] = [q EXCEPT !.pc = "sent", !.peer = peer]]
            BY <1>1, <1>4 DEF Connected
        <3> DEFINE r == [q EXCEPT !.pc = "sent", !.peer = peer]
        <3>2. "sent" \in ClientPcs /\ peer \in {"none", "guest", "other"}
            BY DEF ClientPcs
        <3>3. /\ r \in Requests /\ r.pc = "sent" /\ r.peer = peer
              /\ r.keys = q.keys /\ r.attempt = q.attempt /\ r.pinned = q.pinned
            BY <3>2 DEF Requests
        <3>4. client' = [client EXCEPT ![c] = r]
            BY <3>1
        <3> HIDE DEF r
        <3> QED
            BY <1>0, <3>3, <3>4, ClientBecomes
    <2>2. ~Answered(c)'
        BY <2>1 DEF Answered
    <2>3. Talks(c)' => Trusted(c)'
        <3> SUFFICES ASSUME Talks(c)' PROVE Trusted(c)'
            OBVIOUS
        <3>1. agent = "up" /\ verify_server_cert(AgentCertificate, client[c].pinned)
            BY <1>4, <2>1 DEF Talks, Handshake
        <3>2. client[c].pinned => MeasurementOf[call] = Pin
            BY <3>1 DEF verify_server_cert, AgentCertificate
        <3>3. pc # "none" /\ qemu.tee.snp /\ (LuksMode \/ pc = "wait")
            BY <3>1 DEF GuestInv, AgentInv
        <3> QED
            BY <1>0, <1>1, <2>1, <3>2, <3>3, BootKept DEF Trusted
    <2> QED
        BY <1>0, <1>1, <2>1, <2>2, <2>3, ClientMoves
<1>5. CASE Handshake(c)
    BY <1>4, <1>5 DEF Handshake
<1>6. CASE HandshakeElsewhere(c)
    BY <1>4, <1>6 DEF HandshakeElsewhere
<1>7. CASE ConnectFails(c) \/ ConnectionLost(c) \/ VerifyFails(c)
    BY <1>2, <1>7 DEF ConnectFails, ConnectionLost, VerifyFails
<1>8. CASE Verify(c)
    BY <1>2, <1>3, <1>8 DEF Verify
<1> QED
    BY <1>5, <1>6, <1>7, <1>8 DEF ClientStep

-----------------------------------------------------------------------------
(* Every step, every behaviour *)

LEMMA GuestStays ==
    ASSUME GuestInv, UNCHANGED vars
    PROVE  GuestInv'
<1>1. UNCHANGED <<call, boot>> /\ UNCHANGED <<agent, files, injected, inj, client>>
    BY DEF vars, secrets
<1>2. TypeInv' /\ AgentInv' /\ LuksInv'
    BY <1>1, BootKept DEF GuestInv, TypeInv, AgentInv, LuksInv
<1>3. InjectInv'
    BY <1>1, InjectKept DEF GuestInv
<1>4. StoredInv'
    <2>1. \A d \in Clients : /\ Answered(d)' <=> Answered(d)
                             /\ \A k : Stored(d, k)' <=> Stored(d, k)
        BY <1>1, BootKept DEF Answered, Stored, HasPassphrase
    <2> QED
        BY <1>1, <2>1, BootKept DEF GuestInv, StoredInv
<1>5. ClientInv'
    BY <1>1, BootKept DEF GuestInv, ClientInv, Talks, Trusted
<1> QED
    BY <1>1, <1>2, <1>3, <1>4, <1>5, BootKept DEF GuestInv

LEMMA GuestStep == GuestInv /\ [Next]_vars => GuestInv'
<1> SUFFICES ASSUME GuestInv, [Next]_vars PROVE GuestInv'
    OBVIOUS
<1>1. CASE \E n \in Calls : CreateVm(n)
    BY <1>1, CreateVmHolds
<1>2. CASE Probe
    BY <1>2, ProbeHolds
<1>3. CASE InitStep
    BY <1>3, InitStepHolds
<1>4. CASE AgentStep
    BY <1>4, AgentStepHolds
<1>5. CASE Dhcp
    BY <1>5, DhcpHolds
<1>6. ASSUME NEW c \in Clients,
             \/ StartCommand(c) \/ ClientStep(c) \/ ServeProxied(c)
             \/ HandshakeElsewhere(c) \/ ConnectionLost(c) \/ OtherAnswers(c)
      PROVE  GuestInv'
    BY <1>6, StartCommandHolds, ClientStepHolds, ServeGetHolds
<1>7. CASE UNCHANGED vars
    BY <1>7, GuestStays
<1> QED
    BY <1>1, <1>2, <1>3, <1>4, <1>5, <1>6, <1>7 DEF Next

LEMMA GuestAlways == Spec => []GuestInv
<1>1. Spec => Init /\ [][Next]_vars
    BY PTL DEF Spec
<1> QED
    BY <1>1, GuestInit, GuestStep, PTL

-----------------------------------------------------------------------------
(* Theorems *)

LEMMA ConfidentialMounts ==
    ASSUME GuestInv, qemu.tee.snp, pc = "wait"
    PROVE  LET c == ConfigOf[call]
               hashed(i) == c.disks[i].path \notin Emptied
           IN /\ LuksMode => /\ root = [path |-> c.disks[1].path, via |-> "luks"]
                             /\ workload = NoMount
              /\ ~LuksMode => /\ UsesVerity(c)
                              /\ hashed(1) => root = [path |-> c.disks[1].path, via |-> "verity"]
                              /\ workload = IF Len(c.disks) > 1 /\ hashed(2)
                                            THEN [path |-> c.disks[2].path, via |-> "verity"]
                                            ELSE NoMount
<1>1. /\ call \in AcceptedCalls /\ seen \in 0..Len(qemu.drives) /\ seen >= 1
      /\ RootReady /\ WorkloadReady
    BY DEF GuestInv, TypeInv, ModeInv, MountInv
<1>2. PICK n \in AcceptedCalls : n = call
    BY <1>1
<1> DEFINE c == ConfigOf[n]
<1>3. Len(c.disks) \in Nat
    BY ConfigDisks
<1>4. Len(qemu.drives) \in Nat /\ Len(qemu.drives) >= 1
    BY <1>1, <1>2, DrivesCounted DEF qemu
<1>5. CASE LuksMode
    <2>1. qemu.drives = c.disks
        BY <1>2, <1>5, CommandFacts DEF LuksMode, qemu
    <2> QED
        BY <1>1, <1>2, <1>5, <2>1 DEF RootReady, WorkloadReady
<1>6. CASE ~LuksMode
    <2>1. UsesVerity(c)
        BY <1>2, <1>4, <1>6, CommandFacts DEF LuksMode, qemu
    <2>2. /\ qemu.drives = DiskLayout(c)
          /\ qemu.cmdline.roothash = ensure_verity(c.disks[1].path, Emptied)
          /\ qemu.cmdline.workload = IF Len(c.disks) > 1
                                     THEN ensure_verity(c.disks[2].path, Emptied) ELSE NoHash
        BY <1>2, <2>1, CommandFacts DEF qemu
    <2>3. /\ Len(c.disks) >= 1 /\ qemu.drives[1] = c.disks[1]
          /\ Len(c.disks) > 1 => qemu.drives[3] = c.disks[2]
        BY <2>1, <2>2, LayoutOf
    <2>4. /\ Given(qemu.cmdline.roothash) <=> c.disks[1].path \notin Emptied
          /\ Given(qemu.cmdline.workload) <=> Len(c.disks) > 1 /\ c.disks[2].path \notin Emptied
        <3>1. \A i \in 1..Len(c.disks) :
                 Given(ensure_verity(c.disks[i].path, Emptied)) <=> c.disks[i].path \notin Emptied
            BY HashesGiven
        <3> HIDE DEF c
        <3> QED
            BY <1>3, <2>2, <2>3, <3>1, NoneGiven
    <2> HIDE DEF c
    <2>5. c.disks[1].path \notin Emptied => root = [path |-> c.disks[1].path, via |-> "verity"]
        BY <1>1, <1>6, <2>3, <2>4 DEF RootReady
    <2>6. workload = IF Len(c.disks) > 1 /\ c.disks[2].path \notin Emptied
                     THEN [path |-> c.disks[2].path, via |-> "verity"] ELSE NoMount
        BY <1>1, <1>6, <2>3, <2>4 DEF WorkloadReady
    <2> QED
        BY <1>2, <1>6, <2>1, <2>5, <2>6 DEF c
<1> QED
    BY <1>5, <1>6

\* A guest with the pinned measurement: its command line is the one that was
\* pinned, so that the disks are the same and no hash on it is empty.
LEMMA PinnedDisks ==
    ASSUME NEW m \in AcceptedCalls, MeasurementOf[m] = Pin,
           UsesVerity(ConfigOf[m]), ~ConfigOf[Wanted].encrypted
    PROVE  LET c == ConfigOf[m]
               d == ConfigOf[Wanted]
           IN /\ c.disks[1].path = d.disks[1].path /\ c.disks[1].path \notin Emptied
              /\ Len(c.disks) > 1 <=> Len(d.disks) > 1
              /\ Len(c.disks) > 1 => c.disks[2].path = d.disks[2].path /\ c.disks[2].path \notin Emptied
<1> DEFINE c == ConfigOf[m]
           d == ConfigOf[Wanted]
           h == CommandOf[m].cmdline
<1>0. Wanted \in AcceptedCalls
    BY CallsAssumption
<1>1. build_qemu_command(d, {}).cmdline = h
    BY DEF MeasurementOf, Measurement, Pin
<1>2. /\ h.roothash = ensure_verity(c.disks[1].path, Emptied)
      /\ h.workload = IF Len(c.disks) > 1 THEN ensure_verity(c.disks[2].path, Emptied) ELSE NoHash
    BY CommandFacts
<1>3. Len(c.disks) \in Nat /\ Len(d.disks) \in Nat /\ Len(c.disks) >= 1
    BY <1>0, ConfigDisks, LayoutOf
<1>4. \A i \in 1..Len(c.disks) :
         /\ ensure_verity(c.disks[i].path, Emptied) # NoHash
         /\ ensure_verity(c.disks[i].path, Emptied) =
               HashOf(IF c.disks[i].path \in Emptied THEN NoPath ELSE c.disks[i].path)
    BY HashesGiven
<1>5. \A i \in 1..Len(d.disks) :
         /\ ensure_verity(d.disks[i].path, {}) = HashOf(d.disks[i].path)
         /\ HashOf(d.disks[i].path) # NoHash /\ d.disks[i].path # NoPath
    <2> TAKE i \in 1..Len(d.disks)
    <2>1. d.disks[i].path \notin {}
        OBVIOUS
    <2> QED
        BY <1>0, <2>1, HashesGiven
<1>6. ~UsesVerity(d) => h.roothash = NoHash
    BY <1>0, <1>1, BuildFacts
<1>7. UsesVerity(d) =>
         /\ h.roothash = ensure_verity(d.disks[1].path, {})
         /\ h.workload = IF Len(d.disks) > 1 THEN ensure_verity(d.disks[2].path, {}) ELSE NoHash
         /\ Len(d.disks) >= 1
    <2>1. UsesVerity(d) => Len(d.disks) >= 1
        BY <1>0, LayoutOf
    <2>2. UsesVerity(d) =>
             /\ h.roothash = ensure_verity(d.disks[1].path, {})
             /\ h.workload = IF Len(d.disks) > 1 THEN ensure_verity(d.disks[2].path, {}) ELSE NoHash
        <3> DEFINE f == build_qemu_command(d, {}).cmdline
        <3>1. UsesVerity(d) =>
                 /\ ~f.luks
                 /\ ~f.luks => f.roothash = ensure_verity(d.disks[1].path, {})
                 /\ f.workload = IF Len(d.disks) > 1 THEN ensure_verity(d.disks[2].path, {}) ELSE NoHash
            BY <1>0, BuildFacts
        <3> QED
            BY <1>1, <3>1
    <2> QED
        BY <2>1, <2>2
<1>8. \A p, q : HashOf(p) = HashOf(q) => p = q
    BY DEF HashOf
<1> HIDE DEF c, d, h
<1>9. UsesVerity(d)
    BY <1>2, <1>3, <1>4, <1>6
<1>10. c.disks[1].path = d.disks[1].path /\ c.disks[1].path \notin Emptied
    BY <1>2, <1>3, <1>4, <1>5, <1>7, <1>8, <1>9
<1>11. Len(c.disks) > 1 <=> Len(d.disks) > 1
    BY <1>2, <1>3, <1>4, <1>5, <1>7, <1>9
<1>12. Len(c.disks) > 1 => c.disks[2].path = d.disks[2].path /\ c.disks[2].path \notin Emptied
    BY <1>2, <1>3, <1>4, <1>5, <1>7, <1>8, <1>9, <1>11
<1> QED
    BY <1>10, <1>11, <1>12 DEF c, d

\* Every variable keeps its type along any boot and any traffic of clients.
THEOREM GuestTypeCorrect == Spec => []GuestTypeOK
<1>1. GuestInv => GuestTypeOK
    <2> SUFFICES ASSUME GuestInv PROVE GuestTypeOK
        OBVIOUS
    <2>1. inj.left \subseteq Keys
        BY HandlerFields DEF GuestInv, TypeInv
    <2>2. \A c \in Clients : client[c].pc \in {"idle", "connect", "sent", "replied", "ok", "failed"}
        BY RequestFields DEF GuestInv, TypeInv, ClientPcs
    <2> QED
        BY <2>1, <2>2 DEF GuestInv, TypeInv, GuestTypeOK, FileRecs
<1> QED
    BY <1>1, GuestAlways, PTL

\* No drive of an accepted request, nor a hash tree that create_vm adds to
\* them, is one that build_qemu_command would panic over.
THEOREM NoPanicAfterChecks == Spec => []AcceptedNeverPanics
<1>1. GuestInv => AcceptedNeverPanics
    <2> SUFFICES ASSUME GuestInv PROVE ~QemuCommandPanics(qemu.drives)
        BY DEF AcceptedNeverPanics
    <2>1. PICK n \in AcceptedCalls : n = call
        BY DEF GuestInv, TypeInv
    <2>2. \A i \in 1..Len(DiskLayout(ConfigOf[n])) : GoodDrive(DiskLayout(ConfigOf[n])[i])
        BY LayoutOf
    <2>3. qemu.drives = DiskLayout(ConfigOf[n])
        BY <2>1, CommandFacts DEF qemu
    <2> QED
        BY <2>2, <2>3 DEF QemuCommandPanics, GoodDrive
<1> QED
    BY <1>1, GuestAlways, PTL

\* For any list of disks, the devices that init.sh hands to veritysetup are a
\* disk, its own hash tree, and the hash that create_vm put on the command line.
THEOREM LayoutFitsInit == Spec => []LayoutMatchesInit
<1>1. GuestInv => LayoutMatchesInit
    BY VerityFits DEF GuestInv, TypeInv, ModeInv, LayoutMatchesInit
<1> QED
    BY <1>1, GuestAlways, PTL

\* However drives are probed, mounts fail and waits time out, init.sh of a
\* confidential guest only gets to the end with its root and workload verified
\* or decrypted, unless create_vm was given an empty root hash for them.
THEOREM NoUnverifiedRoot == Spec => []ConfidentialRootVerified
<1>1. GuestInv => ConfidentialRootVerified
    <2> SUFFICES ASSUME GuestInv, qemu.tee.snp, pc = "wait"
                 PROVE  LET c == ConfigOf[call]
                            hashed(i) == c.disks[i].path \notin Emptied
                        IN /\ c.encrypted \/ hashed(1) =>
                                 root = [path |-> c.disks[1].path,
                                         via |-> IF c.encrypted THEN "luks" ELSE "verity"]
                           /\ workload = IF Len(c.disks) > 1 /\ ~c.encrypted /\ hashed(2)
                                         THEN [path |-> c.disks[2].path, via |-> "verity"]
                                         ELSE NoMount
        BY DEF ConfidentialRootVerified
    <2>1. PICK n \in AcceptedCalls : n = call
        BY DEF GuestInv, TypeInv
    <2>2. LuksMode <=> ConfigOf[call].encrypted
        BY <2>1, CommandFacts DEF LuksMode, qemu
    <2>3. CASE LuksMode
        BY <2>2, <2>3, ConfidentialMounts
    <2>4. CASE ~LuksMode
        BY <2>2, <2>4, ConfidentialMounts
    <2> QED
        BY <2>3, <2>4
<1> QED
    BY <1>1, GuestAlways, PTL

\* The measurement that verify_server_cert compares covers the kernel command
\* line, which carries the root hashes: a client that it lets through to this
\* guest's agent, whose certificate says what its report says, talks to a
\* guest that runs the disks the measurement was computed for, verified.
THEOREM AttestationMeansDisks == Spec => []AttestedMeansExpected
<1>1. GuestInv => AttestedMeansExpected
    <2> SUFFICES ASSUME GuestInv, NEW c \in Clients, Succeeded(c), client[c].pinned,
                        ~ConfigOf[Wanted].encrypted, pc # "off"
                 PROVE  /\ root = [path |-> ConfigOf[Wanted].disks[1].path, via |-> "verity"]
                        /\ workload.path = IF Len(ConfigOf[Wanted].disks) > 1
                                           THEN ConfigOf[Wanted].disks[2].path ELSE NoPath
        BY DEF AttestedMeansExpected
    <2>1. PICK n \in AcceptedCalls : n = call
        BY DEF GuestInv, TypeInv
    <2>2. qemu.tee.snp /\ (LuksMode \/ pc = "wait") /\ MeasurementOf[n] = Pin
        BY <2>1 DEF GuestInv, ClientInv, Talks, Trusted, Succeeded
    <2>3. Wanted \in AcceptedCalls
        BY CallsAssumption
    <2>4. ~LuksMode
        <3>1. CommandOf[n].cmdline = build_qemu_command(ConfigOf[Wanted], {}).cmdline
            BY <2>2 DEF MeasurementOf, Measurement, Pin
        <3>2. ~build_qemu_command(ConfigOf[Wanted], {}).cmdline.luks
            BY <2>3, BuildFacts
        <3> QED
            BY <2>1, <3>1, <3>2 DEF LuksMode, qemu
    <2>5. /\ UsesVerity(ConfigOf[n])
          /\ ConfigOf[n].disks[1].path \notin Emptied =>
                root = [path |-> ConfigOf[n].disks[1].path, via |-> "verity"]
          /\ workload = IF Len(ConfigOf[n].disks) > 1 /\ ConfigOf[n].disks[2].path \notin Emptied
                        THEN [path |-> ConfigOf[n].disks[2].path, via |-> "verity"] ELSE NoMount
        BY <2>1, <2>2, <2>4, ConfidentialMounts
    <2>6. /\ ConfigOf[n].disks[1].path = ConfigOf[Wanted].disks[1].path
          /\ ConfigOf[n].disks[1].path \notin Emptied
          /\ Len(ConfigOf[n].disks) > 1 <=> Len(ConfigOf[Wanted].disks) > 1
          /\ Len(ConfigOf[n].disks) > 1 => /\ ConfigOf[n].disks[2].path = ConfigOf[Wanted].disks[2].path
                                           /\ ConfigOf[n].disks[2].path \notin Emptied
        BY <2>2, <2>5, PinnedDisks
    <2> QED
        BY <2>5, <2>6 DEF NoMount
<1> QED
    BY <1>1, GuestAlways, PTL

\* init.sh removes the passphrase after it used it, and no handler of the
\* agent, which serves /confidential/inject-secret all along, creates it again.
THEOREM PassphraseStaysGone == Spec => []PassphraseGone
<1>1. GuestInv => PassphraseGone
    BY DEF GuestInv, LuksInv, LuksMode, PassphraseGone, HasPassphrase
<1> QED
    BY <1>1, GuestAlways, PTL

\* INJECTION_LOCK lets one request through, whatever fails while it is held.
THEOREM OneInjection == Spec => []SecretsFromOneRequest
<1>1. GuestInv => SecretsFromOneRequest
    BY DEF GuestInv, InjectInv
<1> QED
    BY <1>1, GuestAlways, PTL

\* A client whose injection was answered with 200 finds all its secrets in
\* /tmp/secrets, or its passphrase used.
THEOREM InjectionStores == Spec => []InjectedMeansStored
<1>1. GuestInv => InjectedMeansStored
    BY DEF GuestInv, StoredInv, Answered, Stored, LuksMode, InjectedMeansStored, Succeeded
<1> QED
    BY <1>1, GuestAlways, PTL
=============================================================================
