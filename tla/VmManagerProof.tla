---------------------------- MODULE VmManagerProof ----------------------------
(***************************************************************************)
(* Theorems about the VM life cycle of VmManager, for every set of VMs, of  *)
(* concurrent create_vm calls and of IPv4 and IPv6 addresses, and for any   *)
(* number of restarts.                                                      *)
(***************************************************************************)
EXTENDS VmManager, TLAPS

USE DEF boot, memory, disk, host

-----------------------------------------------------------------------------
(* Types *)

CreateRequests ==
    [pc : CreatePcs \cup {"idle"}, vm : Vms \cup {NoVm}, off : Nat, v6 : Addrs]

RequestsOK ==
    /\ req \in [Slots -> CreateRequests]
    /\ \A s \in Slots : req[s].pc # "idle" => req[s].vm \in Vms

\* A create_vm call that moves to its next step stays well typed.
LEMMA GotoOK ==
    ASSUME RequestsOK, NEW s \in Slots, req[s].pc # "idle",
           NEW pc \in CreatePcs, Goto(s, pc)
    PROVE  RequestsOK'
BY DEF RequestsOK, Goto, CreateRequests

\* A create_vm call that returns stays well typed.
LEMMA ReturnOK ==
    ASSUME RequestsOK, NEW s \in Slots, Return(s)
    PROVE  RequestsOK'
BY DEF RequestsOK, Return, CreateRequests, NoRequest, Addrs

\* Every step of create_vm preserves the types.
LEMMA CreateStepType ==
    ASSUME TypeOK, NEW s \in Slots, CreateStep(s)
    PROVE  TypeOK'
<1>0. RequestsOK
  BY DEF TypeOK, RequestsOK, CreateRequests
<1>1. CASE TakeOffset(s)
  <2>1. PICK o \in Offsets :
           /\ used' = used \cup {o}
           /\ req' = [req EXCEPT ![s] = [@ EXCEPT !.pc = "ipv6", !.off = o]]
    BY <1>1 DEF TakeOffset
  <2>0. o \in Nat
    BY ConstantsAssumption DEF Offsets
  <2>2. RequestsOK'
    BY <1>0, <1>1, <2>0, <2>1 DEF RequestsOK, CreateRequests, CreatePcs, TakeOffset, At
  <2>3. used' \subseteq Nat
    BY <2>0, <2>1 DEF TypeOK
  <2> QED BY <1>1, <2>2, <2>3 DEF TakeOffset, TypeOK, RequestsOK, CreateRequests
<1>2. CASE AllocateIpv6(s)
  <2>1. PICK a \in Pool :
           /\ ipv6' = [ipv6 EXCEPT ![req[s].vm] = a]
           /\ req' = [req EXCEPT ![s] = [@ EXCEPT !.pc = "dhcp", !.v6 = a]]
    BY <1>2 DEF AllocateIpv6
  <2>2. RequestsOK'
    BY <1>0, <1>2, <2>1 DEF RequestsOK, CreateRequests, CreatePcs, Addrs, AllocateIpv6, At
  <2>3. ipv6' \in [Vms -> Addrs]
    BY <2>1 DEF TypeOK, Addrs
  <2> QED BY <1>2, <2>2, <2>3 DEF AllocateIpv6, TypeOK, RequestsOK, CreateRequests
<1>3. CASE OffsetsExhausted(s)
  <2>1. RequestsOK'
    BY <1>0, <1>3, ReturnOK DEF OffsetsExhausted, CreatePcs, At
  <2> QED BY <1>3, <2>1 DEF OffsetsExhausted, TypeOK, RequestsOK, CreateRequests, At
<1>4. CASE AllocateIpv6Fails(s)
  <2>1. RequestsOK'
    BY <1>0, <1>4, ReturnOK DEF AllocateIpv6Fails, CreatePcs, At
  <2> QED BY <1>4, <2>1 DEF AllocateIpv6Fails, TypeOK, RequestsOK, CreateRequests, At
<1>5. CASE WriteDhcpFails(s)
  <2>1. RequestsOK'
    BY <1>0, <1>5, ReturnOK DEF WriteDhcpFails, CreatePcs, At
  <2> QED BY <1>5, <2>1 DEF WriteDhcpFails, TypeOK, RequestsOK, CreateRequests, At
<1>6. CASE PrepareFails(s)
  <2>1. RequestsOK'
    BY <1>0, <1>6, ReturnOK DEF PrepareFails, CreatePcs, At
  <2> QED BY <1>6, <2>1 DEF PrepareFails, TypeOK, RequestsOK, CreateRequests, At
<1>7. CASE WriteDhcp6Fails(s)
  <2>1. RequestsOK'
    BY <1>0, <1>7, GotoOK DEF WriteDhcp6Fails, CreatePcs, At
  <2> QED BY <1>7, <2>1 DEF WriteDhcp6Fails, TypeOK, RequestsOK, CreateRequests, At
<1>8. CASE WriteDhcp(s)
  <2>1. RequestsOK'
    BY <1>0, <1>8, GotoOK DEF WriteDhcp, CreatePcs, At
  <2> QED BY <1>8, <2>1 DEF WriteDhcp, TypeOK, RequestsOK, CreateRequests, At
<1>9. CASE WriteDhcp6(s)
  <2>1. RequestsOK'
    BY <1>0, <1>9, GotoOK DEF WriteDhcp6, CreatePcs, At
  <2> QED BY <1>9, <2>1 DEF WriteDhcp6, TypeOK, RequestsOK, CreateRequests, At
<1>10. CASE CreateTap(s)
  <2>1. RequestsOK'
    BY <1>0, <1>10, GotoOK DEF CreateTap, CreatePcs, At
  <2> QED BY <1>10, <2>1 DEF CreateTap, TypeOK, RequestsOK, CreateRequests, At
<1>11. CASE CreateTapFails(s)
  <2>1. RequestsOK'
    BY <1>0, <1>11, GotoOK DEF CreateTapFails, CreatePcs, At
  <2> QED BY <1>11, <2>1 DEF CreateTapFails, TypeOK, RequestsOK, CreateRequests, At
<1>12. CASE SetupNft(s)
  <2>1. RequestsOK'
    BY <1>0, <1>12, GotoOK DEF SetupNft, CreatePcs, At
  <2> QED BY <1>12, <2>1 DEF SetupNft, TypeOK, RequestsOK, CreateRequests, At
<1>13. CASE SetupNftFails(s)
  <2>1. RequestsOK'
    BY <1>0, <1>13, GotoOK DEF SetupNftFails, CreatePcs, At
  <2> QED BY <1>13, <2>1 DEF SetupNftFails, TypeOK, RequestsOK, CreateRequests, At
<1>14. CASE AddNdpRange(s)
  <2>1. RequestsOK'
    BY <1>0, <1>14, GotoOK DEF AddNdpRange, CreatePcs, At
  <2> QED BY <1>14, <2>1 DEF AddNdpRange, TypeOK, RequestsOK, CreateRequests, At
<1>15. CASE Prepare(s)
  <2>1. RequestsOK'
    BY <1>0, <1>15, GotoOK DEF Prepare, CreatePcs, At
  <2> QED BY <1>15, <2>1 DEF Prepare, TypeOK, RequestsOK, CreateRequests, At
<1>16. CASE Spawn(s)
  <2>1. RequestsOK'
    BY <1>0, <1>16, GotoOK DEF Spawn, CreatePcs, At
  <2> QED BY <1>16, <2>1 DEF Spawn, TypeOK, RequestsOK, CreateRequests, At
<1>17. CASE SpawnFails(s)
  <2>1. RequestsOK'
    BY <1>0, <1>17, GotoOK DEF SpawnFails, CreatePcs, At
  <2> QED BY <1>17, <2>1 DEF SpawnFails, TypeOK, RequestsOK, CreateRequests, At
<1>18. CASE UndoNdp(s)
  <2>1. RequestsOK'
    BY <1>0, <1>18, GotoOK DEF UndoNdp, CreatePcs, At
  <2> QED BY <1>18, <2>1 DEF UndoNdp, TypeOK, RequestsOK, CreateRequests, At, Addrs
<1>19. CASE AddIpv6ToTap(s)
  <2>1. RequestsOK'
    BY <1>0, <1>19, GotoOK DEF AddIpv6ToTap, CreatePcs, At
  <2> QED BY <1>19, <2>1 DEF AddIpv6ToTap, TypeOK, RequestsOK, CreateRequests, At
<1>20. CASE UndoNft(s)
  <2>1. RequestsOK'
    BY <1>0, <1>20, GotoOK DEF UndoNft, CreatePcs, At
  <2> QED BY <1>20, <2>1 DEF UndoNft, TypeOK, RequestsOK, CreateRequests, At, Torn
<1>21. CASE UndoTap(s)
  <2>1. RequestsOK'
    BY <1>0, <1>21, GotoOK DEF UndoTap, CreatePcs, At
  <2> QED BY <1>21, <2>1 DEF UndoTap, TypeOK, RequestsOK, CreateRequests, At, Torn
<1>22. CASE UndoReservations(s)
  <2>1. RequestsOK'
    BY <1>0, <1>22, ReturnOK DEF UndoReservations, CreatePcs, At
  <2> QED BY <1>22, <2>1 DEF UndoReservations, TypeOK, RequestsOK, CreateRequests, At, Addrs
<1>23. CASE Save(s)
  <2>1. RequestsOK'
    BY <1>0, <1>23, GotoOK DEF Save, CreatePcs, At
  <2>2. [off |-> req[s].off, v6 |-> req[s].v6] \in Files
    BY DEF TypeOK, Files
  <2>3. files' \in [Vms -> Files]
    BY <1>23, <2>2 DEF Save, TypeOK
  <2> QED BY <1>23, <2>1, <2>3 DEF Save, TypeOK, RequestsOK, CreateRequests
<1>24. CASE Insert(s)
  <2>1. RequestsOK'
    BY <1>0, <1>24, ReturnOK DEF Insert, CreatePcs, At
  <2> QED BY <1>24, <2>1 DEF Insert, TypeOK, RequestsOK, CreateRequests, At, Handles
<1>25. CASE ReleaseIpv6(s)
  <2>1. RequestsOK'
    BY <1>0, <1>25, ReturnOK DEF ReleaseIpv6, CreatePcs, At
  <2> QED BY <1>25, <2>1 DEF ReleaseIpv6, TypeOK, RequestsOK, CreateRequests, At, Addrs
<1> QED
  BY <1>1, <1>2, <1>3, <1>4, <1>5, <1>6, <1>7, <1>8, <1>9, <1>10, <1>11, <1>12, <1>13, <1>14, <1>15, <1>16, <1>17, <1>18, <1>19, <1>20, <1>21, <1>22, <1>23, <1>24, <1>25 DEF CreateStep

\* Every step of the specification preserves the types.
LEMMA NextType == TypeOK /\ [Next]_vars => TypeOK'
<1> SUFFICES ASSUME TypeOK, [Next]_vars PROVE TypeOK'
  OBVIOUS
<1>0. RequestsOK
  BY DEF TypeOK, RequestsOK, CreateRequests
<1>1. ASSUME NEW s \in Slots, NEW v \in Vms, CheckDuplicate(s, v) PROVE TypeOK'
  BY <1>1 DEF CheckDuplicate, TypeOK, CreatePcs, NoRequest, Addrs
<1>2. ASSUME NEW s \in Slots, CreateStep(s) PROVE TypeOK'
  BY <1>2, CreateStepType
<1>3. ASSUME NEW s \in Slots, CancelCreate(s) PROVE TypeOK'
  <2>1. RequestsOK'
    BY <1>0, <1>3, ReturnOK DEF CancelCreate
  <2> QED BY <1>3, <2>1 DEF CancelCreate, TypeOK, RequestsOK, CreateRequests
<1>4. ASSUME NEW v \in Vms, BeginDelete(v) PROVE TypeOK'
  BY <1>4 DEF BeginDelete, TypeOK, DeletePcs, NoHandle, Handles, Addrs
<1>5. CASE DeleteStep
  <2>1. CASE DeleteStop
    BY <2>1 DEF DeleteStop, DeleteAt, DeleteGoto, DeletePcs, TypeOK
  <2>2. CASE DeleteNdp
    BY <2>2 DEF DeleteNdp, DeleteAt, DeleteGoto, DeletePcs, TypeOK, Addrs
  <2>3. CASE DeleteIpv6
    BY <2>3 DEF DeleteIpv6, DeleteAt, DeleteGoto, DeletePcs, TypeOK, Addrs
  <2>4. CASE DeleteNft
    BY <2>4 DEF DeleteNft, DeleteAt, DeleteGoto, DeletePcs, TypeOK, Torn
  <2>5. CASE DeleteTap
    BY <2>5 DEF DeleteTap, DeleteAt, DeleteGoto, DeletePcs, TypeOK, Torn
  <2>6. CASE DeleteDhcp
    BY <2>6 DEF DeleteDhcp, DeleteAt, DeleteGoto, DeletePcs, TypeOK, Addrs
  <2>7. CASE DeleteOffset
    BY <2>7 DEF DeleteOffset, DeleteAt, DeleteGoto, DeletePcs, TypeOK
  <2>8. CASE DeleteFile
    <3>1. files' \in [Vms -> Files]
      BY <2>8 DEF DeleteFile, NoFile, Files, Addrs, TypeOK
    <3>2. del' \in [pc : DeletePcs \cup {"idle"}, vm : Vms \cup {NoVm}, h : Handles]
      BY <2>8 DEF DeleteFile, NoDelete, NoHandle, Handles, Addrs
    <3> QED BY <2>8, <3>1, <3>2 DEF DeleteFile, NoDelete, TypeOK
  <2> QED
    BY <1>5, <2>1, <2>2, <2>3, <2>4, <2>5, <2>6, <2>7, <2>8 DEF DeleteStep
<1>6. CASE CancelDelete
  BY <1>6 DEF CancelDelete, NoDelete, NoHandle, Handles, Addrs, TypeOK
<1>7. ASSUME ForgetMemory,
             taps' \subseteq Vms, nft' \subseteq Vms,
             unit' \in [Vms -> {"inactive", "active", "restarting"}], UNCHANGED disk
      PROVE  TypeOK'
  <2>1. crashes' \in 0..MaxCrashes
    BY <1>7, ConstantsAssumption DEF ForgetMemory, TypeOK
  <2>2. RequestsOK'
    BY <1>7 DEF ForgetMemory, RequestsOK, CreateRequests, NoRequest, Addrs
  <2> QED
    BY <1>7, <2>1, <2>2
    DEF ForgetMemory, NoDelete, NoHandle, Handles, Addrs, TypeOK, RequestsOK, CreateRequests
<1>8. CASE Crash
  BY <1>7, <1>8 DEF Crash, TypeOK
<1>9. CASE Reboot
  BY <1>7, <1>9 DEF Reboot
<1>10. ASSUME NEW v \in Vms, Recover(v) PROVE TypeOK'
  <2>1. files[v].off \in Nat /\ files[v].v6 \in Addrs
    BY DEF TypeOK, Files
  <2>2. vms' \in [Vms -> Handles]
    BY <1>10, <2>1 DEF Recover, TypeOK, Handles
  <2>3. ipv6' \in [Vms -> Addrs] /\ ndp' \in [Vms -> Addrs]
    BY <1>10, <2>1 DEF Recover, TypeOK
  <2>4. used' \subseteq Nat /\ nft' \subseteq Vms /\ pending' \subseteq Vms
    BY <1>10, <2>1 DEF Recover, TypeOK
  <2> QED BY <1>10, <2>2, <2>3, <2>4 DEF Recover, TypeOK
<1>11. CASE Serve
  BY <1>11 DEF Serve, TypeOK
<1>12. CASE LoadFails
  BY <1>12 DEF LoadFails, TypeOK
<1>13. ASSUME NEW v \in Vms, UnitExits(v) \/ UnitFails(v) \/ UnitRestarts(v) PROVE TypeOK'
  BY <1>13 DEF UnitExits, UnitFails, UnitRestarts, TypeOK
<1>14. CASE UNCHANGED vars
  BY <1>14 DEF vars, TypeOK
<1> QED
  BY <1>1, <1>2, <1>3, <1>4, <1>5, <1>6, <1>8, <1>9, <1>10, <1>11, <1>12, <1>13, <1>14
  DEF Next, RecoverStep

\* Every reachable state of the life cycle is well typed.
THEOREM TypeCorrect == Spec => []TypeOK
<1>1. Init => TypeOK
  BY ConstantsAssumption
  DEF Init, TypeOK, NoHandle, Handles, NoFile, Files, NoRequest, NoDelete, Addrs
<1> QED
  BY <1>1, NextType, PTL DEF Spec

-----------------------------------------------------------------------------
(* The TAP interface as the lock of an id *)

\* Between `ip tuntap add` and the deletion of the interface.
HoldsTap == {"tapaddr", "nft", "ndp", "prepare", "spawn", "save", "insert",
             "undo_ndp", "undo_nft", "undo_tap"}

Creating(s, v) == req[s].pc # "idle" /\ req[s].vm = v

\* Several create_vm calls for one id may run together, but only the one that
\* created the interface gets past CreateTap; while the VM is registered, and
\* until delete_vm has removed the interface, none of them does.
TapIsLock ==
    /\ \A s \in Slots : req[s].pc \in HoldsTap => req[s].vm \in taps
    /\ \A s, t \in Slots :
          /\ req[s].pc \in HoldsTap
          /\ req[t].pc \in HoldsTap
          /\ req[s].vm = req[t].vm
          => s = t
    /\ \A v \in Vms, s \in Slots :
          Registered(v) /\ Creating(s, v) => v \in taps /\ req[s].pc \notin HoldsTap
    /\ \A s \in Slots :
          del.pc \in {"stop", "ndp", "ipv6", "nft", "tap"} /\ Creating(s, del.vm)
          => del.vm \in taps /\ req[s].pc \notin HoldsTap

\* delete_vm works on an id that is not registered; recovery runs alone, and
\* has not registered what it has not loaded.
Exclusion ==
    /\ \A v \in Vms : del.pc # "idle" /\ del.vm = v => ~Registered(v)
    /\ phase = "recovering" =>
          del.pc = "idle" /\ \A s \in Slots : req[s].pc = "idle"
    /\ \A v \in pending : phase = "recovering" /\ ~Registered(v)

TapInv == TapIsLock /\ Exclusion

\* A step of one create_vm call that neither deletes an interface nor enters
\* the section its interface protects preserves the invariant.
LEMMA QuietStep ==
    ASSUME TypeOK, TapInv, NEW s \in Slots, req[s].pc # "idle",
           NEW r \in CreateRequests,
           req' = [req EXCEPT ![s] = r],
           r.pc # "idle" => r.vm = req[s].vm,
           r.pc \in HoldsTap => req[s].pc \in HoldsTap,
           taps \subseteq taps',
           UNCHANGED <<phase, pending, vms, del>>
    PROVE  TapInv'
<1>1. \A t \in Slots : t # s => req'[t] = req[t]
  BY DEF TypeOK
<1>2. req'[s] = r
  BY DEF TypeOK
<1>3. \A t \in Slots : req'[t].pc # "idle" => req[t].pc # "idle" /\ req'[t].vm = req[t].vm
  BY <1>1, <1>2
<1>4. \A t \in Slots : req'[t].pc \in HoldsTap => req[t].pc \in HoldsTap
  BY <1>1, <1>2
<1>5. \A t \in Slots : req'[t].pc \in HoldsTap => req'[t].pc # "idle"
  BY DEF HoldsTap
<1>6. TapIsLock'
  BY <1>3, <1>4, <1>5 DEF TapInv, TapIsLock, Creating, Registered
<1>7. Exclusion'
  BY DEF TapInv, Exclusion, Registered
<1> QED BY <1>6, <1>7 DEF TapInv

\* Goto and Return are such steps.
LEMMA QuietGoto ==
    ASSUME TypeOK, TapInv, NEW s \in Slots, req[s].pc # "idle",
           NEW pc \in CreatePcs, Goto(s, pc),
           pc \in HoldsTap => req[s].pc \in HoldsTap,
           taps \subseteq taps',
           UNCHANGED <<phase, pending, vms, del>>
    PROVE  TapInv'
<1> DEFINE r == [req[s] EXCEPT !.pc = pc]
<1>1. r \in CreateRequests /\ r.pc = pc /\ r.vm = req[s].vm
  BY DEF TypeOK, CreateRequests
<1>2. req' = [req EXCEPT ![s] = r]
  BY DEF Goto
<1> HIDE DEF r
<1> QED BY <1>1, <1>2, QuietStep

LEMMA QuietReturn ==
    ASSUME TypeOK, TapInv, NEW s \in Slots, req[s].pc # "idle", Return(s),
           taps \subseteq taps',
           UNCHANGED <<phase, pending, vms, del>>
    PROVE  TapInv'
<1>1. NoRequest \in CreateRequests /\ NoRequest.pc = "idle" /\ NoRequest.pc \notin HoldsTap
  BY DEF CreateRequests, NoRequest, Addrs, HoldsTap
<1> QED BY <1>1, QuietStep DEF Return

\* Every step of create_vm preserves the invariant.  Three steps are not
\* quiet: CreateTap takes the lock, UndoTap gives it back, and Insert hands
\* it to the registered VM.
LEMMA CreateStepTap ==
    ASSUME TypeOK, TapInv, NEW s \in Slots, CreateStep(s)
    PROVE  TapInv'
<1>1. CASE TakeOffset(s)
  <2>1. PICK o \in Offsets :
           req' = [req EXCEPT ![s] = [@ EXCEPT !.pc = "ipv6", !.off = o]]
    BY <1>1 DEF TakeOffset
  <2> DEFINE r == [req[s] EXCEPT !.pc = "ipv6", !.off = o]
  <2>2. o \in Nat
    BY ConstantsAssumption DEF Offsets
  <2>3. r \in CreateRequests /\ r.vm = req[s].vm /\ r.pc \notin HoldsTap
    BY <2>2 DEF TypeOK, CreateRequests, CreatePcs, HoldsTap
  <2>4. req' = [req EXCEPT ![s] = r]
    BY <2>1
  <2> HIDE DEF r
  <2> QED BY <1>1, <2>3, <2>4, QuietStep DEF TakeOffset, At
<1>2. CASE AllocateIpv6(s)
  <2>1. PICK a \in Pool :
           req' = [req EXCEPT ![s] = [@ EXCEPT !.pc = "dhcp", !.v6 = a]]
    BY <1>2 DEF AllocateIpv6
  <2> DEFINE r == [req[s] EXCEPT !.pc = "dhcp", !.v6 = a]
  <2>2. r \in CreateRequests /\ r.vm = req[s].vm /\ r.pc \notin HoldsTap
    BY DEF TypeOK, CreateRequests, CreatePcs, Addrs, HoldsTap
  <2>3. req' = [req EXCEPT ![s] = r]
    BY <2>1
  <2> HIDE DEF r
  <2> QED BY <1>2, <2>2, <2>3, QuietStep DEF AllocateIpv6, At
<1>3. CASE OffsetsExhausted(s)
  BY <1>3, QuietReturn DEF OffsetsExhausted, At
<1>4. CASE AllocateIpv6Fails(s)
  BY <1>4, QuietReturn DEF AllocateIpv6Fails, At
<1>5. CASE WriteDhcpFails(s)
  BY <1>5, QuietReturn DEF WriteDhcpFails, At
<1>6. CASE PrepareFails(s)
  BY <1>6, QuietReturn DEF PrepareFails, At
<1>7. CASE WriteDhcp6Fails(s)
  BY <1>7, QuietGoto DEF WriteDhcp6Fails, At, CreatePcs, HoldsTap
<1>8. CASE UndoReservations(s)
  BY <1>8, QuietReturn DEF UndoReservations, At
<1>9. CASE WriteDhcp(s)
  BY <1>9, QuietGoto DEF WriteDhcp, At, CreatePcs, HoldsTap
<1>10. CASE WriteDhcp6(s)
  BY <1>10, QuietGoto DEF WriteDhcp6, At, CreatePcs, HoldsTap
<1>11. CASE CreateTapFails(s)
  BY <1>11, QuietGoto DEF CreateTapFails, At, CreatePcs, HoldsTap
<1>12. CASE AddIpv6ToTap(s)
  BY <1>12, QuietGoto DEF AddIpv6ToTap, At, CreatePcs, HoldsTap
<1>13. CASE SetupNft(s)
  BY <1>13, QuietGoto DEF SetupNft, At, CreatePcs, HoldsTap
<1>14. CASE SetupNftFails(s)
  BY <1>14, QuietGoto DEF SetupNftFails, At, CreatePcs, HoldsTap
<1>15. CASE AddNdpRange(s)
  BY <1>15, QuietGoto DEF AddNdpRange, At, CreatePcs, HoldsTap
<1>16. CASE Prepare(s)
  BY <1>16, QuietGoto DEF Prepare, At, CreatePcs, HoldsTap
<1>17. CASE Spawn(s)
  BY <1>17, QuietGoto DEF Spawn, At, CreatePcs, HoldsTap
<1>18. CASE SpawnFails(s)
  BY <1>18, QuietGoto DEF SpawnFails, At, CreatePcs, HoldsTap
<1>19. CASE UndoNdp(s)
  BY <1>19, QuietGoto DEF UndoNdp, At, CreatePcs, HoldsTap
<1>20. CASE UndoNft(s)
  BY <1>20, QuietGoto DEF UndoNft, At, CreatePcs, HoldsTap
<1>21. CASE Save(s)
  BY <1>21, QuietGoto DEF Save, At, CreatePcs, HoldsTap
<1>22. CASE CreateTap(s)
  <2> DEFINE v == req[s].vm
  <2>1. /\ req[s].pc = "tap" /\ v \in Vms /\ v \notin taps
        /\ taps' = taps \cup {v}
        /\ req' = [req EXCEPT ![s].pc = "tapaddr"]
        /\ UNCHANGED <<phase, pending, vms, del>>
    BY <1>22 DEF CreateTap, At, Goto, TypeOK
  <2>2. ~Registered(v)
    BY <2>1 DEF TapInv, TapIsLock, Creating
  <2>3. ~(del.vm = v /\ del.pc \in {"stop", "ndp", "ipv6", "nft", "tap"})
    BY <2>1 DEF TapInv, TapIsLock, Creating
  <2>4. \A t \in Slots : req[t].pc \in HoldsTap => req[t].vm # v
    BY <2>1 DEF TapInv, TapIsLock
  <2>5. /\ \A t \in Slots : req'[t].vm = req[t].vm
        /\ \A t \in Slots : t # s => req'[t].pc = req[t].pc
        /\ req'[s].pc = "tapaddr"
    BY <2>1 DEF TypeOK, CreateRequests
  <2>6. TapIsLock'
    <3>1. \A t \in Slots : (req[t].pc \in HoldsTap)' => (req[t].vm \in taps)'
      BY <2>1, <2>5 DEF TapInv, TapIsLock
    <3>2. \A t, u \in Slots :
             (req[t].pc \in HoldsTap /\ req[u].pc \in HoldsTap /\ req[t].vm = req[u].vm)'
             => t = u
      BY <2>4, <2>5 DEF TapInv, TapIsLock
    <3>3. \A w \in Vms, t \in Slots :
             (Registered(w) /\ Creating(t, w))' => (w \in taps /\ req[t].pc \notin HoldsTap)'
      BY <2>1, <2>2, <2>5 DEF TapInv, TapIsLock, Creating, Registered
    <3>4. \A t \in Slots :
             (del.pc \in {"stop", "ndp", "ipv6", "nft", "tap"} /\ Creating(t, del.vm))'
             => (del.vm \in taps /\ req[t].pc \notin HoldsTap)'
      BY <2>1, <2>3, <2>5 DEF TapInv, TapIsLock, Creating
    <3> QED BY <3>1, <3>2, <3>3, <3>4 DEF TapIsLock
  <2>7. Exclusion'
    BY <2>1 DEF TapInv, Exclusion, Registered
  <2> QED BY <2>6, <2>7 DEF TapInv
<1>23. CASE UndoTap(s)
  <2> DEFINE v == req[s].vm
  <2>1. /\ req[s].pc = "undo_tap" /\ v \in Vms
        /\ taps \ {v} \subseteq taps'
        /\ req' = [req EXCEPT ![s].pc = "undo_res"]
        /\ UNCHANGED <<phase, pending, vms, del>>
    BY <1>23 DEF UndoTap, At, Goto, TypeOK, Torn
  <2>2. req[s].pc \in HoldsTap
    BY <2>1 DEF HoldsTap
  <2>3. ~Registered(v)
    BY <2>1, <2>2 DEF TapInv, TapIsLock, Creating
  <2>4. ~(del.vm = v /\ del.pc \in {"stop", "ndp", "ipv6", "nft", "tap"})
    BY <2>1, <2>2 DEF TapInv, TapIsLock, Creating
  <2>5. \A t \in Slots : req[t].pc \in HoldsTap /\ req[t].vm = v => t = s
    BY <2>2 DEF TapInv, TapIsLock
  <2>6. /\ \A t \in Slots : req'[t].vm = req[t].vm
        /\ \A t \in Slots : t # s => req'[t].pc = req[t].pc
        /\ req'[s].pc = "undo_res"
    BY <2>1 DEF TypeOK, CreateRequests
  <2>7. \A t \in Slots : (req[t].pc \in HoldsTap)' => req[t].pc \in HoldsTap /\ t # s
    BY <2>6 DEF HoldsTap
  <2>8. \A t \in Slots, w \in Vms : Creating(t, w)' => Creating(t, w)
    BY <2>1, <2>6 DEF Creating
  <2>9. TapIsLock'
    <3>1. \A t \in Slots : (req[t].pc \in HoldsTap)' => (req[t].vm \in taps)'
      BY <2>1, <2>5, <2>6, <2>7 DEF TapInv, TapIsLock
    <3>2. \A t, u \in Slots :
             (req[t].pc \in HoldsTap /\ req[u].pc \in HoldsTap /\ req[t].vm = req[u].vm)'
             => t = u
      BY <2>6, <2>7 DEF TapInv, TapIsLock
    <3>3. \A w \in Vms, t \in Slots :
             (Registered(w) /\ Creating(t, w))' => (w \in taps /\ req[t].pc \notin HoldsTap)'
      BY <2>1, <2>3, <2>7, <2>8 DEF TapInv, TapIsLock, Registered
    <3>4. \A t \in Slots :
             (del.pc \in {"stop", "ndp", "ipv6", "nft", "tap"} /\ Creating(t, del.vm))'
             => (del.vm \in taps /\ req[t].pc \notin HoldsTap)'
      <4>1. del.pc \in {"stop", "ndp", "ipv6", "nft", "tap"} => del.vm \in Vms
        BY DEF TypeOK
      <4> QED BY <4>1, <2>1, <2>4, <2>7, <2>8 DEF TapInv, TapIsLock
    <3> QED BY <3>1, <3>2, <3>3, <3>4 DEF TapIsLock
  <2>10. Exclusion'
    BY <2>1 DEF TapInv, Exclusion, Registered
  <2> QED BY <2>9, <2>10 DEF TapInv
<1>24. CASE Insert(s)
  <2> DEFINE v == req[s].vm
  <2>1. /\ req[s].pc = "insert" /\ v \in Vms /\ del.pc = "idle"
        /\ req' = [req EXCEPT ![s] = NoRequest]
        /\ \A w \in Vms : w # v => vms'[w] = vms[w]
        /\ UNCHANGED <<phase, pending, taps, del>>
    BY <1>24 DEF Insert, At, Return, TypeOK, VmsUnlocked
  <2>2. req[s].pc \in HoldsTap
    BY <2>1 DEF HoldsTap
  <2>3. v \in taps /\ \A t \in Slots : req[t].pc \in HoldsTap /\ req[t].vm = v => t = s
    BY <2>2 DEF TapInv, TapIsLock
  <2>4. /\ req'[s].pc = "idle"
        /\ \A t \in Slots : t # s => req'[t] = req[t]
    BY <2>1 DEF TypeOK, NoRequest
  <2>5. \A t \in Slots : (req[t].pc \in HoldsTap)' => t # s
    BY <2>4 DEF HoldsTap
  <2>6. TapIsLock'
    <3>1. \A w \in Vms, t \in Slots :
             (Registered(w) /\ Creating(t, w))' => (w \in taps /\ req[t].pc \notin HoldsTap)'
      BY <2>1, <2>3, <2>4, <2>5 DEF TapInv, TapIsLock, Creating, Registered
    <3> QED BY <3>1, <2>1, <2>4, <2>5 DEF TapInv, TapIsLock
  <2>7. phase # "recovering"
    BY <2>1 DEF TapInv, Exclusion
  <2>8. Exclusion'
    BY <2>1, <2>7 DEF TapInv, Exclusion
  <2> QED BY <2>6, <2>8 DEF TapInv
<1>25. CASE ReleaseIpv6(s)
  BY <1>25, QuietReturn DEF ReleaseIpv6, At
<1> QED
  BY <1>1, <1>2, <1>3, <1>4, <1>5, <1>6, <1>7, <1>8, <1>9, <1>10, <1>11, <1>12, <1>13, <1>14, <1>15, <1>16, <1>17, <1>18, <1>19, <1>20, <1>21, <1>22, <1>23, <1>24, <1>25 DEF CreateStep

\* A step of delete_vm that neither deletes the interface nor touches the map
\* preserves the invariant.
LEMMA QuietDelete ==
    ASSUME TypeOK, TapInv, del.pc # "idle",
           del'.pc # "idle" => del'.vm = del.vm,
           del'.pc \in {"stop", "ndp", "ipv6", "nft", "tap"} =>
               del.pc \in {"stop", "ndp", "ipv6", "nft", "tap"},
           UNCHANGED <<phase, pending, vms, taps, req>>
    PROVE  TapInv'
<1>1. TapIsLock'
  BY DEF TapInv, TapIsLock, Creating, Registered
<1>2. Exclusion'
  BY DEF TapInv, Exclusion, Registered
<1> QED BY <1>1, <1>2 DEF TapInv

\* Every step of the specification preserves the invariant.
LEMMA NextTap == TypeOK /\ TapInv /\ [Next]_vars => TapInv'
<1> SUFFICES ASSUME TypeOK, TapInv, [Next]_vars PROVE TapInv'
  OBVIOUS
<1> USE DEF DeleteAt, DeleteGoto
<1>1. ASSUME NEW s \in Slots, NEW v \in Vms, CheckDuplicate(s, v) PROVE TapInv'
  <2>1. /\ req[s].pc = "idle" /\ ~Registered(v) /\ del.pc = "idle" /\ phase = "up"
        /\ UNCHANGED <<phase, pending, vms, taps, del>>
    BY <1>1 DEF CheckDuplicate, At, VmsUnlocked
  <2>2. /\ req'[s].vm = v /\ req'[s].pc = "offset"
        /\ \A t \in Slots : t # s => req'[t] = req[t]
    BY <1>1 DEF CheckDuplicate, TypeOK, NoRequest
  <2>3. \A t \in Slots : (req[t].pc \in HoldsTap)' => t # s
    BY <2>2 DEF HoldsTap
  <2>4. TapIsLock'
    BY <2>1, <2>2, <2>3 DEF TapInv, TapIsLock, Creating, Registered
  <2>5. Exclusion'
    BY <2>1 DEF TapInv, Exclusion, Registered
  <2> QED BY <2>4, <2>5 DEF TapInv
<1>2. ASSUME NEW s \in Slots, CreateStep(s) PROVE TapInv'
  BY <1>2, CreateStepTap
<1>3. ASSUME NEW s \in Slots, CancelCreate(s) PROVE TapInv'
  BY <1>3, QuietReturn DEF CancelCreate, CreateAwaits
<1>4. ASSUME NEW v \in Vms, BeginDelete(v) PROVE TapInv'
  <2>1. /\ Registered(v) /\ ~Registered(v)' /\ phase = "up"
        /\ \A w \in Vms : w # v => vms'[w] = vms[w]
        /\ del'.vm = v
        /\ UNCHANGED <<phase, pending, taps, req>>
    BY <1>4 DEF BeginDelete, TypeOK, Registered, NoHandle
  <2>2. TapIsLock'
    BY <2>1 DEF TapInv, TapIsLock, Creating, Registered
  <2>3. Exclusion'
    BY <2>1 DEF TapInv, Exclusion, Registered
  <2> QED BY <2>2, <2>3 DEF TapInv
<1>5. CASE DeleteStop \/ DeleteNdp \/ DeleteIpv6 \/ DeleteNft
  <2>1. /\ del.pc \in {"stop", "ndp", "ipv6", "nft"}
        /\ del'.vm = del.vm
        /\ UNCHANGED <<phase, pending, vms, taps, req>>
    BY <1>5 DEF DeleteStop, DeleteNdp, DeleteIpv6, DeleteNft, TypeOK
  <2> QED BY <2>1, QuietDelete
<1>6. CASE DeleteDhcp \/ DeleteOffset \/ DeleteFile \/ CancelDelete
  <2>1. /\ del.pc # "idle"
        /\ del'.pc # "idle" => del'.vm = del.vm
        /\ del'.pc \notin {"stop", "ndp", "ipv6", "nft", "tap"}
        /\ UNCHANGED <<phase, pending, vms, taps, req>>
    BY <1>6
    DEF DeleteDhcp, DeleteOffset, DeleteFile, CancelDelete, DeleteAwaits, TypeOK, NoDelete
  <2> QED BY <2>1, QuietDelete
<1>7. CASE DeleteTap
  <2>1. /\ del.pc = "tap" /\ del.vm \in Vms
        /\ del'.pc = "dhcp" /\ del'.vm = del.vm
        /\ taps \ {del.vm} \subseteq taps'
        /\ UNCHANGED <<phase, pending, vms, req>>
    BY <1>7 DEF DeleteTap, Torn, TypeOK
  <2>2. ~Registered(del.vm)
    BY <2>1 DEF TapInv, Exclusion
  <2>3. \A s \in Slots : req[s].pc \in HoldsTap => req[s].vm # del.vm
    BY <2>1 DEF TapInv, TapIsLock, Creating, HoldsTap
  <2>4. TapIsLock'
    BY <2>1, <2>2, <2>3 DEF TapInv, TapIsLock, Creating, Registered
  <2>5. Exclusion'
    BY <2>1 DEF TapInv, Exclusion, Registered
  <2> QED BY <2>4, <2>5 DEF TapInv
<1>8. CASE Crash \/ Reboot
  <2>1. /\ \A s \in Slots : req'[s].pc = "idle"
        /\ \A v \in Vms : ~Registered(v)'
        /\ del'.pc = "idle" /\ phase' = "recovering" /\ pending' \subseteq Vms
    BY <1>8 DEF Crash, Reboot, ForgetMemory, NoRequest, NoDelete, NoHandle, Registered
  <2>2. TapIsLock'
    BY <2>1 DEF TapIsLock, Creating, HoldsTap
  <2>3. Exclusion'
    BY <2>1 DEF Exclusion
  <2> QED BY <2>2, <2>3 DEF TapInv
<1>9. ASSUME NEW v \in Vms, Recover(v) PROVE TapInv'
  <2>1. /\ phase = "recovering" /\ v \in pending
        /\ pending' = pending \ {v}
        /\ \A w \in Vms : w # v => vms'[w] = vms[w]
        /\ UNCHANGED <<phase, taps, req, del>>
    BY <1>9 DEF Recover, TypeOK
  <2>2. del.pc = "idle" /\ \A s \in Slots : req[s].pc = "idle"
    BY <2>1 DEF TapInv, Exclusion
  <2>3. TapIsLock'
    BY <2>1, <2>2 DEF TapIsLock, Creating, HoldsTap
  <2>4. Exclusion'
    BY <2>1, <2>2 DEF TapInv, Exclusion, Registered, TypeOK
  <2> QED BY <2>3, <2>4 DEF TapInv
<1>10. CASE Serve \/ LoadFails
  <2>1. pending' = {} /\ phase' = "up" /\ UNCHANGED <<vms, taps, req, del>>
    BY <1>10 DEF Serve, LoadFails
  <2>2. TapIsLock'
    BY <2>1 DEF TapInv, TapIsLock, Creating, Registered
  <2>3. Exclusion'
    BY <2>1 DEF TapInv, Exclusion, Registered
  <2> QED BY <2>2, <2>3 DEF TapInv
<1>11. CASE UNCHANGED <<phase, pending, vms, taps, req, del>>
  BY <1>11 DEF TapInv, TapIsLock, Exclusion, Creating, Registered
<1>12. ASSUME NEW v \in Vms, UnitExits(v) \/ UnitFails(v) \/ UnitRestarts(v) PROVE TapInv'
  BY <1>11, <1>12 DEF UnitExits, UnitFails, UnitRestarts
<1>13. CASE UNCHANGED vars
  BY <1>11, <1>13 DEF vars
<1> QED
  BY <1>1, <1>2, <1>3, <1>4, <1>5, <1>6, <1>7, <1>8, <1>9, <1>10, <1>12, <1>13
  DEF Next, DeleteStep, RecoverStep

\* In the initial state nothing is registered, created or deleted.
LEMMA InitTap == Init => TapInv
BY DEF Init, TapInv, TapIsLock, Exclusion, Creating, Registered, NoRequest, NoDelete,
       NoHandle, HoldsTap

\* Together the types and the lock are an inductive invariant.
LEMMA TapInvariant == Spec => [](TypeOK /\ TapInv)
<1>1. Init => TypeOK /\ TapInv
  <2>1. Init => TypeOK
    BY ConstantsAssumption
    DEF Init, TypeOK, NoHandle, Handles, NoFile, Files, NoRequest, NoDelete, Addrs
  <2> QED BY <2>1, InitTap
<1> QED
  BY <1>1, NextType, NextTap, PTL DEF Spec

\* create_vm never replaces the handle of a registered VM, although its
\* duplicate check is long over when it inserts: whatever calls run together,
\* whatever fails, is cancelled or restarts, the interface keeps the second
\* call for an id from getting that far.
THEOREM NoReplacement == Spec => HandleNeverReplaced
<1> DEFINE Step == \A v \in Vms : Registered(v) /\ Registered(v)' => vms'[v] = vms[v]
<1>1. ASSUME TypeOK, TapInv, [Next]_vars PROVE Step \/ UNCHANGED vars
  <2> SUFFICES ASSUME Next PROVE Step
    BY <1>1
  <2>1. ASSUME NEW s \in Slots, CreateStep(s) PROVE Step
    <3>1. CASE Insert(s)
      <4>1. req[s].pc = "insert" /\ req[s].vm \in Vms
        BY <3>1, <1>1 DEF Insert, At, TypeOK
      <4>2. ~Registered(req[s].vm)
        BY <4>1, <1>1 DEF TapInv, TapIsLock, Creating, HoldsTap
      <4>3. \A w \in Vms : w # req[s].vm => vms'[w] = vms[w]
        BY <3>1, <1>1 DEF Insert, TypeOK
      <4> QED BY <4>2, <4>3
    <3>2. CASE ~Insert(s)
      <4>1. UNCHANGED vms
        BY <2>1, <3>2
        DEF CreateStep, TakeOffset, OffsetsExhausted, AllocateIpv6, AllocateIpv6Fails,
            WriteDhcp, WriteDhcpFails, WriteDhcp6, WriteDhcp6Fails, ReleaseIpv6, CreateTap,
            CreateTapFails, AddIpv6ToTap, SetupNft, SetupNftFails, AddNdpRange,
            Prepare, PrepareFails, Spawn, SpawnFails, UndoNdp, UndoNft, UndoTap,
            UndoReservations, Save
      <4> QED BY <4>1
    <3> QED BY <3>1, <3>2
  <2>2. ASSUME NEW v \in Vms, BeginDelete(v) PROVE Step
    <3>1. ~Registered(v)' /\ \A w \in Vms : w # v => vms'[w] = vms[w]
      BY <2>2, <1>1 DEF BeginDelete, TypeOK, Registered, NoHandle
    <3> QED BY <3>1
  <2>3. CASE Crash \/ Reboot
    <3>1. \A v \in Vms : ~Registered(v)'
      BY <2>3 DEF Crash, Reboot, ForgetMemory, Registered, NoHandle
    <3> QED BY <3>1
  <2>4. ASSUME NEW v \in Vms, Recover(v) PROVE Step
    <3>1. ~Registered(v) /\ \A w \in Vms : w # v => vms'[w] = vms[w]
      BY <2>4, <1>1 DEF Recover, TapInv, Exclusion, TypeOK
    <3> QED BY <3>1
  <2>5. CASE UNCHANGED vms
    BY <2>5
  <2>6. ASSUME NEW s \in Slots, NEW v \in Vms, CheckDuplicate(s, v) PROVE Step
    BY <2>5, <2>6 DEF CheckDuplicate
  <2>7. ASSUME NEW s \in Slots, CancelCreate(s) PROVE Step
    BY <2>5, <2>7 DEF CancelCreate
  <2>8. CASE DeleteStep \/ CancelDelete
    BY <2>5, <2>8
    DEF DeleteStep, DeleteStop, DeleteNdp, DeleteIpv6, DeleteNft, DeleteTap, DeleteDhcp,
        DeleteOffset, DeleteFile, CancelDelete
  <2>9. CASE Serve \/ LoadFails
    BY <2>5, <2>9 DEF Serve, LoadFails
  <2>10. ASSUME NEW v \in Vms, UnitExits(v) \/ UnitFails(v) \/ UnitRestarts(v) PROVE Step
    BY <2>5, <2>10 DEF UnitExits, UnitFails, UnitRestarts
  <2> HIDE DEF Step
  <2> QED
    BY <2>1, <2>2, <2>3, <2>4, <2>6, <2>7, <2>8, <2>9, <2>10 DEF Next, RecoverStep
<1>2. TypeOK /\ TapInv /\ [Next]_vars => [Step]_vars
  BY <1>1
<1> QED
  BY <1>2, TapInvariant, PTL DEF Spec, HandleNeverReplaced

-----------------------------------------------------------------------------
(* Running VMs stay connected *)

\* Past setup_vm, past ndp.add_range, and before QEMU is started.
Confined  == {"ndp", "prepare", "spawn", "save", "insert", "undo_ndp", "undo_nft"}
Announced == {"prepare", "spawn", "save", "insert"}
Unstarted == HoldsTap \ {"save", "insert"}
DeleteStopped == {"ndp", "ipv6", "nft", "tap"}

ConnInv ==
    /\ \A v \in Vms : unit[v] # "restarting"
    /\ RunningUnitConnected
    /\ RunningVmReachable
    /\ \A s \in Slots : req[s].pc \in Confined => req[s].vm \in nft
    /\ \A s \in Slots : req[s].pc \in Announced => ndp[req[s].vm] = req[s].v6
    /\ \A s \in Slots : req[s].pc \in Unstarted => unit[req[s].vm] = "inactive"
    /\ \A v \in Vms : vms[v].state = "stopped" => unit[v] = "inactive"
    /\ del.pc \in DeleteStopped => unit[del.vm] = "inactive"
    /\ del.pc = "stop" /\ del.h.state = "stopped" => unit[del.vm] = "inactive"

\* The create_vm call that holds the interface of an id is alone with it.
LEMMA HolderAlone ==
    ASSUME TypeOK, TapInv, NEW s \in Slots, req[s].pc \in HoldsTap
    PROVE  /\ req[s].vm \in Vms
           /\ req[s].vm \in taps
           /\ ~Registered(req[s].vm)
           /\ \A t \in Slots : req[t].pc \in HoldsTap /\ req[t].vm = req[s].vm => t = s
           /\ ~(del.vm = req[s].vm /\ del.pc \in {"stop", "ndp", "ipv6", "nft", "tap"})
<1>1. req[s].pc # "idle"
  BY DEF HoldsTap
<1>2. req[s].vm \in Vms
  BY <1>1 DEF TypeOK
<1> QED BY <1>1, <1>2 DEF TapInv, TapIsLock, Creating

\* A step of one create_vm call that leaves the host as it is, or adds to it,
\* and enters none of the sections, preserves the invariant.
LEMMA QuietConn ==
    ASSUME TypeOK, ConnInv, NEW s \in Slots, NEW r \in CreateRequests,
           req' = [req EXCEPT ![s] = r],
           r.pc \in Confined => req[s].pc \in Confined /\ r.vm = req[s].vm,
           r.pc \in Announced =>
               req[s].pc \in Announced /\ r.vm = req[s].vm /\ r.v6 = req[s].v6,
           r.pc \in Unstarted => req[s].pc \in Unstarted /\ r.vm = req[s].vm,
           taps \subseteq taps', nft \subseteq nft',
           UNCHANGED <<vms, ndp, unit, del>>
    PROVE  ConnInv'
<1>1. req'[s] = r /\ \A t \in Slots : t # s => req'[t] = req[t]
  BY DEF TypeOK
<1>2. \A t \in Slots : (req[t].pc \in Confined)' => (req[t].vm \in nft)'
  BY <1>1 DEF ConnInv
<1>3. \A t \in Slots : (req[t].pc \in Announced)' => (ndp[req[t].vm] = req[t].v6)'
  BY <1>1 DEF ConnInv
<1>4. \A t \in Slots : (req[t].pc \in Unstarted)' => (unit[req[t].vm] = "inactive")'
  BY <1>1 DEF ConnInv
<1> QED
  BY <1>2, <1>3, <1>4 DEF ConnInv, RunningUnitConnected, RunningVmReachable

LEMMA QuietConnGoto ==
    ASSUME TypeOK, ConnInv, NEW s \in Slots, NEW pc \in CreatePcs, Goto(s, pc),
           pc \in Confined => req[s].pc \in Confined,
           pc \in Announced => req[s].pc \in Announced,
           pc \in Unstarted => req[s].pc \in Unstarted,
           taps \subseteq taps', nft \subseteq nft',
           UNCHANGED <<vms, ndp, unit, del>>
    PROVE  ConnInv'
<1> DEFINE r == [req[s] EXCEPT !.pc = pc]
<1>1. r \in CreateRequests /\ r.pc = pc /\ r.vm = req[s].vm /\ r.v6 = req[s].v6
  BY DEF TypeOK, CreateRequests
<1>2. req' = [req EXCEPT ![s] = r]
  BY DEF Goto
<1> HIDE DEF r
<1> QED BY <1>1, <1>2, QuietConn

LEMMA QuietConnReturn ==
    ASSUME TypeOK, ConnInv, NEW s \in Slots, Return(s),
           UNCHANGED <<vms, ndp, unit, del, taps, nft>>
    PROVE  ConnInv'
<1>1. /\ NoRequest \in CreateRequests
      /\ NoRequest.pc \notin Confined /\ NoRequest.pc \notin Announced
      /\ NoRequest.pc \notin Unstarted
  BY DEF CreateRequests, NoRequest, Addrs, Confined, Announced, Unstarted, HoldsTap
<1> QED BY <1>1, QuietConn DEF Return

\* Every step of create_vm preserves the invariant: what it starts it has
\* connected, and what it takes away nobody else uses.
LEMMA CreateStepConn ==
    ASSUME TypeOK, TapInv, ConnInv, NEW s \in Slots, CreateStep(s)
    PROVE  ConnInv'
<1> DEFINE v == req[s].vm
<1> USE DEF At
<1>1. CASE TakeOffset(s)
  <2>1. PICK o \in Offsets :
           req' = [req EXCEPT ![s] = [@ EXCEPT !.pc = "ipv6", !.off = o]]
    BY <1>1 DEF TakeOffset
  <2> DEFINE r == [req[s] EXCEPT !.pc = "ipv6", !.off = o]
  <2>2. o \in Nat
    BY ConstantsAssumption DEF Offsets
  <2>3. /\ r \in CreateRequests
        /\ r.pc \notin Confined /\ r.pc \notin Announced /\ r.pc \notin Unstarted
    BY <2>2 DEF TypeOK, CreateRequests, CreatePcs, Confined, Announced, Unstarted, HoldsTap
  <2>4. req' = [req EXCEPT ![s] = r]
    BY <2>1
  <2> HIDE DEF r
  <2> QED BY <1>1, <2>3, <2>4, QuietConn DEF TakeOffset
<1>2. CASE AllocateIpv6(s)
  <2>1. PICK a \in Pool :
           req' = [req EXCEPT ![s] = [@ EXCEPT !.pc = "dhcp", !.v6 = a]]
    BY <1>2 DEF AllocateIpv6
  <2> DEFINE r == [req[s] EXCEPT !.pc = "dhcp", !.v6 = a]
  <2>0. a \in Addrs
    BY DEF Addrs
  <2>2. /\ r \in CreateRequests
        /\ r.pc \notin Confined /\ r.pc \notin Announced /\ r.pc \notin Unstarted
    BY <2>0 DEF TypeOK, CreateRequests, CreatePcs, Confined, Announced, Unstarted, HoldsTap
  <2>3. req' = [req EXCEPT ![s] = r]
    BY <2>1
  <2> HIDE DEF r
  <2> QED BY <1>2, <2>2, <2>3, QuietConn DEF AllocateIpv6
<1>3. CASE OffsetsExhausted(s)
  BY <1>3, QuietConnReturn DEF OffsetsExhausted
<1>4. CASE AllocateIpv6Fails(s)
  BY <1>4, QuietConnReturn DEF AllocateIpv6Fails
<1>5. CASE WriteDhcpFails(s)
  BY <1>5, QuietConnReturn DEF WriteDhcpFails
<1>6. CASE PrepareFails(s)
  BY <1>6, QuietConnReturn DEF PrepareFails
<1>7. CASE WriteDhcp6Fails(s)
  BY <1>7, QuietConnGoto
  DEF WriteDhcp6Fails, CreatePcs, Confined, Announced, Unstarted, HoldsTap
<1>8. CASE UndoReservations(s)
  BY <1>8, QuietConnReturn DEF UndoReservations
<1>9. CASE WriteDhcp(s)
  BY <1>9, QuietConnGoto
  DEF WriteDhcp, CreatePcs, Confined, Announced, Unstarted, HoldsTap
<1>10. CASE WriteDhcp6(s)
  BY <1>10, QuietConnGoto
  DEF WriteDhcp6, CreatePcs, Confined, Announced, Unstarted, HoldsTap
<1>11. CASE CreateTapFails(s)
  BY <1>11, QuietConnGoto
  DEF CreateTapFails, CreatePcs, Confined, Announced, Unstarted, HoldsTap
<1>12. CASE AddIpv6ToTap(s)
  BY <1>12, QuietConnGoto
  DEF AddIpv6ToTap, CreatePcs, Confined, Announced, Unstarted, HoldsTap
<1>13. CASE SetupNftFails(s)
  BY <1>13, QuietConnGoto
  DEF SetupNftFails, CreatePcs, Confined, Announced, Unstarted, HoldsTap
<1>14. CASE Prepare(s)
  BY <1>14, QuietConnGoto
  DEF Prepare, CreatePcs, Confined, Announced, Unstarted, HoldsTap
<1>15. CASE SpawnFails(s)
  BY <1>15, QuietConnGoto
  DEF SpawnFails, CreatePcs, Confined, Announced, Unstarted, HoldsTap
<1>16. CASE Save(s)
  BY <1>16, QuietConnGoto
  DEF Save, CreatePcs, Confined, Announced, Unstarted, HoldsTap
<1>17. CASE CreateTap(s)
  <2>1. /\ req[s].pc = "tap" /\ v \in Vms
        /\ v \notin taps /\ taps \subseteq taps'
        /\ UNCHANGED <<vms, ndp, nft, unit, del>>
    BY <1>17 DEF CreateTap, TypeOK
  <2>2. /\ req'[s].pc = "tapaddr"
        /\ \A t \in Slots : req'[t].vm = req[t].vm /\ req'[t].v6 = req[t].v6
        /\ \A t \in Slots : t # s => req'[t].pc = req[t].pc
    BY <1>17 DEF CreateTap, Goto, TypeOK, CreateRequests
  <2>3. unit[v] = "inactive"
    BY <2>1 DEF ConnInv, RunningUnitConnected
  <2>4. \A t \in Slots : (req[t].pc \in Confined)' => (req[t].vm \in nft)'
    BY <2>1, <2>2 DEF ConnInv, Confined, Announced, Unstarted, HoldsTap
  <2>5. \A t \in Slots : (req[t].pc \in Announced)' => (ndp[req[t].vm] = req[t].v6)'
    BY <2>1, <2>2 DEF ConnInv, Confined, Announced, Unstarted, HoldsTap
  <2>6. \A t \in Slots : (req[t].pc \in Unstarted)' => (unit[req[t].vm] = "inactive")'
    BY <2>1, <2>2, <2>3 DEF ConnInv, Confined, Announced, Unstarted, HoldsTap
  <2>7. RunningUnitConnected' /\ RunningVmReachable'
    BY <2>1, <2>2 DEF ConnInv, RunningUnitConnected, RunningVmReachable, Registered, Confined, Announced, Unstarted, HoldsTap
  <2>8. /\ \A w \in Vms : (unit[w] # "restarting")'
        /\ \A w \in Vms : (vms[w].state = "stopped" => unit[w] = "inactive")'
        /\ (del.pc \in DeleteStopped => unit[del.vm] = "inactive")'
        /\ (del.pc = "stop" /\ del.h.state = "stopped" => unit[del.vm] = "inactive")'
    BY <2>1, <2>2 DEF ConnInv, DeleteStopped, Registered, TypeOK
  <2> QED BY <2>4, <2>5, <2>6, <2>7, <2>8 DEF ConnInv
<1>18. CASE SetupNft(s)
  <2>1. /\ req[s].pc = "nft" /\ v \in Vms
        /\ nft' = nft \cup {v}
        /\ UNCHANGED <<vms, ndp, taps, unit, del>>
    BY <1>18 DEF SetupNft, TypeOK
  <2>2. /\ req'[s].pc = "ndp"
        /\ \A t \in Slots : req'[t].vm = req[t].vm /\ req'[t].v6 = req[t].v6
        /\ \A t \in Slots : t # s => req'[t].pc = req[t].pc
    BY <1>18 DEF SetupNft, Goto, TypeOK, CreateRequests
  <2>3. /\ v \in taps /\ ~Registered(v)
        /\ \A t \in Slots : req[t].pc \in HoldsTap /\ req[t].vm = v => t = s
        /\ ~(del.vm = v /\ del.pc \in {"stop", "ndp", "ipv6", "nft", "tap"})
    BY <2>1, HolderAlone DEF HoldsTap
  <2>4. \A t \in Slots : (req[t].pc \in Confined)' => (req[t].vm \in nft)'
    BY <2>1, <2>2, <2>3 DEF ConnInv, Confined, Announced, Unstarted, HoldsTap
  <2>5. \A t \in Slots : (req[t].pc \in Announced)' => (ndp[req[t].vm] = req[t].v6)'
    BY <2>1, <2>2, <2>3 DEF ConnInv, Confined, Announced, Unstarted, HoldsTap
  <2>6. \A t \in Slots : (req[t].pc \in Unstarted)' => (unit[req[t].vm] = "inactive")'
    BY <2>1, <2>2, <2>3 DEF ConnInv, Confined, Announced, Unstarted, HoldsTap
  <2>7. RunningUnitConnected' /\ RunningVmReachable'
    BY <2>1, <2>2, <2>3 DEF ConnInv, RunningUnitConnected, RunningVmReachable, Registered, Confined, Announced, Unstarted, HoldsTap
  <2>8. /\ \A w \in Vms : (unit[w] # "restarting")'
        /\ \A w \in Vms : (vms[w].state = "stopped" => unit[w] = "inactive")'
        /\ (del.pc \in DeleteStopped => unit[del.vm] = "inactive")'
        /\ (del.pc = "stop" /\ del.h.state = "stopped" => unit[del.vm] = "inactive")'
    BY <2>1, <2>2, <2>3 DEF ConnInv, DeleteStopped, Registered, TypeOK
  <2> QED BY <2>4, <2>5, <2>6, <2>7, <2>8 DEF ConnInv
<1>19. CASE AddNdpRange(s)
  <2>1. /\ req[s].pc = "ndp" /\ v \in Vms
        /\ ndp' = [ndp EXCEPT ![v] = req[s].v6]
        /\ UNCHANGED <<vms, taps, nft, unit, del>>
    BY <1>19 DEF AddNdpRange, TypeOK
  <2>2. /\ req'[s].pc = "prepare"
        /\ \A t \in Slots : req'[t].vm = req[t].vm /\ req'[t].v6 = req[t].v6
        /\ \A t \in Slots : t # s => req'[t].pc = req[t].pc
    BY <1>19 DEF AddNdpRange, Goto, TypeOK, CreateRequests
  <2>3. /\ v \in taps /\ ~Registered(v)
        /\ \A t \in Slots : req[t].pc \in HoldsTap /\ req[t].vm = v => t = s
        /\ ~(del.vm = v /\ del.pc \in {"stop", "ndp", "ipv6", "nft", "tap"})
    BY <2>1, HolderAlone DEF HoldsTap
  <2>10. ndp'[v] = req[s].v6 /\ \A w \in Vms : w # v => ndp'[w] = ndp[w]
    BY <2>1 DEF TypeOK
  <2>11. \A t \in Slots : req[t].pc \in Announced => req[t].vm \in Vms
    BY DEF TypeOK, Announced
  <2>4. \A t \in Slots : (req[t].pc \in Confined)' => (req[t].vm \in nft)'
    BY <2>1, <2>2, <2>3 DEF ConnInv, Confined, Announced, Unstarted, HoldsTap
  <2>5. \A t \in Slots : (req[t].pc \in Announced)' => (ndp[req[t].vm] = req[t].v6)'
    BY <2>1, <2>2, <2>3, <2>10, <2>11 DEF ConnInv, Confined, Announced, Unstarted, HoldsTap
  <2>6. \A t \in Slots : (req[t].pc \in Unstarted)' => (unit[req[t].vm] = "inactive")'
    BY <2>1, <2>2, <2>3 DEF ConnInv, Confined, Announced, Unstarted, HoldsTap
  <2>7. RunningUnitConnected' /\ RunningVmReachable'
    BY <2>1, <2>2, <2>3, <2>10 DEF ConnInv, RunningUnitConnected, RunningVmReachable, Registered, Confined, Announced, Unstarted, HoldsTap
  <2>8. /\ \A w \in Vms : (unit[w] # "restarting")'
        /\ \A w \in Vms : (vms[w].state = "stopped" => unit[w] = "inactive")'
        /\ (del.pc \in DeleteStopped => unit[del.vm] = "inactive")'
        /\ (del.pc = "stop" /\ del.h.state = "stopped" => unit[del.vm] = "inactive")'
    BY <2>1, <2>2, <2>3, <2>10 DEF ConnInv, DeleteStopped, Registered, TypeOK
  <2> QED BY <2>4, <2>5, <2>6, <2>7, <2>8 DEF ConnInv
<1>20. CASE Spawn(s)
  <2>1. /\ req[s].pc = "spawn" /\ v \in Vms
        /\ unit' = [unit EXCEPT ![v] = "active"]
        /\ UNCHANGED <<vms, taps, nft, ndp, del>>
    BY <1>20 DEF Spawn, TypeOK
  <2>2. /\ req'[s].pc = "save"
        /\ \A t \in Slots : req'[t].vm = req[t].vm /\ req'[t].v6 = req[t].v6
        /\ \A t \in Slots : t # s => req'[t].pc = req[t].pc
    BY <1>20 DEF Spawn, Goto, TypeOK, CreateRequests
  <2>3. /\ v \in taps /\ ~Registered(v)
        /\ \A t \in Slots : req[t].pc \in HoldsTap /\ req[t].vm = v => t = s
        /\ ~(del.vm = v /\ del.pc \in {"stop", "ndp", "ipv6", "nft", "tap"})
    BY <2>1, HolderAlone DEF HoldsTap
  <2>10. unit'[v] = "active" /\ \A w \in Vms : w # v => unit'[w] = unit[w]
    BY <2>1 DEF TypeOK
  <2>11. \A t \in Slots : req[t].pc \in Unstarted => req[t].vm \in Vms /\ req[t].pc \in HoldsTap
    BY DEF TypeOK, Unstarted, HoldsTap
  <2>12. v \in nft
    BY <2>1 DEF ConnInv, Confined
  <2>4. \A t \in Slots : (req[t].pc \in Confined)' => (req[t].vm \in nft)'
    BY <2>1, <2>2, <2>3 DEF ConnInv, Confined, Announced, Unstarted, HoldsTap
  <2>5. \A t \in Slots : (req[t].pc \in Announced)' => (ndp[req[t].vm] = req[t].v6)'
    BY <2>1, <2>2, <2>3 DEF ConnInv, Confined, Announced, Unstarted, HoldsTap
  <2>6. \A t \in Slots : (req[t].pc \in Unstarted)' => (unit[req[t].vm] = "inactive")'
    BY <2>1, <2>2, <2>3, <2>10, <2>11 DEF ConnInv, Confined, Announced, Unstarted, HoldsTap
  <2>7. RunningUnitConnected' /\ RunningVmReachable'
    BY <2>1, <2>2, <2>3, <2>10, <2>12 DEF ConnInv, RunningUnitConnected, RunningVmReachable, Registered, Confined, Announced, Unstarted, HoldsTap
  <2>8. /\ \A w \in Vms : (unit[w] # "restarting")'
        /\ \A w \in Vms : (vms[w].state = "stopped" => unit[w] = "inactive")'
        /\ (del.pc \in DeleteStopped => unit[del.vm] = "inactive")'
        /\ (del.pc = "stop" /\ del.h.state = "stopped" => unit[del.vm] = "inactive")'
    BY <2>1, <2>2, <2>3, <2>10, <2>12 DEF ConnInv, DeleteStopped, Registered, TypeOK
  <2> QED BY <2>4, <2>5, <2>6, <2>7, <2>8 DEF ConnInv
<1>21. CASE UndoNdp(s)
  <2>1. /\ req[s].pc = "undo_ndp" /\ v \in Vms
        /\ ndp' = [ndp EXCEPT ![v] = NoAddr]
        /\ UNCHANGED <<vms, taps, nft, unit, del>>
    BY <1>21 DEF UndoNdp, TypeOK
  <2>2. /\ req'[s].pc = "undo_nft"
        /\ \A t \in Slots : req'[t].vm = req[t].vm /\ req'[t].v6 = req[t].v6
        /\ \A t \in Slots : t # s => req'[t].pc = req[t].pc
    BY <1>21 DEF UndoNdp, Goto, TypeOK, CreateRequests
  <2>3. /\ v \in taps /\ ~Registered(v)
        /\ \A t \in Slots : req[t].pc \in HoldsTap /\ req[t].vm = v => t = s
        /\ ~(del.vm = v /\ del.pc \in {"stop", "ndp", "ipv6", "nft", "tap"})
    BY <2>1, HolderAlone DEF HoldsTap
  <2>10. \A w \in Vms : w # v => ndp'[w] = ndp[w]
    BY <2>1 DEF TypeOK
  <2>11. \A t \in Slots : req[t].pc \in Announced => req[t].vm \in Vms /\ req[t].pc \in HoldsTap
    BY DEF TypeOK, Announced, HoldsTap
  <2>4. \A t \in Slots : (req[t].pc \in Confined)' => (req[t].vm \in nft)'
    BY <2>1, <2>2, <2>3 DEF ConnInv, Confined, Announced, Unstarted, HoldsTap
  <2>5. \A t \in Slots : (req[t].pc \in Announced)' => (ndp[req[t].vm] = req[t].v6)'
    BY <2>1, <2>2, <2>3, <2>10, <2>11 DEF ConnInv, Confined, Announced, Unstarted, HoldsTap
  <2>6. \A t \in Slots : (req[t].pc \in Unstarted)' => (unit[req[t].vm] = "inactive")'
    BY <2>1, <2>2, <2>3 DEF ConnInv, Confined, Announced, Unstarted, HoldsTap
  <2>7. RunningUnitConnected' /\ RunningVmReachable'
    BY <2>1, <2>2, <2>3, <2>10 DEF ConnInv, RunningUnitConnected, RunningVmReachable, Registered, Confined, Announced, Unstarted, HoldsTap
  <2>8. /\ \A w \in Vms : (unit[w] # "restarting")'
        /\ \A w \in Vms : (vms[w].state = "stopped" => unit[w] = "inactive")'
        /\ (del.pc \in DeleteStopped => unit[del.vm] = "inactive")'
        /\ (del.pc = "stop" /\ del.h.state = "stopped" => unit[del.vm] = "inactive")'
    BY <2>1, <2>2, <2>3, <2>10 DEF ConnInv, DeleteStopped, Registered, TypeOK
  <2> QED BY <2>4, <2>5, <2>6, <2>7, <2>8 DEF ConnInv
<1>22. CASE UndoNft(s)
  <2>1. /\ req[s].pc = "undo_nft" /\ v \in Vms
        /\ nft \ {v} \subseteq nft'
        /\ UNCHANGED <<vms, taps, ndp, unit, del>>
    BY <1>22 DEF UndoNft, TypeOK, Torn
  <2>2. /\ req'[s].pc = "undo_tap"
        /\ \A t \in Slots : req'[t].vm = req[t].vm /\ req'[t].v6 = req[t].v6
        /\ \A t \in Slots : t # s => req'[t].pc = req[t].pc
    BY <1>22 DEF UndoNft, Goto, TypeOK, CreateRequests
  <2>3. /\ v \in taps /\ ~Registered(v)
        /\ \A t \in Slots : req[t].pc \in HoldsTap /\ req[t].vm = v => t = s
        /\ ~(del.vm = v /\ del.pc \in {"stop", "ndp", "ipv6", "nft", "tap"})
    BY <2>1, HolderAlone DEF HoldsTap
  <2>10. unit[v] = "inactive"
    BY <2>1 DEF ConnInv, Unstarted, HoldsTap
  <2>4. \A t \in Slots : (req[t].pc \in Confined)' => (req[t].vm \in nft)'
    BY <2>1, <2>2, <2>3 DEF ConnInv, Confined, Announced, Unstarted, HoldsTap
  <2>5. \A t \in Slots : (req[t].pc \in Announced)' => (ndp[req[t].vm] = req[t].v6)'
    BY <2>1, <2>2, <2>3 DEF ConnInv, Confined, Announced, Unstarted, HoldsTap
  <2>6. \A t \in Slots : (req[t].pc \in Unstarted)' => (unit[req[t].vm] = "inactive")'
    BY <2>1, <2>2, <2>3 DEF ConnInv, Confined, Announced, Unstarted, HoldsTap
  <2>7. RunningUnitConnected' /\ RunningVmReachable'
    BY <2>1, <2>2, <2>3, <2>10 DEF ConnInv, RunningUnitConnected, RunningVmReachable, Registered, Confined, Announced, Unstarted, HoldsTap
  <2>8. /\ \A w \in Vms : (unit[w] # "restarting")'
        /\ \A w \in Vms : (vms[w].state = "stopped" => unit[w] = "inactive")'
        /\ (del.pc \in DeleteStopped => unit[del.vm] = "inactive")'
        /\ (del.pc = "stop" /\ del.h.state = "stopped" => unit[del.vm] = "inactive")'
    BY <2>1, <2>2, <2>3, <2>10 DEF ConnInv, DeleteStopped, Registered, TypeOK
  <2> QED BY <2>4, <2>5, <2>6, <2>7, <2>8 DEF ConnInv
<1>23. CASE UndoTap(s)
  <2>1. /\ req[s].pc = "undo_tap" /\ v \in Vms
        /\ taps \ {v} \subseteq taps'
        /\ UNCHANGED <<vms, nft, ndp, unit, del>>
    BY <1>23 DEF UndoTap, TypeOK, Torn
  <2>2. /\ req'[s].pc = "undo_res"
        /\ \A t \in Slots : req'[t].vm = req[t].vm /\ req'[t].v6 = req[t].v6
        /\ \A t \in Slots : t # s => req'[t].pc = req[t].pc
    BY <1>23 DEF UndoTap, Goto, TypeOK, CreateRequests
  <2>3. /\ v \in taps /\ ~Registered(v)
        /\ \A t \in Slots : req[t].pc \in HoldsTap /\ req[t].vm = v => t = s
        /\ ~(del.vm = v /\ del.pc \in {"stop", "ndp", "ipv6", "nft", "tap"})
    BY <2>1, HolderAlone DEF HoldsTap
  <2>10. unit[v] = "inactive"
    BY <2>1 DEF ConnInv, Unstarted, HoldsTap
  <2>4. \A t \in Slots : (req[t].pc \in Confined)' => (req[t].vm \in nft)'
    BY <2>1, <2>2, <2>3 DEF ConnInv, Confined, Announced, Unstarted, HoldsTap
  <2>5. \A t \in Slots : (req[t].pc \in Announced)' => (ndp[req[t].vm] = req[t].v6)'
    BY <2>1, <2>2, <2>3 DEF ConnInv, Confined, Announced, Unstarted, HoldsTap
  <2>6. \A t \in Slots : (req[t].pc \in Unstarted)' => (unit[req[t].vm] = "inactive")'
    BY <2>1, <2>2, <2>3 DEF ConnInv, Confined, Announced, Unstarted, HoldsTap
  <2>7. RunningUnitConnected' /\ RunningVmReachable'
    BY <2>1, <2>2, <2>3, <2>10 DEF ConnInv, RunningUnitConnected, RunningVmReachable, Registered, Confined, Announced, Unstarted, HoldsTap
  <2>8. /\ \A w \in Vms : (unit[w] # "restarting")'
        /\ \A w \in Vms : (vms[w].state = "stopped" => unit[w] = "inactive")'
        /\ (del.pc \in DeleteStopped => unit[del.vm] = "inactive")'
        /\ (del.pc = "stop" /\ del.h.state = "stopped" => unit[del.vm] = "inactive")'
    BY <2>1, <2>2, <2>3, <2>10 DEF ConnInv, DeleteStopped, Registered, TypeOK
  <2> QED BY <2>4, <2>5, <2>6, <2>7, <2>8 DEF ConnInv
<1>24. CASE Insert(s)
  <2>1. /\ req[s].pc = "insert" /\ v \in Vms /\ del.pc = "idle"
        /\ vms'[v] = [state |-> "running", off |-> req[s].off, v6 |-> req[s].v6]
        /\ \A w \in Vms : w # v => vms'[w] = vms[w]
        /\ UNCHANGED <<taps, nft, ndp, unit, del>>
    BY <1>24 DEF Insert, TypeOK, VmsUnlocked
  <2>2. req'[s].pc = "idle" /\ \A t \in Slots : t # s => req'[t] = req[t]
    BY <1>24 DEF Insert, Return, NoRequest, TypeOK
  <2>3. v \in taps /\ v \in nft /\ ndp[v] = req[s].v6
    BY <2>1, HolderAlone DEF ConnInv, Confined, Announced, HoldsTap
  <2>4. \A t \in Slots : (req[t].pc \in Confined)' => (req[t].vm \in nft)'
    BY <2>1, <2>2 DEF ConnInv, Confined, Announced, Unstarted, HoldsTap
  <2>5. \A t \in Slots : (req[t].pc \in Announced)' => (ndp[req[t].vm] = req[t].v6)'
    BY <2>1, <2>2 DEF ConnInv, Confined, Announced, Unstarted, HoldsTap
  <2>6. \A t \in Slots : (req[t].pc \in Unstarted)' => (unit[req[t].vm] = "inactive")'
    BY <2>1, <2>2 DEF ConnInv, Confined, Announced, Unstarted, HoldsTap
  <2>7. RunningUnitConnected' /\ RunningVmReachable'
    BY <2>1, <2>2, <2>3 DEF ConnInv, RunningUnitConnected, RunningVmReachable, Registered, Confined, Announced, Unstarted, HoldsTap
  <2>8. /\ \A w \in Vms : (unit[w] # "restarting")'
        /\ \A w \in Vms : (vms[w].state = "stopped" => unit[w] = "inactive")'
        /\ (del.pc \in DeleteStopped => unit[del.vm] = "inactive")'
        /\ (del.pc = "stop" /\ del.h.state = "stopped" => unit[del.vm] = "inactive")'
    BY <2>1, <2>2, <2>3 DEF ConnInv, DeleteStopped, Registered, TypeOK
  <2> QED BY <2>4, <2>5, <2>6, <2>7, <2>8 DEF ConnInv
<1>25. CASE ReleaseIpv6(s)
  BY <1>25, QuietConnReturn DEF ReleaseIpv6
<1> QED
  BY <1>1, <1>2, <1>3, <1>4, <1>5, <1>6, <1>7, <1>8, <1>9, <1>10, <1>11, <1>12, <1>13, <1>14, <1>15, <1>16, <1>17, <1>18, <1>19, <1>20, <1>21, <1>22, <1>23, <1>24, <1>25 DEF CreateStep

\* A step that leaves the host's objects and the announced ranges alone, starts
\* no call and moves the delete_vm call past none of its effects preserves the
\* invariant.
LEMMA QuietStepConn ==
    ASSUME TypeOK, ConnInv,
           \A s \in Slots : req'[s] = req[s] \/ req'[s].pc \in {"idle", "offset"},
           del'.pc = "idle" \/ del' = del
              \/ /\ del'.vm = del.vm /\ del.pc \in DeleteStopped
                 /\ del'.pc # "stop",
           UNCHANGED <<vms, ndp, taps, nft, unit>>
    PROVE  ConnInv'
<1>1. /\ \A t \in Slots : (req[t].pc \in Confined)' => (req[t].vm \in nft)'
      /\ \A t \in Slots : (req[t].pc \in Announced)' => (ndp[req[t].vm] = req[t].v6)'
      /\ \A t \in Slots : (req[t].pc \in Unstarted)' => (unit[req[t].vm] = "inactive")'
  BY DEF ConnInv, Confined, Announced, Unstarted, HoldsTap
<1>2. /\ (del.pc \in DeleteStopped => unit[del.vm] = "inactive")'
      /\ (del.pc = "stop" /\ del.h.state = "stopped" => unit[del.vm] = "inactive")'
  BY DEF ConnInv, DeleteStopped
<1> QED BY <1>1, <1>2 DEF ConnInv, RunningUnitConnected, RunningVmReachable

\* Every step of delete_vm preserves the invariant: QEMU is stopped before
\* anything is taken from it, and nobody can start it again in between.
LEMMA DeleteStepConn ==
    ASSUME TypeOK, TapInv, ConnInv, "stop_fails" \notin Faults, DeleteStep
    PROVE  ConnInv'
<1> DEFINE v == del.vm
<1> USE DEF DeleteAt, DeleteGoto
<1>1. CASE DeleteStop
  <2>1. /\ del.pc = "stop" /\ v \in Vms /\ del'.pc = "ndp" /\ del'.vm = v
        /\ UNCHANGED <<vms, ndp, taps, nft, req>>
    BY <1>1 DEF DeleteStop, TypeOK
  <2>2. unit'[v] = "inactive" /\ \A w \in Vms : unit'[w] \in {unit[w], "inactive"}
    BY <1>1, <2>1 DEF DeleteStop, ConnInv, TypeOK
  <2>3. \A t \in Slots : req[t].pc \in Unstarted => req[t].vm \in Vms
    BY DEF TypeOK, Unstarted, HoldsTap
  <2>4. /\ \A t \in Slots : (req[t].pc \in Confined)' => (req[t].vm \in nft)'
        /\ \A t \in Slots : (req[t].pc \in Announced)' => (ndp[req[t].vm] = req[t].v6)'
        /\ \A t \in Slots : (req[t].pc \in Unstarted)' => (unit[req[t].vm] = "inactive")'
    BY <2>1, <2>2, <2>3 DEF ConnInv
  <2>5. RunningUnitConnected' /\ RunningVmReachable'
    BY <2>1, <2>2 DEF ConnInv, RunningUnitConnected, RunningVmReachable
  <2>6. /\ \A w \in Vms : (unit[w] # "restarting")'
        /\ \A w \in Vms : (vms[w].state = "stopped" => unit[w] = "inactive")'
        /\ (del.pc \in DeleteStopped => unit[del.vm] = "inactive")'
        /\ (del.pc = "stop" /\ del.h.state = "stopped" => unit[del.vm] = "inactive")'
    BY <2>1, <2>2 DEF ConnInv
  <2> QED BY <2>4, <2>5, <2>6 DEF ConnInv
<1>2. CASE DeleteNdp \/ DeleteNft \/ DeleteTap
  <2>1. /\ del.pc \in {"ndp", "nft", "tap"} /\ v \in Vms
        /\ del'.pc \in {"ipv6", "tap", "dhcp"} /\ del'.vm = v
        /\ UNCHANGED <<vms, unit, req>>
    BY <1>2 DEF DeleteNdp, DeleteNft, DeleteTap, TypeOK
  <2>2. /\ \A w \in Vms : w # v => ndp'[w] = ndp[w]
        /\ nft \ {v} \subseteq nft' /\ taps \ {v} \subseteq taps'
    BY <1>2 DEF DeleteNdp, DeleteNft, DeleteTap, Torn, TypeOK
  <2>3. unit[v] = "inactive"
    BY <2>1 DEF ConnInv, DeleteStopped
  <2>4. ~Registered(v)
    BY <2>1 DEF TapInv, Exclusion
  <2>5. \A s \in Slots : req[s].pc \in HoldsTap => req[s].vm # v /\ req[s].vm \in Vms
    BY <2>1, HolderAlone
  <2>6. Confined \subseteq HoldsTap /\ Announced \subseteq HoldsTap
    BY DEF Confined, Announced, HoldsTap
  <2>7. /\ \A t \in Slots : (req[t].pc \in Confined)' => (req[t].vm \in nft)'
        /\ \A t \in Slots : (req[t].pc \in Announced)' => (ndp[req[t].vm] = req[t].v6)'
        /\ \A t \in Slots : (req[t].pc \in Unstarted)' => (unit[req[t].vm] = "inactive")'
    BY <2>1, <2>2, <2>5, <2>6 DEF ConnInv
  <2>8. RunningUnitConnected' /\ RunningVmReachable'
    BY <2>1, <2>2, <2>3, <2>4
    DEF ConnInv, RunningUnitConnected, RunningVmReachable, Registered
  <2>9. /\ \A w \in Vms : (unit[w] # "restarting")'
        /\ \A w \in Vms : (vms[w].state = "stopped" => unit[w] = "inactive")'
        /\ (del.pc \in DeleteStopped => unit[del.vm] = "inactive")'
        /\ (del.pc = "stop" /\ del.h.state = "stopped" => unit[del.vm] = "inactive")'
    BY <2>1, <2>3 DEF ConnInv
  <2> QED BY <2>7, <2>8, <2>9 DEF ConnInv
<1>3. CASE DeleteIpv6
  <2>1. /\ del.pc \in DeleteStopped /\ del'.vm = del.vm /\ del'.pc # "stop"
        /\ UNCHANGED <<vms, ndp, taps, nft, unit, req>>
    BY <1>3 DEF DeleteIpv6, DeleteStopped, TypeOK
  <2> QED BY <2>1, QuietStepConn
<1>4. CASE DeleteDhcp \/ DeleteOffset \/ DeleteFile
  <2>1. /\ del'.pc \in {"offset", "file", "idle"}
        /\ UNCHANGED <<vms, ndp, taps, nft, unit, req>>
    BY <1>4 DEF DeleteDhcp, DeleteOffset, DeleteFile, NoDelete, TypeOK
  <2> QED BY <2>1
    DEF ConnInv, RunningUnitConnected, RunningVmReachable, DeleteStopped
<1> QED BY <1>1, <1>2, <1>3, <1>4 DEF DeleteStep

\* Every step preserves the invariant, when systemd restarts failed units at
\* once and `systemctl stop` works; any other fault may happen.
LEMMA NextConn ==
    ASSUME "stop_fails" \notin Faults, "slow_restart" \notin Faults,
           TypeOK, TapInv, ConnInv, [Next]_vars
    PROVE  ConnInv'
<1>1. ASSUME NEW s \in Slots, NEW v \in Vms, CheckDuplicate(s, v) PROVE ConnInv'
  <2>1. /\ \A t \in Slots : req'[t] = req[t] \/ req'[t].pc = "offset"
        /\ UNCHANGED <<vms, ndp, taps, nft, unit, del>>
    BY <1>1 DEF CheckDuplicate, NoRequest, TypeOK
  <2> QED BY <2>1, QuietStepConn
<1>2. ASSUME NEW s \in Slots, CreateStep(s) PROVE ConnInv'
  BY <1>2, CreateStepConn
<1>3. ASSUME NEW s \in Slots, CancelCreate(s) PROVE ConnInv'
  BY <1>3, QuietConnReturn DEF CancelCreate
<1>4. ASSUME NEW v \in Vms, BeginDelete(v) PROVE ConnInv'
  <2>1. /\ Registered(v) /\ vms'[v].state = "absent"
        /\ \A w \in Vms : w # v => vms'[w] = vms[w]
        /\ del'.pc = "stop" /\ del'.vm = v /\ del'.h = vms[v]
        /\ UNCHANGED <<ndp, taps, nft, unit, req>>
    BY <1>4 DEF BeginDelete, TypeOK, NoHandle
  <2>2. RunningUnitConnected' /\ RunningVmReachable'
    BY <2>1 DEF ConnInv, RunningUnitConnected, RunningVmReachable
  <2>3. /\ \A w \in Vms : (vms[w].state = "stopped" => unit[w] = "inactive")'
        /\ (del.pc \in DeleteStopped => unit[del.vm] = "inactive")'
        /\ (del.pc = "stop" /\ del.h.state = "stopped" => unit[del.vm] = "inactive")'
    BY <2>1 DEF ConnInv, DeleteStopped
  <2> QED BY <2>1, <2>2, <2>3 DEF ConnInv
<1>5. CASE DeleteStep
  BY <1>5, DeleteStepConn
<1>6. CASE CancelDelete
  <2>1. del'.pc = "idle" /\ UNCHANGED <<vms, ndp, taps, nft, unit, req>>
    BY <1>6 DEF CancelDelete, NoDelete
  <2> QED BY <2>1, QuietStepConn
<1>7. CASE Crash \/ Reboot
  <2>1. /\ \A s \in Slots : req'[s].pc = "idle"
        /\ \A v \in Vms : vms'[v].state = "absent"
        /\ del'.pc = "idle"
    BY <1>7 DEF Crash, Reboot, ForgetMemory, NoRequest, NoDelete, NoHandle
  <2>2. /\ RunningUnitConnected'
        /\ \A v \in Vms : (unit[v] # "restarting")'
    BY <1>7 DEF Crash, Reboot, ConnInv, RunningUnitConnected
  <2>3. RunningVmReachable'
    BY <2>1 DEF RunningVmReachable
  <2> QED BY <2>1, <2>2, <2>3
    DEF ConnInv, Confined, Announced, Unstarted, HoldsTap, DeleteStopped
<1>8. ASSUME NEW v \in Vms, Recover(v) PROVE ConnInv'
  <2>1. /\ phase = "recovering" /\ v \in pending
        /\ \A w \in Vms : w # v => vms'[w] = vms[w] /\ ndp'[w] = ndp[w]
        /\ nft \subseteq nft'
        /\ UNCHANGED <<taps, unit, req, del>>
    BY <1>8 DEF Recover, TypeOK
  <2>2. del.pc = "idle" /\ \A s \in Slots : req[s].pc = "idle"
    BY <2>1 DEF TapInv, Exclusion
  <2>3. \/ unit[v] = "active" /\ vms'[v].state = "running" /\ ndp'[v] = vms'[v].v6
        \/ unit[v] # "active" /\ vms'[v].state = "stopped"
    BY <1>8 DEF Recover, TypeOK
  <2>4. unit[v] # "active" => unit[v] = "inactive"
    BY DEF ConnInv, TypeOK
  <2>5. RunningUnitConnected' /\ RunningVmReachable'
    BY <2>1, <2>3 DEF ConnInv, RunningUnitConnected, RunningVmReachable
  <2>6. \A w \in Vms : (vms[w].state = "stopped" => unit[w] = "inactive")'
    BY <2>1, <2>3, <2>4 DEF ConnInv
  <2> QED BY <2>1, <2>2, <2>5, <2>6
    DEF ConnInv, Confined, Announced, Unstarted, HoldsTap, DeleteStopped
<1>9. CASE Serve \/ LoadFails
  BY <1>9, QuietStepConn DEF Serve, LoadFails
<1>10. ASSUME NEW v \in Vms, UnitExits(v) \/ UnitFails(v) \/ UnitRestarts(v) PROVE ConnInv'
  <2>1. UnitExits(v)
    BY <1>10 DEF UnitFails, UnitRestarts, ConnInv
  <2>2. /\ \A w \in Vms : unit'[w] \in {unit[w], "inactive"}
        /\ UNCHANGED <<vms, ndp, taps, nft, req, del>>
    BY <2>1 DEF UnitExits, TypeOK
  <2>3. \A t \in Slots : req[t].pc \in Unstarted => req[t].vm \in Vms
    BY DEF TypeOK, Unstarted, HoldsTap
  <2>4. del.pc # "idle" => del.vm \in Vms
    BY DEF TypeOK
  <2>5. /\ \A t \in Slots : (req[t].pc \in Unstarted)' => (unit[req[t].vm] = "inactive")'
        /\ (del.pc \in DeleteStopped => unit[del.vm] = "inactive")'
        /\ (del.pc = "stop" /\ del.h.state = "stopped" => unit[del.vm] = "inactive")'
    BY <2>2, <2>3, <2>4 DEF ConnInv, DeleteStopped
  <2>6. RunningUnitConnected' /\ RunningVmReachable'
    BY <2>2 DEF ConnInv, RunningUnitConnected, RunningVmReachable
  <2> QED BY <2>2, <2>5, <2>6 DEF ConnInv
<1>11. CASE UNCHANGED vars
  BY <1>11 DEF vars, ConnInv, RunningUnitConnected, RunningVmReachable
<1> QED
  BY <1>1, <1>2, <1>3, <1>4, <1>5, <1>6, <1>7, <1>8, <1>9, <1>10, <1>11
  DEF Next, RecoverStep

LEMMA ConnAlways ==
    ASSUME "stop_fails" \notin Faults, "slow_restart" \notin Faults
    PROVE  Spec => []ConnInv
<1>1. Init => ConnInv
  BY DEF Init, ConnInv, RunningUnitConnected, RunningVmReachable, NoHandle, NoRequest,
         NoDelete, Confined, Announced, Unstarted, HoldsTap, DeleteStopped
<1>2. TypeOK /\ TapInv /\ ConnInv /\ [Next]_vars => ConnInv'
  BY NextConn
<1> QED
  BY <1>1, <1>2, TapInvariant, PTL DEF Spec

\* When failed units restart at once and stopping works, no QEMU ever runs
\* without its interface and its chains: no interleaving of create_vm (its
\* failure paths included), delete_vm, cancellation, failed cleanup, restart
\* and recovery takes them away.
THEOREM RunningStaysConnected ==
    ASSUME "stop_fails" \notin Faults, "slow_restart" \notin Faults
    PROVE  Spec => []RunningUnitConnected
<1>1. ConnInv => RunningUnitConnected
  BY DEF ConnInv
<1> QED
  BY <1>1, ConnAlways, PTL

\* Under the same two conditions every VM that the API reports as running has
\* its interface, its chains and its NDP range.
THEOREM RunningStaysReachable ==
    ASSUME "stop_fails" \notin Faults, "slow_restart" \notin Faults
    PROVE  Spec => []RunningVmReachable
<1>1. ConnInv => RunningVmReachable
  BY DEF ConnInv
<1> QED
  BY <1>1, ConnAlways, PTL

-----------------------------------------------------------------------------
(* IPv4 addresses are unique *)

CreateHolds(s) == req[s].pc \notin {"idle", "offset"}
DeleteHolds    == del.pc \notin {"idle", "file"}

\* Until the first restart every offset in somebody's hands is recorded as used
\* and is in one pair of hands.
OffsetsUsed ==
    /\ \A v \in Vms : Registered(v) => vms[v].off \in used
    /\ \A s \in Slots : CreateHolds(s) => req[s].off \in used
    /\ DeleteHolds => del.h.off \in used

OffsetsDistinct ==
    /\ \A v, w \in Vms : Registered(v) /\ Registered(w) /\ vms[v].off = vms[w].off => v = w
    /\ \A s, t \in Slots : CreateHolds(s) /\ CreateHolds(t) /\ req[s].off = req[t].off => s = t
    /\ \A v \in Vms, s \in Slots : Registered(v) /\ CreateHolds(s) => vms[v].off # req[s].off
    /\ \A v \in Vms : Registered(v) /\ DeleteHolds => vms[v].off # del.h.off
    /\ \A s \in Slots : CreateHolds(s) /\ DeleteHolds => req[s].off # del.h.off

IpInv == crashes = 0 => phase = "up" /\ OffsetsUsed /\ OffsetsDistinct

\* A step after which every holder held the same offset before, and no offset
\* was freed, preserves the invariant.
LEMMA FewerHolders ==
    ASSUME IpInv, crashes' = crashes, phase' = phase \/ phase' = "up",
           \A v \in Vms : Registered(v)' => Registered(v) /\ vms'[v].off = vms[v].off,
           \A s \in Slots : CreateHolds(s)' => CreateHolds(s) /\ req'[s].off = req[s].off,
           DeleteHolds' => DeleteHolds /\ del'.h.off = del.h.off,
           used \subseteq used'
    PROVE  IpInv'
<1> SUFFICES ASSUME crashes = 0 PROVE phase' = "up" /\ OffsetsUsed' /\ OffsetsDistinct'
  BY DEF IpInv
<1>1. phase = "up" /\ OffsetsUsed /\ OffsetsDistinct
  BY DEF IpInv
<1>2. OffsetsUsed'
  BY <1>1 DEF OffsetsUsed
<1>3. OffsetsDistinct'
  BY <1>1 DEF OffsetsDistinct
<1> QED BY <1>1, <1>2, <1>3

\* Every step of create_vm preserves the invariant.
LEMMA CreateStepIp ==
    ASSUME TypeOK, IpInv, NEW s \in Slots, CreateStep(s)
    PROVE  IpInv'
<1> USE DEF At
<1>1. CASE TakeOffset(s)
  <2> SUFFICES ASSUME crashes = 0 PROVE phase' = "up" /\ OffsetsUsed' /\ OffsetsDistinct'
    BY <1>1 DEF IpInv, TakeOffset
  <2>1. phase = "up" /\ OffsetsUsed /\ OffsetsDistinct
    BY DEF IpInv
  <2>2. PICK o \in Offsets :
           /\ IsLowestFree(o)
           /\ used' = used \cup {o}
           /\ req' = [req EXCEPT ![s] = [@ EXCEPT !.pc = "ipv6", !.off = o]]
    BY <1>1 DEF TakeOffset
  <2>3. o \notin used
    BY <2>2 DEF IsLowestFree
  <2>4. /\ req'[s].off = o
        /\ \A t \in Slots : t # s => req'[t] = req[t]
    BY <2>2 DEF TypeOK
  <2>5. UNCHANGED <<phase, vms, del>>
    BY <1>1 DEF TakeOffset
  <2>6. OffsetsUsed'
    BY <2>1, <2>2, <2>4, <2>5 DEF OffsetsUsed, CreateHolds, DeleteHolds, Registered
  <2>7. OffsetsDistinct'
    BY <2>1, <2>3, <2>4, <2>5
    DEF OffsetsUsed, OffsetsDistinct, CreateHolds, DeleteHolds, Registered
  <2> QED BY <2>1, <2>5, <2>6, <2>7
<1>2. CASE Insert(s)
  <2> SUFFICES ASSUME crashes = 0 PROVE phase' = "up" /\ OffsetsUsed' /\ OffsetsDistinct'
    BY <1>2 DEF IpInv, Insert
  <2>1. phase = "up" /\ OffsetsUsed /\ OffsetsDistinct
    BY DEF IpInv
  <2> DEFINE v == req[s].vm
  <2>2. CreateHolds(s) /\ v \in Vms
    BY <1>2 DEF Insert, CreateHolds, TypeOK
  <2>3. /\ vms'[v].off = req[s].off
        /\ \A w \in Vms : w # v => vms'[w] = vms[w]
        /\ UNCHANGED <<phase, used, del>>
    BY <1>2, <2>2 DEF Insert, TypeOK
  <2>4. /\ ~CreateHolds(s)'
        /\ \A t \in Slots : t # s => req'[t] = req[t]
    BY <1>2 DEF Insert, Return, NoRequest, CreateHolds, TypeOK
  <2>5. OffsetsUsed'
    BY <2>1, <2>2, <2>3, <2>4 DEF OffsetsUsed, CreateHolds, DeleteHolds, Registered
  <2>6. /\ \A t \in Slots : CreateHolds(t)' => t # s /\ CreateHolds(t) /\ req'[t].off = req[t].off
        /\ \A w \in Vms : w # v /\ Registered(w)' => Registered(w) /\ vms'[w].off = vms[w].off
        /\ DeleteHolds' => DeleteHolds /\ del'.h.off = del.h.off
    BY <2>3, <2>4 DEF CreateHolds, Registered, DeleteHolds
  <2>7. OffsetsDistinct'
    BY <2>1, <2>2, <2>3, <2>6 DEF OffsetsDistinct
  <2> QED BY <2>1, <2>3, <2>5, <2>7
<1>3. CASE ~TakeOffset(s) /\ ~Insert(s)
  <2>1. UNCHANGED <<phase, vms, del, crashes, used>>
    BY <1>3
    DEF CreateStep, OffsetsExhausted, AllocateIpv6, AllocateIpv6Fails,
        WriteDhcp, WriteDhcpFails, WriteDhcp6, WriteDhcp6Fails, ReleaseIpv6, CreateTap,
        CreateTapFails, AddIpv6ToTap, SetupNft, SetupNftFails, AddNdpRange,
        Prepare, PrepareFails, Spawn, SpawnFails, UndoNdp, UndoNft, UndoTap,
        UndoReservations, Save
  <2>2. \A t \in Slots : CreateHolds(t)' => CreateHolds(t) /\ req'[t].off = req[t].off
    <3>1. CASE AllocateIpv6(s)
      BY <3>1 DEF AllocateIpv6, CreateHolds, TypeOK
    <3>2. CASE Return(s)
      BY <3>2 DEF Return, CreateHolds, NoRequest, TypeOK
    <3>3. ASSUME NEW pc \in CreatePcs, Goto(s, pc), CreateHolds(s)
          PROVE  \A t \in Slots : CreateHolds(t)' => CreateHolds(t) /\ req'[t].off = req[t].off
      BY <3>3 DEF Goto, CreateHolds, TypeOK
    <3>4. \/ AllocateIpv6(s) \/ Return(s)
          \/ CreateHolds(s) /\ \E pc \in CreatePcs : Goto(s, pc)
      BY <1>3
      DEF CreateStep, OffsetsExhausted, AllocateIpv6Fails, CreatePcs, CreateHolds,
          WriteDhcp, WriteDhcpFails, WriteDhcp6, WriteDhcp6Fails, ReleaseIpv6, CreateTap,
          CreateTapFails, AddIpv6ToTap, SetupNft, SetupNftFails, AddNdpRange,
          Prepare, PrepareFails, Spawn, SpawnFails, UndoNdp, UndoNft, UndoTap,
          UndoReservations, Save
    <3> QED BY <3>1, <3>2, <3>3, <3>4
  <2> QED BY <2>1, <2>2, FewerHolders DEF Registered, DeleteHolds
<1> QED BY <1>1, <1>2, <1>3

\* Every step of the specification preserves the invariant.
LEMMA NextIp == TypeOK /\ IpInv /\ [Next]_vars => IpInv'
<1> SUFFICES ASSUME TypeOK, IpInv, [Next]_vars PROVE IpInv'
  OBVIOUS
<1> USE DEF DeleteAt, DeleteGoto
<1>1. ASSUME NEW s \in Slots, NEW v \in Vms, CheckDuplicate(s, v) PROVE IpInv'
  <2>1. \A t \in Slots : CreateHolds(t)' => CreateHolds(t) /\ req'[t].off = req[t].off
    BY <1>1 DEF CheckDuplicate, CreateHolds, NoRequest, TypeOK
  <2>2. UNCHANGED <<phase, vms, del, crashes, used>>
    BY <1>1 DEF CheckDuplicate
  <2> QED BY <2>1, <2>2, FewerHolders DEF Registered, DeleteHolds
<1>2. ASSUME NEW s \in Slots, CreateStep(s) PROVE IpInv'
  BY <1>2, CreateStepIp
<1>3. ASSUME NEW s \in Slots, CancelCreate(s) PROVE IpInv'
  <2>1. \A t \in Slots : CreateHolds(t)' => CreateHolds(t) /\ req'[t].off = req[t].off
    BY <1>3 DEF CancelCreate, Return, CreateHolds, NoRequest, TypeOK
  <2>2. UNCHANGED <<phase, vms, del, crashes, used>>
    BY <1>3 DEF CancelCreate
  <2> QED BY <2>1, <2>2, FewerHolders DEF Registered, DeleteHolds
<1>4. ASSUME NEW v \in Vms, BeginDelete(v) PROVE IpInv'
  <2> SUFFICES ASSUME crashes = 0 PROVE phase' = "up" /\ OffsetsUsed' /\ OffsetsDistinct'
    BY <1>4 DEF IpInv, BeginDelete
  <2>1. phase = "up" /\ OffsetsUsed /\ OffsetsDistinct
    BY DEF IpInv
  <2>2. /\ Registered(v) /\ ~Registered(v)'
        /\ \A w \in Vms : w # v => vms'[w] = vms[w]
        /\ del'.h.off = vms[v].off
        /\ UNCHANGED <<phase, used, req>>
    BY <1>4 DEF BeginDelete, TypeOK, NoHandle, Registered
  <2>3. /\ \A w \in Vms : Registered(w)' => w # v /\ Registered(w) /\ vms'[w].off = vms[w].off
        /\ \A s \in Slots : CreateHolds(s)' => CreateHolds(s) /\ req'[s].off = req[s].off
    BY <2>2 DEF CreateHolds, Registered
  <2>4. OffsetsUsed'
    BY <2>1, <2>2, <2>3 DEF OffsetsUsed
  <2>5. OffsetsDistinct'
    BY <2>1, <2>2, <2>3 DEF OffsetsDistinct
  <2> QED BY <2>1, <2>2, <2>4, <2>5
<1>5. CASE DeleteOffset
  <2> SUFFICES ASSUME crashes = 0 PROVE phase' = "up" /\ OffsetsUsed' /\ OffsetsDistinct'
    BY <1>5 DEF IpInv, DeleteOffset
  <2>1. phase = "up" /\ OffsetsUsed /\ OffsetsDistinct
    BY DEF IpInv
  <2>2. /\ DeleteHolds /\ ~DeleteHolds'
        /\ used' = used \ {del.h.off}
        /\ UNCHANGED <<phase, vms, req>>
    BY <1>5 DEF DeleteOffset, DeleteHolds, TypeOK
  <2>3. /\ \A w \in Vms : Registered(w)' => Registered(w) /\ vms'[w].off = vms[w].off
        /\ \A s \in Slots : CreateHolds(s)' => CreateHolds(s) /\ req'[s].off = req[s].off
    BY <2>2 DEF CreateHolds, Registered
  <2>4. OffsetsUsed'
    BY <2>1, <2>2, <2>3 DEF OffsetsUsed, OffsetsDistinct
  <2>5. OffsetsDistinct'
    BY <2>1, <2>2, <2>3 DEF OffsetsDistinct
  <2> QED BY <2>1, <2>2, <2>4, <2>5
<1>6. CASE DeleteStop \/ DeleteNdp \/ DeleteIpv6 \/ DeleteNft \/ DeleteTap
           \/ DeleteDhcp \/ DeleteFile \/ CancelDelete
  <2>1. DeleteHolds' => DeleteHolds /\ del'.h.off = del.h.off
    BY <1>6
    DEF DeleteStop, DeleteNdp, DeleteIpv6, DeleteNft, DeleteTap, DeleteDhcp, DeleteFile,
        CancelDelete, DeleteHolds, NoDelete, TypeOK
  <2>2. UNCHANGED <<phase, vms, req, crashes, used>>
    BY <1>6
    DEF DeleteStop, DeleteNdp, DeleteIpv6, DeleteNft, DeleteTap, DeleteDhcp, DeleteFile,
        CancelDelete
  <2> QED BY <2>1, <2>2, FewerHolders DEF Registered, CreateHolds
<1>7. CASE Crash \/ Reboot
  <2>1. crashes \in Nat /\ crashes' = crashes + 1
    BY <1>7, ConstantsAssumption DEF Crash, Reboot, ForgetMemory, TypeOK
  <2>2. crashes' # 0
    BY <2>1
  <2> QED BY <2>2 DEF IpInv
<1>8. ASSUME NEW v \in Vms, Recover(v) PROVE IpInv'
  BY <1>8 DEF IpInv, Recover
<1>9. CASE Serve \/ LoadFails
  BY <1>9 DEF IpInv, Serve, LoadFails
<1>10. CASE UNCHANGED <<phase, vms, req, del, crashes, used>>
  BY <1>10, FewerHolders DEF Registered, CreateHolds, DeleteHolds
<1>11. ASSUME NEW v \in Vms, UnitExits(v) \/ UnitFails(v) \/ UnitRestarts(v) PROVE IpInv'
  BY <1>10, <1>11 DEF UnitExits, UnitFails, UnitRestarts
<1>12. CASE UNCHANGED vars
  BY <1>10, <1>12 DEF vars
<1> QED
  BY <1>1, <1>2, <1>3, <1>4, <1>5, <1>6, <1>7, <1>8, <1>9, <1>11, <1>12
  DEF Next, DeleteStep, RecoverStep

\* The invariant says of the holders what UniqueIp says.
LEMMA IpInvUnique == IpInv => UniqueIp
<1> SUFFICES ASSUME crashes = 0, OffsetsUsed, OffsetsDistinct
             PROVE  /\ \A a, b \in Holders : a.off = b.off => a = b
                    /\ \A a \in Holders : a.off \in used
  BY DEF IpInv, UniqueIp
<1>1. ASSUME NEW a \in Holders
      PROVE  \/ \E v \in Vms : Registered(v) /\ a = [kind |-> "vm", who |-> v, off |-> vms[v].off]
             \/ \E s \in Slots : /\ CreateHolds(s)
                                 /\ a = [kind |-> "create", who |-> s, off |-> req[s].off]
             \/ DeleteHolds /\ a = [kind |-> "delete", who |-> del.vm, off |-> del.h.off]
  BY DEF Holders, CreateHolds, DeleteHolds
<1>2. ASSUME NEW a \in Holders, NEW b \in Holders, a.off = b.off PROVE a = b
  BY <1>1, <1>2 DEF OffsetsDistinct
<1>3. ASSUME NEW a \in Holders PROVE a.off \in used
  BY <1>1 DEF OffsetsUsed
<1> QED BY <1>2, <1>3

\* Until the first restart no two VMs, registered, being created or being
\* deleted, share an IPv4 address, and none of their addresses counts as free:
\* for any number of VMs and concurrent calls, with every fault and cancellation.
THEOREM AddressesUnique == Spec => []UniqueIp
<1>1. Init => IpInv
  BY DEF Init, IpInv, OffsetsUsed, OffsetsDistinct, CreateHolds, DeleteHolds, Registered,
         NoHandle, NoRequest, NoDelete
<1>2. TypeOK /\ IpInv /\ [Next]_vars => IpInv'
  BY NextIp
<1>3. IpInv => UniqueIp
  BY IpInvUnique
<1> QED
  BY <1>1, <1>2, <1>3, TypeCorrect, PTL DEF Spec

=============================================================================
