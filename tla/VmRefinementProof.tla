--------------------------- MODULE VmRefinementProof ---------------------------
(***************************************************************************)
(* VmManager implements VmRegistry: for every set of VMs, of concurrent     *)
(* create_vm calls and of addresses, and any number of restarts.            *)
(***************************************************************************)
EXTENDS VmRefinement, VmManagerProof

USE DEF boot, memory, disk, host

\* Every offset in a handle, a state file or a call is one that create_vm
\* hands out (0 where there is none), and what recover_vms still has to load
\* has a state file.
RefInv ==
    /\ \A v \in Vms : vms[v].off \in 0..MaxOffset /\ files[v].off \in 0..MaxOffset
    /\ \A s \in Slots : req[s].off \in 0..MaxOffset
    /\ \A v \in pending : files[v] # NoFile

\* Steps that touch neither handles, state files nor offsets keep it.
LEMMA QuietRef ==
    ASSUME TypeOK, RefInv,
           UNCHANGED <<vms, files>>, pending' \subseteq pending,
           \A s \in Slots : req'[s].off \in 0..MaxOffset
    PROVE  RefInv'
BY DEF RefInv, TypeOK

\* Every step of create_vm keeps it.
LEMMA CreateStepRef ==
    ASSUME TypeOK, TapInv, RefInv, NEW s \in Slots, CreateStep(s)
    PROVE  RefInv'
<1>0. req[s].pc # "idle"
  BY DEF CreateStep, TakeOffset, OffsetsExhausted, AllocateIpv6, AllocateIpv6Fails,
         WriteDhcp, WriteDhcpFails, WriteDhcp6, WriteDhcp6Fails, ReleaseIpv6, CreateTap,
         CreateTapFails, AddIpv6ToTap, SetupNft, SetupNftFails, AddNdpRange,
         Prepare, PrepareFails, Spawn, SpawnFails, UndoNdp, UndoNft, UndoTap,
         UndoReservations, Save, Insert, At
<1>1. 0 \in 0..MaxOffset
  BY ConstantsAssumption
<1>2. pending = {}
  BY <1>0 DEF TapInv, Exclusion
<1>3. UNCHANGED pending
  BY DEF CreateStep, TakeOffset, OffsetsExhausted, AllocateIpv6, AllocateIpv6Fails,
         WriteDhcp, WriteDhcpFails, WriteDhcp6, WriteDhcp6Fails, ReleaseIpv6, CreateTap,
         CreateTapFails, AddIpv6ToTap, SetupNft, SetupNftFails, AddNdpRange,
         Prepare, PrepareFails, Spawn, SpawnFails, UndoNdp, UndoNft, UndoTap,
         UndoReservations, Save, Insert
<1>4. \A t \in Slots : req'[t].off \in 0..MaxOffset
  <2>1. CASE TakeOffset(s)
    <3>1. PICK o \in Offsets :
             req' = [req EXCEPT ![s] = [@ EXCEPT !.pc = "ipv6", !.off = o]]
      BY <2>1 DEF TakeOffset
    <3>2. o \in 0..MaxOffset
      BY ConstantsAssumption DEF Offsets
    <3> QED BY <3>1, <3>2 DEF RefInv, TypeOK
  <2>2. CASE AllocateIpv6(s)
    BY <2>2 DEF AllocateIpv6, RefInv, TypeOK
  <2>3. CASE Return(s)
    BY <2>3, <1>1 DEF Return, NoRequest, RefInv, TypeOK
  <2>4. ASSUME NEW pc \in CreatePcs, Goto(s, pc)
        PROVE  \A t \in Slots : req'[t].off \in 0..MaxOffset
    BY <2>4 DEF Goto, RefInv, TypeOK
  <2>5. \/ TakeOffset(s) \/ AllocateIpv6(s) \/ Return(s)
        \/ \E pc \in CreatePcs : Goto(s, pc)
    BY DEF CreateStep, OffsetsExhausted, AllocateIpv6Fails, CreatePcs,
           WriteDhcp, WriteDhcpFails, WriteDhcp6, WriteDhcp6Fails, ReleaseIpv6, CreateTap,
           CreateTapFails, AddIpv6ToTap, SetupNft, SetupNftFails, AddNdpRange,
           Prepare, PrepareFails, Spawn, SpawnFails, UndoNdp, UndoNft, UndoTap,
           UndoReservations, Save, Insert
  <2> QED BY <2>1, <2>2, <2>3, <2>4, <2>5
<1>5. CASE Save(s)
  <2>1. UNCHANGED vms
    BY <1>5 DEF Save
  <2>2. \A v \in Vms : files'[v].off \in 0..MaxOffset
    BY <1>5 DEF Save, RefInv, TypeOK
  <2> QED BY <1>2, <1>3, <1>4, <2>1, <2>2 DEF RefInv
<1>6. CASE Insert(s)
  <2>1. UNCHANGED files
    BY <1>6 DEF Insert
  <2>2. \A v \in Vms : vms'[v].off \in 0..MaxOffset
    BY <1>6 DEF Insert, RefInv, TypeOK
  <2> QED BY <1>2, <1>3, <1>4, <2>1, <2>2 DEF RefInv
<1>7. CASE ~Save(s) /\ ~Insert(s)
  <2>1. UNCHANGED <<vms, files>>
    BY <1>7
    DEF CreateStep, TakeOffset, OffsetsExhausted, AllocateIpv6, AllocateIpv6Fails,
        WriteDhcp, WriteDhcpFails, WriteDhcp6, WriteDhcp6Fails, ReleaseIpv6, CreateTap,
        CreateTapFails, AddIpv6ToTap, SetupNft, SetupNftFails, AddNdpRange,
        Prepare, PrepareFails, Spawn, SpawnFails, UndoNdp, UndoNft, UndoTap,
        UndoReservations
  <2> QED BY <1>3, <1>4, <2>1, QuietRef
<1> QED BY <1>5, <1>6, <1>7

\* Every step of the specification keeps it.
LEMMA NextRef == TypeOK /\ TapInv /\ RefInv /\ [Next]_vars => RefInv'
<1> SUFFICES ASSUME TypeOK, TapInv, RefInv, [Next]_vars PROVE RefInv'
  OBVIOUS
<1>0. 0 \in 0..MaxOffset
  BY ConstantsAssumption
<1>1. ASSUME NEW s \in Slots, NEW v \in Vms, CheckDuplicate(s, v) PROVE RefInv'
  BY <1>0, <1>1, QuietRef DEF CheckDuplicate, NoRequest, RefInv, TypeOK
<1>2. ASSUME NEW s \in Slots, CreateStep(s) PROVE RefInv'
  BY <1>2, CreateStepRef
<1>3. ASSUME NEW s \in Slots, CancelCreate(s) PROVE RefInv'
  BY <1>0, <1>3, QuietRef DEF CancelCreate, Return, NoRequest, RefInv, TypeOK
<1>4. ASSUME NEW v \in Vms, BeginDelete(v) PROVE RefInv'
  BY <1>0, <1>4 DEF BeginDelete, NoHandle, RefInv, TypeOK
<1>5. CASE DeleteFile
  <2>1. pending = {} /\ pending' = pending
    BY <1>5 DEF DeleteFile, DeleteAt, TapInv, Exclusion
  <2>2. \A v \in Vms : files'[v].off \in 0..MaxOffset
    BY <1>0, <1>5 DEF DeleteFile, NoFile, RefInv, TypeOK
  <2>3. UNCHANGED <<vms, req>>
    BY <1>5 DEF DeleteFile
  <2> QED BY <2>1, <2>2, <2>3 DEF RefInv
<1>6. CASE UNCHANGED <<vms, files, pending, req>>
  BY <1>6, QuietRef DEF RefInv
<1>7. CASE DeleteStop \/ DeleteNdp \/ DeleteIpv6 \/ DeleteNft \/ DeleteTap
           \/ DeleteDhcp \/ DeleteOffset \/ CancelDelete
  BY <1>6, <1>7
  DEF DeleteStop, DeleteNdp, DeleteIpv6, DeleteNft, DeleteTap, DeleteDhcp, DeleteOffset,
      CancelDelete
<1>8. CASE Crash \/ Reboot
  <2>1. /\ pending' = {v \in Vms : files[v] # NoFile}
        /\ vms' = [v \in Vms |-> NoHandle]
        /\ req' = [s \in Slots |-> NoRequest]
        /\ UNCHANGED files
    BY <1>8 DEF Crash, Reboot, ForgetMemory
  <2> QED BY <1>0, <2>1 DEF NoHandle, NoRequest, RefInv
<1>9. ASSUME NEW v \in Vms, Recover(v) PROVE RefInv'
  BY <1>9 DEF Recover, RefInv, TypeOK
<1>10. CASE Serve \/ LoadFails
  BY <1>10, QuietRef DEF Serve, LoadFails, RefInv
<1>11. ASSUME NEW v \in Vms, UnitExits(v) \/ UnitFails(v) \/ UnitRestarts(v) PROVE RefInv'
  BY <1>6, <1>11 DEF UnitExits, UnitFails, UnitRestarts
<1>12. CASE UNCHANGED vars
  BY <1>6, <1>12 DEF vars
<1> QED
  BY <1>1, <1>2, <1>3, <1>4, <1>5, <1>7, <1>8, <1>9, <1>10, <1>11, <1>12
  DEF Next, DeleteStep, RecoverStep

-----------------------------------------------------------------------------
(* The refinement *)

\* The registry's variables, as functions of VmManager's.
MappedListed == [v \in Vms |-> IF Registered(v) THEN AddressOf(vms[v]) ELSE NotRegistered]
MappedSaved  == {v \in Vms : files[v] # NoFile}

\* A step that changes neither the handles, the files nor the phase is a stutter.
LEMMA Stutter ==
    ASSUME UNCHANGED <<phase, vms, files>>
    PROVE  UNCHANGED Registry!registry
BY DEF Registry!registry, Registered

\* Writing or removing one state file is a step of the registry.
LEMMA FileStep ==
    ASSUME TypeOK, phase = "up", UNCHANGED <<phase, vms>>, NEW v \in Vms, NEW f \in Files,
           files' = [files EXCEPT ![v] = f]
    PROVE  Registry!RegistryNext
<1>1. UNCHANGED MappedListed
  BY DEF MappedListed, Registered
<1>2. CASE f # NoFile
  <2>1. MappedSaved' = MappedSaved \cup {v}
    BY <1>2 DEF MappedSaved, TypeOK
  <2>2. Registry!Persist(v)
    BY <1>1, <2>1 DEF Registry!Persist, MappedListed, MappedSaved
  <2> QED BY <2>2 DEF Registry!RegistryNext
<1>3. CASE f = NoFile
  <2>1. MappedSaved' = MappedSaved \ {v}
    BY <1>3 DEF MappedSaved, TypeOK
  <2>2. Registry!Unpersist(v)
    BY <1>1, <2>1 DEF Registry!Unpersist, MappedListed, MappedSaved
  <2> QED BY <2>2 DEF Registry!RegistryNext
<1> QED BY <1>2, <1>3

\* A handle's address is one of the registry's.
LEMMA AddressType ==
    ASSUME TypeOK, NEW off \in 0..MaxOffset, NEW v6 \in Addrs
    PROVE  [off |-> off, v6 |-> v6] \in [off : 0..MaxOffset, v6 : Addrs]
OBVIOUS

\* Every step of VmManager is a step of the registry or changes nothing of it.
LEMMA StepRefines ==
    TypeOK /\ TapInv /\ RefInv /\ [Next]_vars
    => [Registry!RegistryNext]_Registry!registry
<1> SUFFICES ASSUME TypeOK, TapInv, RefInv, [Next]_vars
             PROVE  Registry!RegistryNext \/ UNCHANGED Registry!registry
  OBVIOUS
<1>1. ASSUME NEW s \in Slots, CreateStep(s)
      PROVE  Registry!RegistryNext \/ UNCHANGED Registry!registry
  <2>1. CASE Save(s)
    <3>1. phase = "up" /\ req[s].vm \in Vms
      BY <2>1 DEF Save, At, TapInv, Exclusion, TypeOK
    <3>2. CASE UNCHANGED files
      BY <2>1, <3>2, Stutter DEF Save
    <3>3. CASE files' = [files EXCEPT ![req[s].vm] = [off |-> req[s].off, v6 |-> req[s].v6]]
      <4>1. [off |-> req[s].off, v6 |-> req[s].v6] \in Files
        BY DEF TypeOK, Files
      <4>2. UNCHANGED <<phase, vms>>
        BY <2>1 DEF Save
      <4>3. PICK f \in Files : f = [off |-> req[s].off, v6 |-> req[s].v6]
        BY <4>1
      <4>4. PICK v \in Vms : v = req[s].vm
        BY <3>1
      <4>5. files' = [files EXCEPT ![v] = f]
        BY <3>3, <4>3, <4>4
      <4> QED BY <3>1, <4>2, <4>5, FileStep
    <3> QED BY <2>1, <3>2, <3>3 DEF Save
  <2>2. CASE Insert(s)
    <3> DEFINE v == req[s].vm
               a == [off |-> req[s].off, v6 |-> req[s].v6]
    <3>1. req[s].pc = "insert" /\ v \in Vms
      BY <2>2 DEF Insert, At, TypeOK
    <3>2. phase = "up" /\ ~Registered(v)
      BY <3>1 DEF TapInv, TapIsLock, Exclusion, Creating, HoldsTap, TypeOK
    <3>3. a \in [off : 0..MaxOffset, v6 : Addrs]
      BY AddressType DEF RefInv, TypeOK
    <3>4. /\ vms' = [vms EXCEPT ![v] = [state |-> "running", off |-> req[s].off,
                                        v6 |-> req[s].v6]]
          /\ UNCHANGED <<phase, files>>
      BY <2>2 DEF Insert
    <3>5. MappedListed' = [MappedListed EXCEPT ![v] = a]
      BY <3>1, <3>4 DEF MappedListed, Registered, AddressOf, TypeOK
    <3>6. MappedListed[v] = NotRegistered
      BY <3>1, <3>2 DEF MappedListed
    <3> HIDE DEF a
    <3>7. Registry!Register(v, a)
      BY <3>2, <3>4, <3>5, <3>6 DEF Registry!Register, Registry!Listed, MappedListed
    <3> QED BY <3>1, <3>3, <3>7 DEF Registry!RegistryNext
  <2>3. CASE ~Save(s) /\ ~Insert(s)
    <3>1. UNCHANGED <<phase, vms, files>>
      BY <1>1, <2>3
      DEF CreateStep, TakeOffset, OffsetsExhausted, AllocateIpv6, AllocateIpv6Fails,
          WriteDhcp, WriteDhcpFails, WriteDhcp6, WriteDhcp6Fails, ReleaseIpv6, CreateTap,
          CreateTapFails, AddIpv6ToTap, SetupNft, SetupNftFails, AddNdpRange,
          Prepare, PrepareFails, Spawn, SpawnFails, UndoNdp, UndoNft, UndoTap,
          UndoReservations
    <3> QED BY <3>1, Stutter
  <2> QED BY <2>1, <2>2, <2>3
<1>2. ASSUME NEW v \in Vms, BeginDelete(v)
      PROVE  Registry!RegistryNext \/ UNCHANGED Registry!registry
  <2>1. /\ phase = "up" /\ Registered(v)
        /\ vms' = [vms EXCEPT ![v] = NoHandle]
        /\ UNCHANGED <<phase, files>>
    BY <1>2 DEF BeginDelete
  <2>2. MappedListed' = [MappedListed EXCEPT ![v] = NotRegistered]
    BY <2>1 DEF MappedListed, Registered, NoHandle, TypeOK
  <2>3. MappedListed[v] # NotRegistered
    BY <2>1, NotRegisteredAssumption, AddressType DEF MappedListed, AddressOf, RefInv, TypeOK, Handles
  <2>4. Registry!Deregister(v)
    BY <2>1, <2>2, <2>3 DEF Registry!Deregister, Registry!Listed, MappedListed
  <2> QED BY <2>4 DEF Registry!RegistryNext
<1>3. CASE DeleteFile
  <2>1. phase = "up" /\ del.vm \in Vms
    BY <1>3 DEF DeleteFile, DeleteAt, TapInv, Exclusion, TypeOK
  <2>2. UNCHANGED <<phase, vms>>
    BY <1>3 DEF DeleteFile
  <2>3. CASE UNCHANGED files
    BY <2>2, <2>3, Stutter
  <2>4. CASE files' = [files EXCEPT ![del.vm] = NoFile]
    <3>1. NoFile \in Files
      BY DEF NoFile, Files, Addrs
    <3>2. PICK v \in Vms : v = del.vm
      BY <2>1
    <3>3. files' = [files EXCEPT ![v] = NoFile]
      BY <2>4, <3>2
    <3> QED BY <2>1, <2>2, <3>1, <3>3, FileStep
  <2> QED BY <1>3, <2>3, <2>4 DEF DeleteFile
<1>4. CASE Crash \/ Reboot
  <2>1. /\ phase' = "recovering"
        /\ vms' = [v \in Vms |-> NoHandle]
        /\ UNCHANGED files
    BY <1>4 DEF Crash, Reboot, ForgetMemory
  <2>2. MappedListed' = [v \in Vms |-> NotRegistered]
    BY <2>1 DEF MappedListed, Registered, NoHandle
  <2>3. Registry!Restart
    BY <2>1, <2>2 DEF Registry!Restart, MappedListed
  <2> QED BY <2>3 DEF Registry!RegistryNext
<1>5. ASSUME NEW v \in Vms, Recover(v)
      PROVE  Registry!RegistryNext \/ UNCHANGED Registry!registry
  <2> DEFINE a == [off |-> files[v].off, v6 |-> files[v].v6]
  <2>1. /\ phase = "recovering" /\ v \in pending
        /\ \E st \in {"running", "stopped"} :
              vms' = [vms EXCEPT ![v] = [state |-> st, off |-> files[v].off,
                                         v6 |-> files[v].v6]]
        /\ UNCHANGED <<phase, files>>
    BY <1>5 DEF Recover
  <2>2. ~Registered(v) /\ files[v] # NoFile
    BY <2>1 DEF TapInv, Exclusion, RefInv
  <2>3. a \in [off : 0..MaxOffset, v6 : Addrs]
    BY AddressType DEF RefInv, TypeOK, Files
  <2>4. MappedListed' = [MappedListed EXCEPT ![v] = a]
    <3>1. PICK st \in {"running", "stopped"} :
             vms' = [vms EXCEPT ![v] = [state |-> st, off |-> files[v].off,
                                        v6 |-> files[v].v6]]
      BY <2>1
    <3>2. vms'[v] = [state |-> st, off |-> files[v].off, v6 |-> files[v].v6]
      BY <3>1 DEF TypeOK
    <3>3. Registered(v)' /\ AddressOf(vms'[v]) = a
      BY <3>2 DEF Registered, AddressOf
    <3>4. \A w \in Vms : w # v => vms'[w] = vms[w]
      BY <3>1 DEF TypeOK
    <3> QED BY <3>3, <3>4 DEF MappedListed, Registered
  <2>5. MappedListed[v] = NotRegistered /\ v \in MappedSaved
    BY <2>2 DEF MappedListed, MappedSaved
  <2> HIDE DEF a
  <2>6. Registry!Reload(v, a)
    BY <2>1, <2>4, <2>5 DEF Registry!Reload, Registry!Listed, MappedListed, MappedSaved
  <2> QED BY <2>3, <2>6 DEF Registry!RegistryNext
<1>6. CASE Serve \/ LoadFails
  <2>1. phase = "recovering" /\ phase' = "up" /\ UNCHANGED <<vms, files>>
    BY <1>6 DEF Serve, LoadFails
  <2>2. UNCHANGED MappedListed
    BY <2>1 DEF MappedListed, Registered
  <2>3. Registry!Resume
    BY <2>1, <2>2 DEF Registry!Resume, MappedListed
  <2> QED BY <2>3 DEF Registry!RegistryNext
<1>7. ASSUME NEW s \in Slots, NEW v \in Vms, CheckDuplicate(s, v)
      PROVE  UNCHANGED Registry!registry
  BY <1>7, Stutter DEF CheckDuplicate
<1>8. ASSUME NEW s \in Slots, CancelCreate(s) PROVE UNCHANGED Registry!registry
  BY <1>8, Stutter DEF CancelCreate
<1>9. CASE DeleteStop \/ DeleteNdp \/ DeleteIpv6 \/ DeleteNft \/ DeleteTap
           \/ DeleteDhcp \/ DeleteOffset \/ CancelDelete
  BY <1>9, Stutter
  DEF DeleteStop, DeleteNdp, DeleteIpv6, DeleteNft, DeleteTap, DeleteDhcp, DeleteOffset,
      CancelDelete
<1>10. ASSUME NEW v \in Vms, UnitExits(v) \/ UnitFails(v) \/ UnitRestarts(v)
       PROVE  UNCHANGED Registry!registry
  BY <1>10, Stutter DEF UnitExits, UnitFails, UnitRestarts
<1>11. CASE UNCHANGED vars
  BY <1>11, Stutter DEF vars
<1> QED
  BY <1>1, <1>2, <1>3, <1>4, <1>5, <1>6, <1>7, <1>8, <1>9, <1>10, <1>11
  DEF Next, DeleteStep, RecoverStep

\* The compute node is an atomic registry to its clients: VmManager, with its
\* concurrent, failing, cancelled and restarted handlers, implements VmRegistry
\* (create_vm, delete_vm and recover_vms of manager.rs).
THEOREM RefinesRegistry == Spec => ImplementsRegistry
<1>1. Init => Registry!RegistryInit
  BY DEF Init, Registry!RegistryInit, Registered, NoHandle
<1>2. Init => RefInv
  BY ConstantsAssumption DEF Init, RefInv, NoHandle, NoFile, NoRequest
<1> QED
  BY <1>1, <1>2, NextRef, StepRefines, TapInvariant, PTL
  DEF Spec, ImplementsRegistry, Registry!RegistrySpec

=============================================================================
