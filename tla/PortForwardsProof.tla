------------------------- MODULE PortForwardsProof -------------------------
(***************************************************************************)
(* Proofs about PortForwards, for any number of VMs, ports, calls in flight *)
(* and restarts.                                                            *)
(*                                                                          *)
(* The invariant is about the ports that are not suspect: each has at most  *)
(* one call at work on it, what this call knows is still true, a list that  *)
(* is about to be saved is up to date, and apart from the step the call is  *)
(* at, the map, the state files and the kernel agree about the port.        *)
(***************************************************************************)
EXTENDS PortForwards, FiniteSetTheorems, TLAPS

-----------------------------------------------------------------------------
(* What the steps of a call do to its record *)

LEMMA NoneTyped ==
    /\ NoFile \in Files
    /\ NoCall \in Calls
    /\ NoHandle \in Handles
    /\ NoDelete \in Deletes
BY DEF NoFile, Files, NoCall, Calls, NoHandle, Handles, NoDelete, Deletes

LEMMA CallFields ==
    ASSUME NEW c \in Calls
    PROVE  /\ c.pc \in CallPcs \cup {"idle"}
           /\ c.vm \in Vms \cup {NoVm}
           /\ c.port \in Ports \cup {0}
           /\ c.ip \in Ips \cup {NoIp}
           /\ c.file \in Files
BY DEF Calls

LEMMA FileFields ==
    ASSUME NEW f \in Files
    PROVE  /\ f.ip \in Ips \cup {NoIp}
           /\ f.ports \subseteq Ports
           /\ f = [ip |-> f.ip, ports |-> f.ports]
BY DEF Files

LEMMA FileMade ==
    ASSUME NEW ip \in Ips \cup {NoIp}, NEW ports \in SUBSET Ports
    PROVE  [ip |-> ip, ports |-> ports] \in Files
BY DEF Files

LEMMA HandleFields ==
    ASSUME NEW h \in Handles
    PROVE  /\ h.state \in {"absent", "running", "stopped"}
           /\ h.ip \in Ips \cup {NoIp}
BY DEF Handles

LEMMA HandleMade ==
    ASSUME NEW state \in {"absent", "running", "stopped"}, NEW ip \in Ips \cup {NoIp}
    PROVE  [state |-> state, ip |-> ip] \in Handles
BY DEF Handles

LEMMA DeleteFields ==
    ASSUME NEW d \in Deletes
    PROVE  /\ d.pc \in DeletePcs \cup {"idle"}
           /\ d.vm \in Vms \cup {NoVm}
           /\ d.ip \in Ips \cup {NoIp}
           /\ d.ports \subseteq Ports
BY DEF Deletes

\* A call that only moves on.
LEMMA CallMoves ==
    ASSUME NEW c \in Calls, NEW pc \in CallPcs
    PROVE  LET d == [c EXCEPT !.pc = pc]
           IN /\ d \in Calls
              /\ d.pc = pc
              /\ d.vm = c.vm
              /\ d.port = c.port
              /\ d.ip = c.ip
              /\ d.file = c.file
BY DEF Calls

LEMMA CallTakesPort ==
    ASSUME NEW c \in Calls, NEW p \in Ports
    PROVE  LET d == [c EXCEPT !.pc = "rule", !.port = p]
           IN /\ d \in Calls
              /\ d.pc = "rule"
              /\ d.vm = c.vm
              /\ d.port = p
              /\ d.ip = c.ip
              /\ d.file = c.file
BY DEF Calls, CallPcs

LEMMA CallTakesFile ==
    ASSUME NEW c \in Calls, NEW f \in Files
    PROVE  LET d == [c EXCEPT !.pc = "list", !.file = f]
           IN /\ d \in Calls
              /\ d.pc = "list"
              /\ d.vm = c.vm
              /\ d.port = c.port
              /\ d.ip = c.ip
              /\ d.file = f
BY DEF Calls, CallPcs

LEMMA CallTakesList ==
    ASSUME NEW c \in Calls, NEW ports \in SUBSET Ports
    PROVE  LET d == [c EXCEPT !.pc = "save", !.file.ports = ports]
           IN /\ d \in Calls
              /\ d.pc = "save"
              /\ d.vm = c.vm
              /\ d.port = c.port
              /\ d.ip = c.ip
              /\ d.file.ip = c.file.ip
              /\ d.file.ports = ports
BY DEF Calls, Files, CallPcs

LEMMA AddBegins ==
    ASSUME NEW v \in Vms, NEW ip \in Ips \cup {NoIp}
    PROVE  LET a == [NoCall EXCEPT !.pc = "reserve", !.vm = v, !.ip = ip]
           IN a \in Calls /\ a.pc = "reserve" /\ a.vm = v /\ a.ip = ip
BY DEF NoCall, Calls, CallPcs, NoFile, Files

LEMMA RemoveBegins ==
    ASSUME NEW v \in Vms, NEW p \in Ports
    PROVE  LET r == [NoCall EXCEPT !.pc = "unrule", !.vm = v, !.port = p]
           IN r \in Calls /\ r.pc = "unrule" /\ r.vm = v /\ r.port = p
BY DEF NoCall, Calls, CallPcs, NoFile, Files

LEMMA DeleteBegins ==
    ASSUME NEW v \in Vms, NEW ip \in Ips \cup {NoIp}
    PROVE  LET e == [NoDelete EXCEPT !.pc = "forwards", !.vm = v, !.ip = ip]
           IN e \in Deletes /\ e.pc = "forwards" /\ e.vm = v
BY DEF NoDelete, Deletes, DeletePcs

LEMMA DeleteTakesPorts ==
    ASSUME NEW d \in Deletes, NEW ports \in SUBSET Ports
    PROVE  LET e == [d EXCEPT !.pc = "rules", !.ports = ports]
           IN e \in Deletes /\ e.pc = "rules" /\ e.vm = d.vm /\ e.ports = ports
BY DEF Deletes, DeletePcs

LEMMA DeleteMoves ==
    ASSUME NEW d \in Deletes, NEW pc \in DeletePcs
    PROVE  LET e == [d EXCEPT !.pc = pc]
           IN e \in Deletes /\ e.pc = pc /\ e.vm = d.vm /\ e.ports = d.ports
BY DEF Deletes

-----------------------------------------------------------------------------
(* Types *)

\* A call in flight has a VM and, once it has reserved or released one, a port.
Placed ==
    /\ \A s \in Slots : Busy(s) =>
          /\ call[s].vm \in Vms
          /\ At(s, "reserve") \/ call[s].port \in Ports
    /\ Deleting => del.vm \in Vms

TypeInv == TypeOK /\ Placed

LEMMA TypeInit == Init => TypeInv
BY PortsAssumption, NoneTyped
DEF Init, TypeInv, TypeOK, Placed, Busy, Deleting, NoCall, NoDelete

LEMMA NoneIdle == NoCall.pc = "idle" /\ NoDelete.pc = "idle"
BY DEF NoCall, NoDelete

-----------------------------------------------------------------------------
(* What each step of a call does, field by field *)

Others(s) == \A t \in Slots : t # s => call'[t] = call[t]

Same(s) ==
    /\ call'[s].vm = call[s].vm
    /\ call'[s].port = call[s].port
    /\ call'[s].ip = call[s].ip
    /\ call'[s].file = call[s].file

LEMMA GotoDoes ==
    ASSUME call \in [Slots -> Calls], NEW s \in Slots, NEW pc \in CallPcs, Goto(s, pc)
    PROVE  call' \in [Slots -> Calls] /\ call'[s].pc = pc /\ Same(s) /\ Others(s)
<1> DEFINE d == [call[s] EXCEPT !.pc = pc]
<1>1. call' = [call EXCEPT ![s] = d]
    BY DEF Goto
<1>2. /\ d \in Calls /\ d.pc = pc /\ d.vm = call[s].vm /\ d.port = call[s].port
      /\ d.ip = call[s].ip /\ d.file = call[s].file
    BY CallMoves
<1> HIDE DEF d
<1> QED
    BY <1>1, <1>2 DEF Same, Others

LEMMA ReturnDoes ==
    ASSUME call \in [Slots -> Calls], NEW s \in Slots, Return(s)
    PROVE  call' \in [Slots -> Calls] /\ call'[s].pc = "idle" /\ Others(s)
BY NoneTyped, NoneIdle DEF Return, Others

LEMMA BeginAddDoes ==
    ASSUME TypeOK, NEW s \in Slots, NEW v \in Vms, BeginAdd(s, v)
    PROVE  /\ call' \in [Slots -> Calls] /\ Others(s)
           /\ call'[s].pc = "reserve" /\ call'[s].vm = v /\ call'[s].ip = handle[v].ip
<1> DEFINE d == [NoCall EXCEPT !.pc = "reserve", !.vm = v, !.ip = handle[v].ip]
<1>1. call' = [call EXCEPT ![s] = d] /\ call \in [Slots -> Calls]
    BY DEF BeginAdd, TypeOK
<1>2. handle[v].ip \in Ips \cup {NoIp}
    BY HandleFields DEF TypeOK
<1>3. d \in Calls /\ d.pc = "reserve" /\ d.vm = v /\ d.ip = handle[v].ip
    BY <1>2, AddBegins
<1> HIDE DEF d
<1> QED
    BY <1>1, <1>3 DEF Others

LEMMA BeginRemoveDoes ==
    ASSUME TypeOK, NEW s \in Slots, NEW p \in Ports, BeginRemove(s, p)
    PROVE  /\ call' \in [Slots -> Calls] /\ Others(s) /\ forwards[p] \in Vms
           /\ call'[s].pc = "unrule" /\ call'[s].vm = forwards[p] /\ call'[s].port = p
<1> DEFINE d == [NoCall EXCEPT !.pc = "unrule", !.vm = forwards[p], !.port = p]
<1>1. call' = [call EXCEPT ![s] = d] /\ call \in [Slots -> Calls]
    BY DEF BeginRemove, TypeOK
<1>2. forwards[p] \in Vms
    BY DEF TypeOK, BeginRemove, IsAvailable
<1>3. d \in Calls /\ d.pc = "unrule" /\ d.vm = forwards[p] /\ d.port = p
    BY <1>2, RemoveBegins
<1> HIDE DEF d
<1> QED
    BY <1>1, <1>2, <1>3 DEF Others

LEMMA ReserveDoes ==
    ASSUME TypeOK, NEW s \in Slots, NEW p \in Ports, Reserve(s, p)
    PROVE  /\ call' \in [Slots -> Calls] /\ Others(s)
           /\ call'[s].pc = "rule" /\ call'[s].vm = call[s].vm /\ call'[s].port = p
           /\ call'[s].ip = call[s].ip
<1> DEFINE d == [call[s] EXCEPT !.pc = "rule", !.port = p]
<1>1. call' = [call EXCEPT ![s] = d] /\ call \in [Slots -> Calls]
    BY DEF Reserve, TypeOK
<1>2. d \in Calls /\ d.pc = "rule" /\ d.vm = call[s].vm /\ d.port = p /\ d.ip = call[s].ip
    BY <1>1, CallTakesPort
<1> HIDE DEF d
<1> QED
    BY <1>1, <1>2 DEF Others

LEMMA PersistReadDoes ==
    ASSUME TypeInv, NEW s \in Slots, PersistRead(s)
    PROVE  /\ call' \in [Slots -> Calls] /\ Others(s)
           /\ files[call[s].vm] = NoFile => call'[s].pc = "idle"
           /\ files[call[s].vm] # NoFile =>
                 /\ call'[s].pc = "list" /\ call'[s].vm = call[s].vm
                 /\ call'[s].port = call[s].port /\ call'[s].file = files[call[s].vm]
<1> DEFINE f == files[call[s].vm]
           d == [call[s] EXCEPT !.pc = "list", !.file = f]
<1>1. /\ f = NoFile => Return(s)
      /\ f # NoFile => call' = [call EXCEPT ![s] = d]
      /\ call \in [Slots -> Calls]
    BY DEF PersistRead, TypeInv, TypeOK
<1>2. call[s].vm \in Vms
    BY DEF PersistRead, At, TypeInv, Placed, Busy
<1>3. f \in Files
    BY <1>2 DEF TypeInv, TypeOK
<1>4. /\ d \in Calls /\ d.pc = "list" /\ d.vm = call[s].vm
      /\ d.port = call[s].port /\ d.file = f
    BY <1>1, <1>3, CallTakesFile
<1>5. CASE f = NoFile
    BY <1>1, <1>5, ReturnDoes
<1>6. CASE f # NoFile
    <2> HIDE DEF d, f
    <2>1. /\ call' \in [Slots -> Calls] /\ Others(s)
          /\ call'[s].pc = "list" /\ call'[s].vm = call[s].vm
          /\ call'[s].port = call[s].port /\ call'[s].file = f
        BY <1>1, <1>4, <1>6 DEF Others
    <2> QED
        BY <2>1, <1>6 DEF f
<1> QED
    BY <1>5, <1>6

LEMMA PersistListDoes ==
    ASSUME TypeOK, NEW s \in Slots, PersistList(s)
    PROVE  /\ call' \in [Slots -> Calls] /\ Others(s)
           /\ call'[s].pc = "save" /\ call'[s].vm = call[s].vm
           /\ call'[s].port = call[s].port /\ call'[s].file.ip = call[s].file.ip
           /\ call'[s].file.ports = ListForVm(call[s].vm)
<1> DEFINE ports == ListForVm(call[s].vm)
           d == [call[s] EXCEPT !.pc = "save", !.file.ports = ports]
<1>1. call' = [call EXCEPT ![s] = d] /\ call \in [Slots -> Calls]
    BY DEF PersistList, TypeOK
<1>2. ports \in SUBSET Ports
    BY DEF ListForVm
<1> HIDE DEF ports
<1>3. /\ d \in Calls /\ d.pc = "save" /\ d.vm = call[s].vm /\ d.port = call[s].port
      /\ d.file.ip = call[s].file.ip /\ d.file.ports = ports
    BY <1>1, <1>2, CallTakesList
<1> HIDE DEF d
<1>4. /\ call' \in [Slots -> Calls] /\ Others(s)
      /\ call'[s].pc = "save" /\ call'[s].vm = call[s].vm
      /\ call'[s].port = call[s].port /\ call'[s].file.ip = call[s].file.ip
      /\ call'[s].file.ports = ports
    BY <1>1, <1>3 DEF Others
<1> QED
    BY <1>4 DEF ports

-----------------------------------------------------------------------------
(* Types, step by step *)

LEMMA CallTypeStep ==
    ASSUME TypeInv, NEW s \in Slots, call' \in [Slots -> Calls], Others(s), UNCHANGED del,
           \/ call'[s].pc = "idle"
           \/ /\ call'[s].vm \in Vms
              /\ call'[s].pc = "reserve" \/ call'[s].port \in Ports
    PROVE  Placed'
BY DEF TypeInv, Placed, Busy, At, Others, Deleting

LEMMA TypeStep == TypeInv /\ [Next]_vars => TypeInv'
<1> SUFFICES ASSUME TypeInv, [Next]_vars PROVE TypeInv'
    OBVIOUS
<1>0. TypeOK /\ call \in [Slots -> Calls] /\ del \in Deletes
    BY DEF TypeInv, TypeOK
<1>a. ASSUME NEW s \in Slots, ~At(s, "idle")
      PROVE  call[s].vm \in Vms /\ (At(s, "reserve") \/ call[s].port \in Ports)
    BY <1>a DEF TypeInv, Placed, Busy, At
<1>b. ASSUME Deleting PROVE del.vm \in Vms
    BY <1>b DEF TypeInv, Placed
<1>1. ASSUME NEW s \in Slots, NEW v \in Vms, BeginAdd(s, v) PROVE TypeInv'
    <2>1. call' \in [Slots -> Calls] /\ Placed'
        BY <1>0, <1>a, <1>1, BeginAddDoes, CallTypeStep DEF BeginAdd, At
    <2> QED
        BY <1>0, <2>1, <1>1 DEF TypeInv, TypeOK, BeginAdd, kernel, history, Suspect

<1>2. ASSUME NEW s \in Slots, NEW p \in Ports, BeginRemove(s, p) PROVE TypeInv'
    <2>1. call' \in [Slots -> Calls] /\ Placed'
        BY <1>0, <1>a, <1>2, BeginRemoveDoes, CallTypeStep DEF BeginRemove, At
    <2> QED
        BY <1>0, <2>1, <1>2 DEF TypeInv, TypeOK, BeginRemove, kernel, history, Suspect

<1>3. ASSUME NEW s \in Slots, NEW p \in Ports, Reserve(s, p) PROVE TypeInv'
    <2>1. call' \in [Slots -> Calls] /\ Placed'
        BY <1>0, <1>a, <1>3, ReserveDoes, CallTypeStep DEF Reserve, At
    <2> QED
        BY <1>0, <2>1, <1>3, <1>a DEF TypeInv, TypeOK, Reserve, kernel, history, Suspect, At

<1>4. ASSUME NEW s \in Slots, ReserveRefused(s) PROVE TypeInv'
    <2>1. call' \in [Slots -> Calls] /\ Placed'
        BY <1>0, <1>a, <1>4, ReturnDoes, CallTypeStep DEF ReserveRefused, At
    <2> QED
        BY <1>0, <2>1, <1>4 DEF TypeInv, TypeOK, ReserveRefused, kernel, history, Suspect

<1>5. ASSUME NEW s \in Slots, AddRule(s) PROVE TypeInv'
    <2>1. call' \in [Slots -> Calls] /\ Placed'
        BY <1>0, <1>a, <1>5, GotoDoes, CallTypeStep DEF AddRule, At, CallPcs, Same
    <2> QED
        BY <1>0, <2>1, <1>5, <1>a, CallFields
        DEF TypeInv, TypeOK, AddRule, kernel, history, At, Rule, Rules

<1>6. ASSUME NEW s \in Slots, AddRuleFails(s) PROVE TypeInv'
    <2>1. call' \in [Slots -> Calls] /\ Placed'
        BY <1>0, <1>a, <1>6, GotoDoes, CallTypeStep DEF AddRuleFails, At, CallPcs, Same
    <2> QED
        BY <1>0, <2>1, <1>6 DEF TypeInv, TypeOK, AddRuleFails, kernel, history, Suspect

<1>7. ASSUME NEW s \in Slots, Rollback(s) PROVE TypeInv'
    <2>1. call' \in [Slots -> Calls] /\ Placed'
        BY <1>0, <1>a, <1>7, ReturnDoes, CallTypeStep DEF Rollback, At
    <2> QED
        BY <1>0, <1>a, <2>1, <1>7 DEF TypeInv, TypeOK, Rollback, kernel, Suspect, At

<1>8. ASSUME NEW s \in Slots, RemoveRule(s) PROVE TypeInv'
    <2>1. call' \in [Slots -> Calls] /\ Placed'
        BY <1>0, <1>a, <1>8, GotoDoes, CallTypeStep DEF RemoveRule, At, CallPcs, Same
    <2> QED
        BY <1>0, <2>1, <1>8 DEF TypeInv, TypeOK, RemoveRule, kernel, history, Suspect, Without

<1>9. ASSUME NEW s \in Slots, RemoveRuleFails(s) PROVE TypeInv'
    <2>1. call' \in [Slots -> Calls] /\ Placed'
        BY <1>0, <1>a, <1>9, ReturnDoes, CallTypeStep DEF RemoveRuleFails, At
    <2> QED
        BY <1>0, <1>a, <2>1, <1>9, PortsAssumption
        DEF TypeInv, TypeOK, RemoveRuleFails, kernel, Suspect, Fail, At

<1>10. ASSUME NEW s \in Slots, PersistRead(s) PROVE TypeInv'
    <2>1. call' \in [Slots -> Calls] /\ Placed'
        BY <1>0, <1>a, <1>10, PersistReadDoes, CallTypeStep DEF PersistRead, At
    <2> QED
        BY <1>0, <2>1, <1>10 DEF TypeInv, TypeOK, PersistRead, kernel, history, Suspect

<1>11. ASSUME NEW s \in Slots, PersistList(s) PROVE TypeInv'
    <2>1. call' \in [Slots -> Calls] /\ Placed'
        BY <1>0, <1>a, <1>11, PersistListDoes, CallTypeStep DEF PersistList, At
    <2> QED
        BY <1>0, <2>1, <1>11 DEF TypeInv, TypeOK, PersistList, kernel, history, Suspect

<1>12. ASSUME NEW s \in Slots, PersistSave(s) PROVE TypeInv'
    <2>1. call' \in [Slots -> Calls] /\ Placed'
        BY <1>0, <1>a, <1>12, ReturnDoes, CallTypeStep DEF PersistSave, At
    <2> QED
        BY <1>0, <1>a, <2>1, <1>12, CallFields DEF TypeInv, TypeOK, PersistSave, kernel, At

<1>13. ASSUME NEW s \in Slots, PersistSaveFails(s) PROVE TypeInv'
    <2>1. call' \in [Slots -> Calls] /\ Placed'
        BY <1>0, <1>a, <1>13, ReturnDoes, CallTypeStep DEF PersistSaveFails, At
    <2> QED
        BY <1>0, <1>a, <2>1, <1>13, PortsAssumption
        DEF TypeInv, TypeOK, PersistSaveFails, kernel, Suspect, Fail, At

<1>14. ASSUME NEW v \in Vms, Create(v) PROVE TypeInv'
    BY <1>0, <1>b, <1>14, PortsAssumption, HandleMade, FileMade
    DEF Create, Fail, TypeInv, TypeOK, Placed, Busy, At, Deleting, kernel, history, Suspect

<1>15. ASSUME NEW v \in Vms, BeginDelete(v) PROVE TypeInv'
    <2>1. handle[v].ip \in Ips \cup {NoIp}
        BY <1>0, HandleFields DEF TypeOK
    <2> QED
        BY <1>0, <1>b, <1>15, <2>1, NoneTyped, DeleteBegins
        DEF BeginDelete, TypeInv, TypeOK, Placed, Busy, At, Deleting, kernel, history

<1>16. ASSUME NEW v \in Vms, Recover(v) PROVE TypeInv'
    BY <1>0, <1>b, <1>16, PortsAssumption, FileFields, HandleMade
    DEF Recover, Fail, Rule, Rules, TypeInv, TypeOK, Placed, Busy, At, Deleting, kernel, history, Suspect

<1>17. ASSUME NEW v \in Vms, UnitExits(v) PROVE TypeInv'
    BY <1>0, <1>b, <1>17, PortsAssumption
    DEF UnitExits, TypeInv, TypeOK, Placed, Busy, At, Deleting, kernel, history, Suspect

<1>18. ASSUME DeleteForwards PROVE TypeInv'
    <2>1. del' \in Deletes /\ Deleting' /\ del'.vm = del.vm /\ Deleting
        BY <1>0, <1>18, DeleteTakesPorts DEF DeleteForwards, DeletePcs, Deleting, ListForVm
    <2>2. Placed'
        BY <1>b, <1>18, <2>1 DEF DeleteForwards, TypeInv, Placed, Busy, At
    <2> QED
        BY <1>0, <1>18, <2>1, <2>2, PortsAssumption
        DEF DeleteForwards, PortsOf, ListForVm, TypeInv, TypeOK, kernel, Suspect

<1>19. ASSUME DeleteRules PROVE TypeInv'
    <2>1. del' \in Deletes /\ Deleting' /\ del'.vm = del.vm /\ Deleting
        BY <1>0, <1>19, DeleteMoves DEF DeleteRules, DeletePcs, Deleting, ListForVm
    <2>2. Placed'
        BY <1>b, <1>19, <2>1 DEF DeleteRules, TypeInv, Placed, Busy, At
    <2> QED
        BY <1>0, <1>19, <2>1, <2>2, PortsAssumption, DeleteFields
        DEF DeleteRules, TypeInv, TypeOK, kernel, history, Suspect, Without, Fail

<1>20. ASSUME DeleteChain PROVE TypeInv'
    <2>1. del' \in Deletes /\ Deleting' /\ del'.vm = del.vm /\ Deleting
        BY <1>0, <1>20, DeleteMoves DEF DeleteChain, DeletePcs, Deleting, ListForVm
    <2>2. Placed'
        BY <1>b, <1>20, <2>1 DEF DeleteChain, TypeInv, Placed, Busy, At
    <2> QED
        BY <1>0, <1>20, <2>1, <2>2, PortsAssumption
        DEF DeleteChain, TypeInv, TypeOK, kernel, history, Suspect, Fail

<1>21. ASSUME DeleteFile PROVE TypeInv'
    BY <1>0, <1>b, <1>21, PortsAssumption, NoneTyped, NoneIdle
    DEF DeleteFile, Fail, TypeInv, TypeOK, Placed, Busy, At, Deleting, kernel, history, Suspect

<1>25. ASSUME DropDelete PROVE TypeInv'
    BY <1>0, <1>b, <1>25, PortsAssumption, NoneTyped, NoneIdle
    DEF DropDelete, PortsOf, ListForVm, TypeInv, TypeOK, Placed, Busy, At, Deleting, kernel, history, Suspect

<1>26. ASSUME NEW s \in Slots, DropCall(s) PROVE TypeInv'
    <2>1. call' \in [Slots -> Calls] /\ Placed'
        BY <1>0, <1>a, <1>26, ReturnDoes, CallTypeStep DEF DropCall, At
    <2> QED
        BY <1>0, <1>a, <2>1, <1>26 DEF TypeInv, TypeOK, DropCall, kernel, Suspect, At

<1>22. ASSUME Crash PROVE TypeInv'
    BY <1>0, <1>b, <1>22, PortsAssumption, NoneTyped, NoneIdle
    DEF Crash, ForgetMemory, TypeInv, TypeOK, Placed, Busy, At, Deleting, kernel, history, Suspect

<1>23. ASSUME Reboot PROVE TypeInv'
    BY <1>0, <1>b, <1>23, PortsAssumption, NoneTyped, NoneIdle
    DEF Reboot, ForgetMemory, TypeInv, TypeOK, Placed, Busy, At, Deleting, kernel, history, Suspect

<1>24. ASSUME UNCHANGED vars PROVE TypeInv'
    BY <1>0, <1>b, <1>24, PortsAssumption
    DEF vars, TypeInv, TypeOK, Placed, Busy, At, Deleting, kernel, history, Suspect
<1> QED
    BY <1>1, <1>2, <1>3, <1>4, <1>5, <1>6, <1>7, <1>8, <1>9, <1>10, <1>11, <1>12, <1>13,
       <1>14, <1>15, <1>16, <1>17, <1>18, <1>19, <1>20, <1>21, <1>22, <1>23, <1>24, <1>25, <1>26
    DEF Next, CallStep
-----------------------------------------------------------------------------
(* The inductive invariant *)

Clean == Ports \ suspect

\* A call has reserved or released the port and not yet saved it.
InFlux(p) == \E s \in Slots : Holds(s) /\ call[s].port = p

\* The port is reserved and its rule is not in the kernel yet, or it is
\* released and its rule still is.
Unruled(p) == \E s \in Slots : (At(s, "rule") \/ At(s, "rollback")) /\ call[s].port = p
Unruling(p) == \E s \in Slots : At(s, "unrule") /\ call[s].port = p

BeingDeleted(v) == Deleting /\ del.vm = v

\* The VM has a handle, or delete_vm has still to remove its forwards.
Present(v) == Registered(v) \/ (del.pc = "forwards" /\ del.vm = v)

\* No call works before recover_vms is through.
Working ==
    /\ \A s \in Slots : Busy(s) => Serving
    /\ Deleting => Serving

\* Whoever has an address has a proper one.
Addresses ==
    /\ \A v \in Vms : /\ files[v] = NoFile \/ files[v].ip \in Ips
                      /\ Registered(v) => handle[v].ip \in Ips
                      /\ ~Registered(v) => handle[v].ip = NoIp
    /\ \A s \in Slots : /\ At(s, "reserve") => call[s].ip \in Ips
                        /\ At(s, "list") \/ At(s, "save") => call[s].file.ip \in Ips

\* What a call knows of its VM and its port at each point is still true, and
\* no other call works on the port.
CallHolds(s) ==
    /\ Present(call[s].vm)
    /\ forwards[call[s].port] \in {call[s].vm, NoVm}
    /\ At(s, "rule") /\ Registered(call[s].vm) => call[s].ip = handle[call[s].vm].ip
    /\ At(s, "rule") \/ At(s, "rollback") => forwards[call[s].port] = call[s].vm
    /\ At(s, "unrule") => forwards[call[s].port] = NoVm
    /\ \A w \in Vms : call[s].port \in files[w].ports => w = call[s].vm
    /\ \A t \in Slots : Holds(t) /\ call[t].port = call[s].port => t = s

CallsHold == \A s \in Slots : Holds(s) /\ call[s].port \notin suspect => CallHolds(s)

\* A list that is about to be saved is that of the map.
SaveHolds(s) == \A p \in Clean : p \in call[s].file.ports <=> forwards[p] = call[s].vm

SavesHold == \A s \in Slots : At(s, "save") => SaveHolds(s)

\* delete_vm's VM has no handle, and the ports it released stay released.
DeleteHolds ==
    Deleting => /\ ~Registered(del.vm)
                /\ del.pc = "rules" => \A p \in del.ports \ suspect : forwards[p] = NoVm

\* Every forward belongs to a VM that is there, and no other VM's state file
\* claims it.
ForwardsOwned ==
    \A p \in Clean : forwards[p] # NoVm =>
        /\ Present(forwards[p])
        /\ \A w \in Vms : p \in files[w].ports => w = forwards[p]

\* No two state files claim a port, across restarts too.
FilesApart ==
    \A v, w \in Vms : \A p \in Clean : p \in files[v].ports /\ p \in files[w].ports => v = w

PendingHold == \A v \in pending : ~Registered(v) /\ files[v] # NoFile

\* Port by port, a VM's state file says what the map says, except for the
\* ports of the calls in flight.
FilesFollow ==
    \A v \in Vms : Registered(v) /\ v \notin misfiled =>
        /\ files[v].ip = handle[v].ip
        /\ \A p \in Clean : ~InFlux(p) => (p \in files[v].ports <=> forwards[p] = v)

\* The forwards of running VMs are in the kernel, but for the ports whose rules
\* are being added.
RulesKept ==
    \A p \in Clean :
        forwards[p] # NoVm /\ handle[forwards[p]].state = "running" /\ ~Unruled(p) =>
            Rule(p, handle[forwards[p]].ip) \in dnat

\* The rule is one of the map, or is about to be removed by the call that took
\* it out of the map.
RuleOwned(r) ==
    /\ ~Unruled(r.port)
    /\ \/ /\ forwards[r.port] # NoVm
          /\ BeingDeleted(forwards[r.port]) \/ r.ip = handle[forwards[r.port]].ip
       \/ Unruling(r.port)
       \/ del.pc = "rules" /\ r.port \in del.ports

\* Without a restart, this is so of every rule in the kernel.
RulesOwned ==
    /\ pending = {}
    /\ \A v \in Vms : handle[v].state # "stopped"
    /\ \A r \in dnat : r.port \notin suspect => RuleOwned(r)

ForwardsInv ==
    /\ Working
    /\ Addresses
    /\ CallsHold
    /\ SavesHold
    /\ DeleteHolds
    /\ ForwardsOwned
    /\ FilesApart
    /\ PendingHold
    /\ FilesFollow
    /\ RulesKept
    /\ crashes = 0 => RulesOwned

PortsInv == TypeInv /\ ForwardsInv

LEMMA Typed ==
    ASSUME PortsInv
    PROVE  /\ TypeInv /\ TypeOK /\ pending \subseteq Vms
           /\ call \in [Slots -> Calls] /\ forwards \in [Ports -> Vms \cup {NoVm}]
           /\ files \in [Vms -> Files] /\ handle \in [Vms -> Handles] /\ dnat \subseteq Rules
           /\ del \in Deletes /\ suspect \subseteq Ports
           /\ \A r \in dnat : r.port \in Ports
           /\ \A s \in Slots : ~At(s, "idle") => call[s].vm \in Vms
           /\ \A s \in Slots : Holds(s) => call[s].vm \in Vms /\ call[s].port \in Ports
           /\ Deleting => del.vm \in Vms
BY DEF PortsInv, TypeInv, TypeOK, Placed, Busy, At, Holds, Rules

LEMMA Parts ==
    ASSUME PortsInv
    PROVE  /\ Working /\ Addresses /\ CallsHold /\ SavesHold /\ DeleteHolds /\ ForwardsOwned
           /\ FilesApart /\ PendingHold /\ FilesFollow /\ RulesKept
           /\ crashes = 0 => RulesOwned
BY DEF PortsInv, ForwardsInv

LEMMA Assembled ==
    ASSUME Working', Addresses', CallsHold', SavesHold', DeleteHolds', ForwardsOwned',
           FilesApart', PendingHold', FilesFollow', RulesKept', (crashes = 0 => RulesOwned)'
    PROVE  ForwardsInv'
BY DEF ForwardsInv

\* A step of call s, as the other calls see it.
LEMMA OthersSee ==
    ASSUME NEW s \in Slots, Others(s)
    PROVE  /\ \A t \in Slots : t # s => /\ call'[t] = call[t]
                                        /\ Holds(t)' <=> Holds(t)
                                        /\ Busy(t)' <=> Busy(t)
                                        /\ At(t, "save")' <=> At(t, "save")
                                        /\ At(t, "list")' <=> At(t, "list")
                                        /\ At(t, "rule")' <=> At(t, "rule")
                                        /\ At(t, "rollback")' <=> At(t, "rollback")
                                        /\ At(t, "unrule")' <=> At(t, "unrule")
                                        /\ At(t, "reserve")' <=> At(t, "reserve")
BY DEF Others, Holds, Busy, At

\* The calls stay where they are.
LEMMA CallsKept ==
    ASSUME UNCHANGED call
    PROVE  /\ \A p : /\ InFlux(p)' <=> InFlux(p)
                     /\ Unruled(p)' <=> Unruled(p)
                     /\ Unruling(p)' <=> Unruling(p)
           /\ \A s \in Slots : /\ Holds(s)' <=> Holds(s)
                               /\ Busy(s)' <=> Busy(s)
                               /\ At(s, "save")' <=> At(s, "save")
                               /\ At(s, "list")' <=> At(s, "list")
                               /\ At(s, "rule")' <=> At(s, "rule")
                               /\ At(s, "rollback")' <=> At(s, "rollback")
                               /\ At(s, "unrule")' <=> At(s, "unrule")
                               /\ At(s, "reserve")' <=> At(s, "reserve")
BY DEF InFlux, Unruled, Unruling, Holds, Busy, At

\* A suspect port stays suspect.
LEMMA CleanBefore ==
    ASSUME suspect \subseteq suspect'
    PROVE  \A p : /\ p \in Clean' => p \in Clean
                  /\ p \notin suspect' => p \notin suspect
BY DEF Clean

-----------------------------------------------------------------------------
(* The steps of a call *)

\* A step that changes nothing but the record of the call: it takes no port,
\* and where it gives up a port that is not suspect the state files are right.
LEMMA RecordStep ==
    ASSUME PortsInv, NEW s \in Slots, Others(s), suspect \subseteq suspect',
           UNCHANGED <<pending, handle, forwards, dnat, files, del, crashes, misfiled>>,
           Busy(s)' => Serving,
           At(s, "reserve")' => call'[s].ip \in Ips,
           (At(s, "list") \/ At(s, "save"))' => call'[s].file.ip \in Ips,
           At(s, "save")' => SaveHolds(s)',
           ~At(s, "rule")' /\ ~At(s, "unrule")' /\ (At(s, "rollback")' => At(s, "rule")),
           Holds(s)' => Holds(s) /\ call'[s].port = call[s].port /\ call'[s].vm = call[s].vm,
           call[s].port \notin suspect' /\ (At(s, "rule") \/ At(s, "rollback"))
              => At(s, "rollback")',
           At(s, "unrule") => call[s].port \in suspect',
           call[s].port \notin suspect' /\ Holds(s) /\ ~Holds(s)' =>
              \A v \in Vms : Registered(v) /\ v \notin misfiled =>
                 (call[s].port \in files[v].ports <=> forwards[call[s].port] = v)
    PROVE  ForwardsInv'
<1>1. /\ \A v : Registered(v)' <=> Registered(v)
      /\ \A v : Present(v)' <=> Present(v)
      /\ \A v : BeingDeleted(v)' <=> BeingDeleted(v)
      /\ Serving' <=> Serving
      /\ Deleting' <=> Deleting
    BY DEF Registered, Present, BeingDeleted, Deleting, Serving
<1>2. \A p : p \in Clean' => p \in Clean /\ p \notin suspect' /\ p \in Ports
    BY DEF Clean
<1>3. \A p : InFlux(p) => InFlux(p)' \/ (Holds(s) /\ ~Holds(s)' /\ call[s].port = p)
    BY OthersSee DEF InFlux
<1>4. \A p : p \notin suspect' => (Unruled(p)' <=> Unruled(p))
    BY OthersSee DEF Unruled, Holds, At
<1>5. \A p : p \notin suspect' /\ Unruling(p) => Unruling(p)'
    BY OthersSee DEF Unruling
<1>6. Working'
    BY <1>1, OthersSee, Parts DEF Working
<1>7. Addresses'
    BY <1>1, OthersSee, Parts DEF Addresses
<1>8. CallsHold'
    <2> SUFFICES ASSUME NEW t \in Slots, Holds(t)', call'[t].port \notin suspect'
                 PROVE  CallHolds(t)'
        BY DEF CallsHold
    <2>1. /\ Holds(t) /\ call'[t].port = call[t].port /\ call'[t].vm = call[t].vm
          /\ call[t].port \notin suspect
        BY OthersSee
    <2>2. CallHolds(t)
        BY <2>1, Parts DEF CallsHold
    <2>3. At(t, "rule")' \/ At(t, "rollback")' => At(t, "rule") \/ At(t, "rollback")
        BY OthersSee
    <2>4. At(t, "rule")' => At(t, "rule") /\ call'[t].ip = call[t].ip
        BY OthersSee
    <2>5. At(t, "unrule")' => At(t, "unrule")
        BY OthersSee
    <2>6. \A u \in Slots : Holds(u)' /\ call'[u].port = call'[t].port => u = t
        <3> TAKE u \in Slots
        <3>1. Holds(u)' => Holds(u) /\ call'[u].port = call[u].port
            BY OthersSee
        <3> QED
            BY <2>1, <2>2, <3>1 DEF CallHolds
    <2> QED
        BY <1>1, <2>1, <2>2, <2>3, <2>4, <2>5, <2>6 DEF CallHolds
<1>9. SavesHold'
    <2> SUFFICES ASSUME NEW t \in Slots, At(t, "save")', t # s PROVE SaveHolds(t)'
        BY DEF SavesHold
    <2>1. SaveHolds(t) /\ call'[t] = call[t]
        BY OthersSee, Parts DEF SavesHold
    <2> QED
        BY <1>2, <2>1 DEF SaveHolds
<1>10. DeleteHolds'
    BY <1>1, Parts DEF DeleteHolds
<1>11. ForwardsOwned'
    BY <1>1, <1>2, Parts DEF ForwardsOwned
<1>12. FilesApart'
    BY <1>2, Parts DEF FilesApart
<1>13. PendingHold'
    BY <1>1, Parts DEF PendingHold
<1>14. FilesFollow'
    <2> SUFFICES ASSUME NEW v \in Vms, Registered(v), v \notin misfiled, NEW p \in Clean',
                        ~InFlux(p)'
                 PROVE  p \in files[v].ports <=> forwards[p] = v
        BY <1>1, Parts DEF FilesFollow
    <2>1. CASE ~InFlux(p)
        BY <1>2, <2>1, Parts DEF FilesFollow
    <2>2. CASE InFlux(p)
        BY <1>2, <1>3, <2>2
    <2> QED
        BY <2>1, <2>2
<1>15. RulesKept'
    BY <1>2, <1>4, Parts DEF RulesKept
<1>16. (crashes = 0 => RulesOwned)'
    <2> SUFFICES ASSUME crashes = 0 PROVE RulesOwned'
        OBVIOUS
    <2>1. RulesOwned
        BY Parts
    <2>2. ASSUME NEW r \in dnat, r.port \notin suspect' PROVE RuleOwned(r)'
        <3>1. RuleOwned(r)
            BY <2>1, <2>2 DEF RulesOwned
        <3> QED
            BY <1>1, <1>4, <1>5, <2>2, <3>1 DEF RuleOwned
    <2> QED
        BY <2>1, <2>2 DEF RulesOwned
<1> QED
    BY <1>6, <1>7, <1>8, <1>9, <1>10, <1>11, <1>12, <1>13, <1>14, <1>15, <1>16, Assembled

LEMMA BeginAddHolds ==
    ASSUME PortsInv, NEW s \in Slots, NEW v \in Vms, BeginAdd(s, v)
    PROVE  ForwardsInv'
<1>1. /\ Others(s) /\ call'[s].pc = "reserve" /\ call'[s].ip = handle[v].ip
      /\ call[s].pc = "idle"
    BY BeginAddDoes, Typed DEF BeginAdd, At
<1>2. /\ UNCHANGED <<pending, handle, forwards, dnat, files, del, crashes, misfiled, suspect>>
      /\ Serving /\ handle[v].ip \in Ips
    BY Parts DEF BeginAdd, kernel, history, MayBegin, Addresses
<1>3. ~Holds(s)' /\ ~Holds(s)
    BY <1>1 DEF Holds, At
<1> QED
    BY <1>1, <1>2, <1>3, RecordStep DEF At

\* A call that returns and marks its port, if it has one.
LEMMA GivesUp ==
    ASSUME PortsInv, NEW s \in Slots, Return(s), suspect \subseteq suspect',
           UNCHANGED <<pending, handle, forwards, dnat, files, del, crashes, misfiled>>,
           Holds(s) => call[s].port \in suspect'
    PROVE  ForwardsInv'
<1>1. Others(s) /\ call'[s].pc = "idle"
    BY ReturnDoes, Typed
<1>2. ~Holds(s)' /\ ~Busy(s)'
    BY <1>1 DEF Holds, Busy, At
<1>3. At(s, "rule") \/ At(s, "rollback") \/ At(s, "unrule") => Holds(s)
    BY DEF Holds, At
<1> QED
    BY <1>1, <1>2, <1>3, RecordStep DEF At

LEMMA GivingUpHolds ==
    ASSUME PortsInv, NEW s \in Slots,
           ReserveRefused(s) \/ RemoveRuleFails(s) \/ PersistSaveFails(s) \/ DropCall(s)
    PROVE  ForwardsInv'
<1>1. CASE ReserveRefused(s)
    BY <1>1, GivesUp DEF ReserveRefused, kernel, history, Holds
<1>2. CASE RemoveRuleFails(s) \/ PersistSaveFails(s)
    BY <1>2, GivesUp DEF RemoveRuleFails, PersistSaveFails, kernel, Suspect
<1>3. CASE DropCall(s)
    BY <1>3, GivesUp DEF DropCall, kernel, Suspect, Holds
<1> QED
    BY <1>1, <1>2, <1>3

LEMMA AddRuleFailsHolds ==
    ASSUME PortsInv, NEW s \in Slots, AddRuleFails(s)
    PROVE  ForwardsInv'
<1>1. Others(s) /\ call'[s].pc = "rollback" /\ Same(s) /\ call[s].pc = "rule"
    BY GotoDoes, Typed DEF AddRuleFails, CallPcs, At
<1>2. UNCHANGED <<pending, handle, forwards, dnat, files, del, crashes, misfiled, suspect>>
    BY DEF AddRuleFails, kernel, history
<1>3. Holds(s) /\ Holds(s)' /\ Busy(s) /\ Serving
    BY <1>1, Parts DEF Holds, At, Busy, Working
<1> QED
    BY <1>1, <1>2, <1>3, RecordStep DEF At, Same

LEMMA PersistReadHolds ==
    ASSUME PortsInv, NEW s \in Slots, PersistRead(s)
    PROVE  ForwardsInv'
<1>1. /\ UNCHANGED <<pending, handle, forwards, dnat, files, del, crashes, misfiled, suspect>>
      /\ call[s].pc = "read"
    BY DEF PersistRead, kernel, history, At
<1>2. Holds(s) /\ Serving /\ call[s].vm \in Vms
    BY <1>1, Parts, Typed DEF Holds, At, Busy, Working
<1>3. Others(s)
    BY PersistReadDoes, Typed
<1>4. CASE files[call[s].vm] = NoFile
    <2>1. call'[s].pc = "idle" /\ ~Holds(s)' /\ ~Busy(s)'
        BY <1>4, PersistReadDoes, Typed DEF Holds, Busy, At
    <2>2. ASSUME call[s].port \notin suspect, NEW v \in Vms, Registered(v), v \notin misfiled
          PROVE  call[s].port \in files[v].ports <=> forwards[call[s].port] = v
        <3>1. CallHolds(s)
            BY <1>2, <2>2, Parts DEF CallsHold
        <3>2. v # call[s].vm
            BY <1>4, <2>2, Parts, PortsAssumption DEF FilesFollow, Addresses, NoFile
        <3> QED
            BY <2>2, <3>1, <3>2, PortsAssumption DEF CallHolds
    <2> QED
        BY <1>1, <1>3, <2>1, <2>2, RecordStep DEF At
<1>5. CASE files[call[s].vm] # NoFile
    <2>1. /\ call'[s].pc = "list" /\ call'[s].vm = call[s].vm /\ call'[s].port = call[s].port
          /\ call'[s].file = files[call[s].vm] /\ Holds(s)'
        BY <1>5, PersistReadDoes, Typed DEF Holds, At
    <2>2. call'[s].file.ip \in Ips
        BY <1>2, <1>5, <2>1, Parts DEF Addresses
    <2> QED
        BY <1>1, <1>2, <1>3, <2>1, <2>2, RecordStep DEF At
<1> QED
    BY <1>4, <1>5

LEMMA PersistListHolds ==
    ASSUME PortsInv, NEW s \in Slots, PersistList(s)
    PROVE  ForwardsInv'
<1>1. /\ UNCHANGED <<pending, handle, forwards, dnat, files, del, crashes, misfiled, suspect>>
      /\ call[s].pc = "list"
    BY DEF PersistList, kernel, history, At
<1>2. Holds(s) /\ Serving /\ call[s].vm \in Vms
    BY <1>1, Parts, Typed DEF Holds, At, Busy, Working
<1>3. /\ Others(s) /\ call'[s].pc = "save" /\ call'[s].vm = call[s].vm
      /\ call'[s].port = call[s].port /\ call'[s].file.ip = call[s].file.ip
      /\ call'[s].file.ports = ListForVm(call[s].vm)
    BY PersistListDoes, Typed
<1>4. Holds(s)' /\ call[s].file.ip \in Ips
    BY <1>1, <1>3, Parts DEF Holds, At, Addresses
<1>5. SaveHolds(s)'
    BY <1>1, <1>3 DEF SaveHolds, ListForVm, Clean
<1> QED
    BY <1>1, <1>2, <1>3, <1>4, <1>5, RecordStep DEF At

\* A step of call s that changes the map at port p.
LEMMA ForwardStep ==
    ASSUME PortsInv, NEW s \in Slots, NEW p \in Ports, Others(s), suspect \subseteq suspect',
           UNCHANGED <<pending, handle, dnat, files, del, crashes, misfiled>>,
           \A q \in Ports : q # p => forwards'[q] = forwards[q],
           Busy(s)' => Serving,
           ~At(s, "reserve")' /\ ~At(s, "list")' /\ ~At(s, "save")',
           Holds(s) => call[s].port = p,
           Holds(s)' => call'[s].port = p,
           p \notin suspect' =>
              /\ Holds(s)' => CallHolds(s)'
              /\ \A t \in Slots : t # s /\ Holds(t) => call[t].port # p
              /\ \A t \in Slots : t # s /\ At(t, "save") =>
                    (p \in call[t].file.ports <=> forwards'[p] = call[t].vm)
              /\ del.pc = "rules" /\ p \in del.ports => forwards'[p] = NoVm
              /\ forwards'[p] # NoVm =>
                    /\ Unruled(p)'
                    /\ Present(forwards'[p])
                    /\ \A w \in Vms : p \in files[w].ports => w = forwards'[p]
              /\ ~Holds(s)' => \A v \in Vms : Registered(v) /\ v \notin misfiled =>
                    (p \in files[v].ports <=> forwards'[p] = v)
              /\ crashes = 0 => \A r \in dnat : r.port = p => RuleOwned(r)'
    PROVE  ForwardsInv'
<1>1. /\ \A v : Registered(v)' <=> Registered(v)
      /\ \A v : Present(v)' <=> Present(v)
      /\ \A v : BeingDeleted(v)' <=> BeingDeleted(v)
      /\ Serving' <=> Serving
      /\ Deleting' <=> Deleting
    BY DEF Registered, Present, BeingDeleted, Deleting, Serving
<1>2. \A q : q \in Clean' => q \in Clean /\ q \notin suspect' /\ q \in Ports
    BY DEF Clean
<1>3. \A q : q # p => /\ InFlux(q)' <=> InFlux(q)
                      /\ Unruled(q)' <=> Unruled(q)
                      /\ Unruling(q)' <=> Unruling(q)
    <2>1. \A q : q # p => /\ ~(Holds(s) /\ call[s].port = q)
                          /\ ~(Holds(s)' /\ call'[s].port = q)
        OBVIOUS
    <2>2. /\ At(s, "rule") \/ At(s, "rollback") \/ At(s, "unrule") => Holds(s)
          /\ At(s, "rule")' \/ At(s, "rollback")' \/ At(s, "unrule")' => Holds(s)'
        BY DEF Holds, At
    <2> QED
        BY <2>1, <2>2, OthersSee DEF InFlux, Unruled, Unruling
<1>6. Working'
    BY <1>1, OthersSee, Parts DEF Working
<1>7. Addresses'
    BY <1>1, OthersSee, Parts DEF Addresses
<1>8. CallsHold'
    <2> SUFFICES ASSUME NEW t \in Slots, t # s, Holds(t)', call'[t].port \notin suspect'
                 PROVE  CallHolds(t)'
        BY DEF CallsHold
    <2>1. Holds(t) /\ call'[t] = call[t] /\ call[t].port \notin suspect /\ call[t].port \in Ports
        BY OthersSee, Typed
    <2>2. CallHolds(t) /\ call[t].port # p
        BY <2>1, Parts DEF CallsHold
    <2>3. /\ At(t, "rule")' <=> At(t, "rule")
          /\ At(t, "rollback")' <=> At(t, "rollback")
          /\ At(t, "unrule")' <=> At(t, "unrule")
        BY OthersSee
    <2>4. \A u \in Slots : Holds(u)' /\ call'[u].port = call'[t].port => u = t
        <3> TAKE u \in Slots
        <3>1. u # s => (Holds(u)' <=> Holds(u)) /\ call'[u] = call[u]
            BY OthersSee
        <3> QED
            BY <2>1, <2>2, <3>1 DEF CallHolds
    <2>5. forwards'[call'[t].port] = forwards[call[t].port]
        BY <2>1, <2>2
    <2> QED
        BY <1>1, <2>1, <2>2, <2>3, <2>4, <2>5 DEF CallHolds
<1>9. SavesHold'
    <2> SUFFICES ASSUME NEW t \in Slots, At(t, "save")', t # s, NEW q \in Clean'
                 PROVE  q \in call[t].file.ports <=> forwards'[q] = call[t].vm
        BY OthersSee DEF SavesHold, SaveHolds
    <2>1. SaveHolds(t) /\ At(t, "save")
        BY OthersSee, Parts DEF SavesHold
    <2>2. CASE q = p
        BY <1>2, <2>1, <2>2
    <2>3. CASE q # p
        BY <1>2, <2>1, <2>3 DEF SaveHolds
    <2> QED
        BY <2>2, <2>3
<1>10. DeleteHolds'
    <2> SUFFICES ASSUME Deleting, del.pc = "rules", NEW q \in del.ports \ suspect'
                 PROVE  forwards'[q] = NoVm
        BY <1>1, Parts DEF DeleteHolds
    <2>1. q \in Ports
        BY Typed, DeleteFields
    <2>2. CASE q = p
        BY <2>2
    <2>3. CASE q # p
        BY <2>1, <2>3, Parts DEF DeleteHolds
    <2> QED
        BY <2>2, <2>3
<1>11. ForwardsOwned'
    <2> SUFFICES ASSUME NEW q \in Clean', forwards'[q] # NoVm
                 PROVE  /\ Present(forwards'[q])
                        /\ \A w \in Vms : q \in files[w].ports => w = forwards'[q]
        BY <1>1 DEF ForwardsOwned
    <2>1. CASE q = p
        BY <1>2, <2>1
    <2>2. CASE q # p
        BY <1>2, <2>2, Parts DEF ForwardsOwned
    <2> QED
        BY <2>1, <2>2
<1>12. FilesApart'
    BY <1>2, Parts DEF FilesApart
<1>13. PendingHold'
    BY <1>1, Parts DEF PendingHold
<1>14. FilesFollow'
    <2> SUFFICES ASSUME NEW v \in Vms, Registered(v), v \notin misfiled, NEW q \in Clean',
                        ~InFlux(q)'
                 PROVE  q \in files[v].ports <=> forwards'[q] = v
        BY <1>1, Parts DEF FilesFollow
    <2>1. CASE q = p
        <3>1. ~Holds(s)'
            BY <2>1 DEF InFlux
        <3> QED
            BY <1>2, <2>1, <3>1
    <2>2. CASE q # p
        BY <1>2, <1>3, <2>2, Parts DEF FilesFollow
    <2> QED
        BY <2>1, <2>2
<1>15. RulesKept'
    <2> SUFFICES ASSUME NEW q \in Clean', forwards'[q] # NoVm, ~Unruled(q)',
                        handle[forwards'[q]].state = "running"
                 PROVE  Rule(q, handle[forwards'[q]].ip) \in dnat
        BY DEF RulesKept
    <2>1. q # p
        BY <1>2
    <2> QED
        BY <1>2, <1>3, <2>1, Parts DEF RulesKept
<1>16. (crashes = 0 => RulesOwned)'
    <2> SUFFICES ASSUME crashes = 0 PROVE RulesOwned'
        OBVIOUS
    <2>1. RulesOwned
        BY Parts
    <2>2. ASSUME NEW r \in dnat, r.port \notin suspect', r.port # p PROVE RuleOwned(r)'
        <3>1. RuleOwned(r) /\ forwards'[r.port] = forwards[r.port]
            BY <2>1, <2>2, Typed DEF RulesOwned
        <3> QED
            BY <1>1, <1>3, <2>2, <3>1 DEF RuleOwned
    <2> QED
        BY <2>1, <2>2 DEF RulesOwned
<1> QED
    BY <1>6, <1>7, <1>8, <1>9, <1>10, <1>11, <1>12, <1>13, <1>14, <1>15, <1>16, Assembled

LEMMA ReserveHolds ==
    ASSUME PortsInv, NEW s \in Slots, NEW p \in Ports, Reserve(s, p)
    PROVE  ForwardsInv'
<1>0. PICK v \in Vms : v = call[s].vm
    BY Typed DEF Reserve, At
<1>1. /\ Others(s) /\ call'[s].pc = "rule" /\ call'[s].vm = v /\ call'[s].port = p
      /\ call'[s].ip = call[s].ip /\ call[s].pc = "reserve"
    BY <1>0, ReserveDoes, Typed DEF Reserve, At
<1>2. /\ UNCHANGED <<pending, handle, dnat, files, del, crashes, misfiled>>
      /\ forwards[p] = NoVm /\ forwards'[p] = v
      /\ \A q \in Ports : q # p => forwards'[q] = forwards[q]
      /\ suspect \subseteq suspect'
      /\ p \notin suspect' => p \notin suspect /\ ~Outdated(s) /\ ~Contested(s, v, p)
    BY <1>0, Typed DEF Reserve, kernel, IsAvailable, Suspect
<1>3. ~Holds(s) /\ Holds(s)' /\ Serving /\ v \in Vms /\ call[s].ip \in Ips /\ v # NoVm
    BY <1>1, Parts, Typed, PortsAssumption DEF Holds, At, Busy, Working, Addresses
<1>4. ASSUME p \notin suspect'
      PROVE  /\ Holds(s)' => CallHolds(s)'
             /\ \A t \in Slots : t # s /\ Holds(t) => call[t].port # p
             /\ \A t \in Slots : t # s /\ At(t, "save") =>
                   (p \in call[t].file.ports <=> forwards'[p] = call[t].vm)
             /\ del.pc = "rules" /\ p \in del.ports => forwards'[p] = NoVm
             /\ forwards'[p] # NoVm =>
                   /\ Unruled(p)'
                   /\ Present(forwards'[p])
                   /\ \A w \in Vms : p \in files[w].ports => w = forwards'[p]
             /\ crashes = 0 => \A r \in dnat : r.port = p => RuleOwned(r)'
    <2>1. /\ \A t \in Slots : t # s => /\ Holds(t) => call[t].port # p
                                       /\ At(t, "save") => call[t].vm # v
          /\ \A w \in Vms : p \in files[w].ports => w = v
          /\ ~(del.pc = "rules" /\ p \in del.ports)
        BY <1>2, <1>4 DEF Contested
    <2>2. call[s].ip = handle[v].ip /\ Registered(v) /\ Present(v)
        BY <1>0, <1>2, <1>3, <1>4, Parts, PortsAssumption DEF Outdated, Addresses, Present
    <2>3. \A t \in Slots : t # s /\ At(t, "save") => p \notin call[t].file.ports
        <3> TAKE t \in Slots
        <3> HAVE t # s /\ At(t, "save")
        <3>1. SaveHolds(t) /\ call[t].vm \in Vms
            BY Parts, Typed DEF SavesHold, At
        <3> QED
            BY <1>2, <1>4, <3>1, PortsAssumption DEF SaveHolds, Clean
    <2>4. Unruled(p)'
        BY <1>1 DEF Unruled, At
    <2>5. CallHolds(s)'
        <3>1. \A t \in Slots : Holds(t)' /\ call'[t].port = p => t = s
            BY <2>1, <1>1, OthersSee
        <3>2. Present(v)' /\ Registered(v)'
            BY <1>2, <2>2 DEF Present, Registered
        <3> QED
            BY <1>1, <1>2, <2>1, <2>2, <3>1, <3>2 DEF CallHolds, At
    <2>6. ASSUME crashes = 0, NEW r \in dnat, r.port = p PROVE FALSE
        <3>1. RuleOwned(r)
            BY <1>2, <1>4, <2>6, Parts DEF RulesOwned
        <3>2. ~Unruling(p)
            BY <1>1, <2>1 DEF Unruling, Holds, At
        <3> QED
            BY <1>2, <2>1, <2>6, <3>1, <3>2 DEF RuleOwned
    <2> QED
        BY <1>2, <2>1, <2>2, <2>3, <2>4, <2>5, <2>6
<1>5. ~At(s, "reserve")' /\ ~At(s, "list")' /\ ~At(s, "save")'
    BY <1>1 DEF At
<1> QED
    BY <1>1, <1>2, <1>3, <1>4, <1>5, ForwardStep

LEMMA RollbackHolds ==
    ASSUME PortsInv, NEW s \in Slots, Rollback(s)
    PROVE  ForwardsInv'
<1> DEFINE p == call[s].port
           v == call[s].vm
<1>1. Others(s) /\ call'[s].pc = "idle" /\ call[s].pc = "rollback"
    BY ReturnDoes, Typed DEF Rollback, At
<1>2. Holds(s) /\ ~Holds(s)' /\ ~Busy(s)' /\ p \in Ports /\ v \in Vms
    BY <1>1, Typed DEF Holds, Busy, At
<1>3. /\ UNCHANGED <<pending, handle, dnat, files, del, crashes, misfiled>>
      /\ forwards'[p] = NoVm
      /\ \A q \in Ports : q # p => forwards'[q] = forwards[q]
      /\ suspect \subseteq suspect'
      /\ p \notin suspect' => p \notin suspect /\ ~OnDisk(p)
    BY <1>2, Typed DEF Rollback, kernel, Suspect
<1>4. ASSUME p \notin suspect'
      PROVE  /\ \A t \in Slots : t # s /\ Holds(t) => call[t].port # p
             /\ \A t \in Slots : t # s /\ At(t, "save") =>
                   (p \in call[t].file.ports <=> forwards'[p] = call[t].vm)
             /\ \A w \in Vms : p \notin files[w].ports
             /\ crashes = 0 => \A r \in dnat : r.port = p => RuleOwned(r)'
    <2>1. CallHolds(s) /\ ~OnDisk(p)
        BY <1>2, <1>3, <1>4, Parts DEF CallsHold
    <2>2. \A t \in Slots : At(t, "save") => p \notin call[t].file.ports /\ call[t].vm # NoVm
        BY <2>1, Typed, PortsAssumption DEF OnDisk, At
    <2>3. ASSUME crashes = 0, NEW r \in dnat, r.port = p PROVE FALSE
        <3>1. RuleOwned(r)
            BY <1>3, <1>4, <2>3, Parts DEF RulesOwned
        <3>2. Unruled(p)
            BY <1>1 DEF Unruled, At
        <3> QED
            BY <2>3, <3>1, <3>2 DEF RuleOwned
    <2> QED
        BY <1>3, <2>1, <2>2, <2>3 DEF CallHolds, OnDisk
<1>5. \A w \in Vms : w # NoVm
    BY PortsAssumption
<1>6. ~At(s, "reserve")' /\ ~At(s, "list")' /\ ~At(s, "save")'
    BY <1>1 DEF At
<1>7. Holds(s) => call[s].port = p
    OBVIOUS
<1> HIDE DEF p, v
<1>8. PICK q \in Ports : q = p
    BY <1>2
<1> QED
    BY <1>1, <1>2, <1>3, <1>4, <1>5, <1>6, <1>7, <1>8, ForwardStep

LEMMA BeginRemoveHolds ==
    ASSUME PortsInv, NEW s \in Slots, NEW p \in Ports, BeginRemove(s, p)
    PROVE  ForwardsInv'
<1>0. PICK v \in Vms : v = forwards[p]
    BY Typed DEF BeginRemove, IsAvailable
<1>1. /\ Others(s) /\ call'[s].pc = "unrule" /\ call'[s].vm = v /\ call'[s].port = p
      /\ call[s].pc = "idle" /\ v \in Vms
    BY <1>0, BeginRemoveDoes, Typed DEF BeginRemove, At
<1>2. /\ UNCHANGED <<pending, handle, dnat, files, del, crashes, misfiled>>
      /\ forwards'[p] = NoVm
      /\ \A q \in Ports : q # p => forwards'[q] = forwards[q]
      /\ suspect \subseteq suspect'
      /\ p \notin suspect' => p \notin suspect /\ ~Contested(s, v, p)
      /\ Serving
    BY <1>0, Typed DEF BeginRemove, kernel, IsAvailable, Suspect, MayBegin
<1>3. ~Holds(s) /\ Holds(s)' /\ v # NoVm
    BY <1>1, PortsAssumption DEF Holds, At
<1>4. ASSUME p \notin suspect'
      PROVE  /\ Holds(s)' => CallHolds(s)'
             /\ \A t \in Slots : t # s /\ Holds(t) => call[t].port # p
             /\ \A t \in Slots : t # s /\ At(t, "save") =>
                   (p \in call[t].file.ports <=> forwards'[p] = call[t].vm)
             /\ crashes = 0 => \A r \in dnat : r.port = p => RuleOwned(r)'
    <2>1. /\ \A t \in Slots : t # s => /\ Holds(t) => call[t].port # p
                                       /\ At(t, "save") => call[t].vm # v
          /\ \A w \in Vms : p \in files[w].ports => w = v
        BY <1>2, <1>4 DEF Contested
    <2>2. p \in Clean /\ Present(v)
        BY <1>0, <1>2, <1>3, <1>4, Parts DEF ForwardsOwned, Clean
    <2>3. \A t \in Slots : t # s /\ At(t, "save") =>
             p \notin call[t].file.ports /\ call[t].vm # NoVm
        <3> TAKE t \in Slots
        <3> HAVE t # s /\ At(t, "save")
        <3>1. SaveHolds(t) /\ call[t].vm \in Vms
            BY Parts, Typed DEF SavesHold, At
        <3> QED
            BY <1>0, <2>1, <2>2, <3>1, PortsAssumption DEF SaveHolds
    <2>4. CallHolds(s)'
        <3>1. \A t \in Slots : Holds(t)' /\ call'[t].port = p => t = s
            BY <2>1, <1>1, OthersSee
        <3>2. Present(v)'
            BY <1>2, <2>2 DEF Present, Registered
        <3> QED
            BY <1>1, <1>2, <2>1, <3>1, <3>2 DEF CallHolds, At
    <2>5. ~Unruled(p)' /\ Unruling(p)'
        BY <1>1, <2>1, OthersSee DEF Unruled, Unruling, Holds, At
    <2> QED
        BY <1>2, <2>1, <2>3, <2>4, <2>5 DEF RuleOwned
<1>5. ~At(s, "reserve")' /\ ~At(s, "list")' /\ ~At(s, "save")'
    BY <1>1 DEF At
<1> QED
    BY <1>1, <1>2, <1>3, <1>4, <1>5, ForwardStep

\* A step of call s that changes nothing but the rules in the kernel.
LEMMA RuleStep ==
    ASSUME PortsInv, NEW s \in Slots, Others(s), Same(s), call'[s].pc = "read",
           call[s].pc \in {"rule", "unrule"},
           UNCHANGED <<pending, handle, forwards, files, del, crashes, misfiled, suspect>>,
           RulesKept', (crashes = 0 => RulesOwned)'
    PROVE  ForwardsInv'
<1>1. /\ \A v : Registered(v)' <=> Registered(v)
      /\ \A v : Present(v)' <=> Present(v)
      /\ Serving' <=> Serving
      /\ Deleting' <=> Deleting
      /\ Clean' = Clean
    BY DEF Registered, Present, Deleting, Serving, Clean
<1>2. Holds(s) /\ Holds(s)' /\ Busy(s)
    BY DEF Holds, Busy, At
<1>3. \A t \in Slots : /\ Holds(t)' <=> Holds(t)
                       /\ call'[t].port = call[t].port /\ call'[t].vm = call[t].vm
                       /\ call'[t].ip = call[t].ip /\ call'[t].file = call[t].file
    BY <1>2, OthersSee DEF Same
<1>4. \A t \in Slots : /\ At(t, "rule")' => At(t, "rule")
                       /\ At(t, "rollback")' => At(t, "rollback")
                       /\ At(t, "unrule")' => At(t, "unrule")
                       /\ At(t, "reserve")' => At(t, "reserve")
                       /\ At(t, "list")' => At(t, "list")
                       /\ At(t, "save")' => At(t, "save")
                       /\ Busy(t)' => Busy(t)
    BY <1>2, OthersSee DEF At
<1>5. \A p : InFlux(p)' <=> InFlux(p)
    BY <1>3 DEF InFlux
<1>6. Working' /\ Addresses'
    BY <1>1, <1>3, <1>4, Parts DEF Working, Addresses
<1>7. CallsHold'
    <2> SUFFICES ASSUME NEW t \in Slots, Holds(t)', call'[t].port \notin suspect'
                 PROVE  CallHolds(t)'
        BY DEF CallsHold
    <2>1. CallHolds(t)
        BY <1>3, Parts DEF CallsHold
    <2> QED
        BY <1>1, <1>3, <1>4, <2>1 DEF CallHolds
<1>8. SavesHold'
    BY <1>1, <1>3, <1>4, Parts DEF SavesHold, SaveHolds
<1>9. DeleteHolds' /\ PendingHold'
    BY <1>1, Parts DEF DeleteHolds, PendingHold
<1>10. ForwardsOwned' /\ FilesApart'
    BY <1>1, Parts DEF ForwardsOwned, FilesApart
<1>11. FilesFollow'
    BY <1>1, <1>5, Parts DEF FilesFollow
<1> QED
    BY <1>6, <1>7, <1>8, <1>9, <1>10, <1>11, Assembled

LEMMA AddRuleHolds ==
    ASSUME PortsInv, NEW s \in Slots, AddRule(s)
    PROVE  ForwardsInv'
<1>1. Others(s) /\ Same(s) /\ call'[s].pc = "read" /\ call[s].pc = "rule"
    BY GotoDoes, Typed DEF AddRule, CallPcs, At
<1>0. PICK p \in Ports, v \in Vms : p = call[s].port /\ v = call[s].vm
    BY <1>1, Typed DEF Holds, At
<1>3. Holds(s) /\ call[s].port = p /\ call[s].vm = v /\ v # NoVm /\ call'[s].port = p
    BY <1>0, <1>1, PortsAssumption DEF Holds, At, Same
<1>2. /\ UNCHANGED <<pending, handle, forwards, files, del, crashes, misfiled, suspect>>
      /\ dnat' = dnat \cup {Rule(p, call[s].ip)}
    BY <1>0 DEF AddRule, history
<1>4. ASSUME p \notin suspect
      PROVE  /\ Present(v) /\ forwards[p] = v
             /\ Registered(v) => call[s].ip = handle[v].ip
             /\ ~Unruled(p)'
    <2>1. CallHolds(s)
        BY <1>3, <1>4, Parts DEF CallsHold
    <2>2. ASSUME NEW t \in Slots, (At(t, "rule") \/ At(t, "rollback"))' PROVE call'[t].port # p
        <3>1. t # s
            BY <1>1, <2>2 DEF At
        <3>2. call'[t] = call[t]
            BY <1>1, <3>1 DEF Others
        <3>3. Holds(t)
            BY <2>2, <3>2 DEF Holds, At
        <3> QED
            BY <1>3, <2>1, <3>1, <3>2, <3>3 DEF CallHolds
    <2>3. ~Unruled(p)'
        BY <2>2 DEF Unruled
    <2> QED
        BY <1>1, <1>3, <2>1, <2>3 DEF CallHolds, At
<1>5. \A q : q # p => (Unruled(q)' <=> Unruled(q))
    BY <1>1, <1>3, OthersSee DEF Unruled, At
<1>6. \A q : (Unruling(q)' <=> Unruling(q)) /\ (Unruled(q)' => Unruled(q))
    BY <1>1, OthersSee DEF Unruling, Unruled, At, Same
<1>7. \A w : BeingDeleted(w)' <=> BeingDeleted(w)
    BY <1>2 DEF BeingDeleted, Deleting
<1>8. RulesKept'
    <2> SUFFICES ASSUME NEW q \in Clean, forwards[q] # NoVm, ~Unruled(q)',
                        handle[forwards[q]].state = "running"
                 PROVE  Rule(q, handle[forwards[q]].ip) \in dnat'
        BY <1>2 DEF RulesKept, Clean
    <2>1. CASE q = p
        BY <1>2, <1>4, <2>1 DEF Clean, Registered
    <2>2. CASE q # p
        BY <1>2, <1>5, <2>2, Parts DEF RulesKept
    <2> QED
        BY <2>1, <2>2
<1>9. (crashes = 0 => RulesOwned)'
    <2> SUFFICES ASSUME crashes = 0 PROVE RulesOwned'
        BY <1>2
    <2>1. RulesOwned
        BY Parts
    <2>2. ASSUME NEW r \in dnat, r.port \notin suspect PROVE RuleOwned(r)'
        <3>1. RuleOwned(r)
            BY <2>1, <2>2 DEF RulesOwned
        <3> QED
            BY <1>2, <1>6, <1>7, <3>1 DEF RuleOwned
    <2>3. ASSUME NEW r, r = Rule(p, call[s].ip), p \notin suspect
          PROVE  RuleOwned(r)'
        <3>1. r.port = p /\ r.ip = call[s].ip
            BY <2>3 DEF Rule
        <3>2. BeingDeleted(v)' \/ r.ip = handle'[v].ip
            BY <1>2, <1>4, <1>7, <2>3, <3>1 DEF Present, BeingDeleted, Deleting
        <3>3. forwards'[p] = v /\ ~Unruled(p)'
            BY <1>2, <1>4, <2>3
        <3> QED
            BY <1>3, <3>1, <3>2, <3>3 DEF RuleOwned
    <2>4. Rule(p, call[s].ip).port = p
        BY DEF Rule
    <2> QED
        BY <1>2, <2>1, <2>2, <2>3, <2>4 DEF RulesOwned
<1> QED
    BY <1>1, <1>2, <1>8, <1>9, RuleStep

LEMMA RemoveRuleHolds ==
    ASSUME PortsInv, NEW s \in Slots, RemoveRule(s)
    PROVE  ForwardsInv'
<1>1. Others(s) /\ Same(s) /\ call'[s].pc = "read" /\ call[s].pc = "unrule"
    BY GotoDoes, Typed DEF RemoveRule, CallPcs, At
<1>2. /\ UNCHANGED <<pending, handle, forwards, files, del, crashes, misfiled, suspect>>
      /\ dnat' = {r \in dnat : r.port # call[s].port}
    BY DEF RemoveRule, history, Without
<1>3. Holds(s) /\ call[s].port \in Ports
    BY <1>1, Typed DEF Holds, At
<1>4. call[s].port \notin suspect => forwards[call[s].port] = NoVm
    BY <1>1, <1>3, Parts DEF CallsHold, CallHolds, At
<1>5. \A q : (Unruled(q)' <=> Unruled(q))
    BY <1>1, OthersSee DEF Unruled, At, Same
<1>6. \A q : q # call[s].port => (Unruling(q)' <=> Unruling(q))
    BY <1>1, OthersSee DEF Unruling, At, Same
<1>7. \A v : BeingDeleted(v)' <=> BeingDeleted(v)
    BY <1>2 DEF BeingDeleted, Deleting
<1>8. RulesKept'
    <2> SUFFICES ASSUME NEW q \in Clean, forwards[q] # NoVm, ~Unruled(q),
                        handle[forwards[q]].state = "running"
                 PROVE  Rule(q, handle[forwards[q]].ip) \in dnat'
        BY <1>2, <1>5 DEF RulesKept, Clean
    <2>1. q # call[s].port
        BY <1>4 DEF Clean
    <2>2. Rule(q, handle[forwards[q]].ip) \in dnat
        BY Parts DEF RulesKept
    <2> QED
        BY <1>2, <2>1, <2>2 DEF Rule
<1>9. (crashes = 0 => RulesOwned)'
    <2> SUFFICES ASSUME crashes = 0 PROVE RulesOwned'
        BY <1>2
    <2>1. RulesOwned
        BY Parts
    <2>2. ASSUME NEW r \in dnat', r.port \notin suspect PROVE RuleOwned(r)'
        <3>1. RuleOwned(r) /\ r.port # call[s].port
            BY <1>2, <2>1, <2>2 DEF RulesOwned
        <3> QED
            BY <1>2, <1>5, <1>6, <1>7, <3>1 DEF RuleOwned
    <2> QED
        BY <1>2, <2>1, <2>2 DEF RulesOwned
<1> QED
    BY <1>1, <1>2, <1>8, <1>9, RuleStep

\* What is saved is the list of the map, so that the file is right about every
\* port that is not suspect, that of the call included.
LEMMA PersistSaveHolds ==
    ASSUME PortsInv, NEW s \in Slots, PersistSave(s)
    PROVE  ForwardsInv'
<1>1. Others(s) /\ call'[s].pc = "idle" /\ call[s].pc = "save"
    BY ReturnDoes, Typed DEF PersistSave, At
<1>2. Holds(s) /\ ~Holds(s)' /\ ~Busy(s)' /\ Busy(s)
    BY <1>1 DEF Holds, Busy, At
<1>3. PICK v \in Vms : v = call[s].vm
    BY <1>2, Typed
<1>4. PICK f \in Files : f = call[s].file
    BY Typed, CallFields
<1>5. /\ UNCHANGED <<pending, handle, forwards, dnat, del, crashes, suspect>>
      /\ files'[v] = f
      /\ \A w \in Vms : w # v => files'[w] = files[w]
      /\ f.ip = handle[v].ip => misfiled' = misfiled
      /\ f.ip # handle[v].ip => misfiled' = misfiled \cup {v}
    BY <1>3, <1>4, Typed DEF PersistSave, kernel
<1>6. f.ip \in Ips /\ \A p \in Clean : p \in f.ports <=> forwards[p] = v
    BY <1>1, <1>3, <1>4, Parts DEF Addresses, SavesHold, SaveHolds, At
<1>7. /\ \A w : Registered(w)' <=> Registered(w)
      /\ \A w : Present(w)' <=> Present(w)
      /\ \A w : BeingDeleted(w)' <=> BeingDeleted(w)
      /\ Serving' <=> Serving
      /\ Deleting' <=> Deleting
      /\ Clean' = Clean
    BY <1>5 DEF Registered, Present, BeingDeleted, Deleting, Serving, Clean
<1>8. \A p : /\ Unruled(p)' <=> Unruled(p)
             /\ Unruling(p)' <=> Unruling(p)
             /\ InFlux(p)' => InFlux(p)
             /\ InFlux(p) => InFlux(p)' \/ p = call[s].port
    BY <1>1, <1>2, OthersSee DEF Unruled, Unruling, InFlux, At
<1>9. f # NoFile
    BY <1>6, PortsAssumption DEF NoFile
<1>10. Working' /\ Addresses'
    BY <1>1, <1>2, <1>5, <1>6, <1>7, OthersSee, Parts DEF Working, Addresses, At
<1>11. ASSUME NEW p \in Clean, NEW w \in Vms, p \in files'[w].ports
       PROVE  \/ w = v /\ forwards[p] = v
              \/ w # v /\ p \in files[w].ports
    BY <1>5, <1>6, <1>11
<1>12. CallsHold'
    <2> SUFFICES ASSUME NEW t \in Slots, Holds(t)', call'[t].port \notin suspect'
                 PROVE  CallHolds(t)'
        BY DEF CallsHold
    <2>1. t # s /\ Holds(t) /\ call'[t] = call[t] /\ call[t].port \in Clean
        BY <1>1, <1>2, <1>5, OthersSee, Typed DEF Clean
    <2>2. CallHolds(t)
        BY <2>1, Parts DEF CallsHold, Clean
    <2>3. \A w \in Vms : call[t].port \in files'[w].ports => w = call[t].vm
        BY <1>11, <2>1, <2>2, PortsAssumption DEF CallHolds
    <2>4. \A u \in Slots : Holds(u)' => Holds(u) /\ call'[u] = call[u]
        BY <1>1, <1>2, OthersSee
    <2>5. /\ At(t, "rule")' <=> At(t, "rule")
          /\ At(t, "rollback")' <=> At(t, "rollback")
          /\ At(t, "unrule")' <=> At(t, "unrule")
        BY <1>1, <2>1, OthersSee
    <2> QED
        BY <1>5, <1>7, <2>1, <2>2, <2>3, <2>4, <2>5 DEF CallHolds
<1>13. SavesHold'
    <2> SUFFICES ASSUME NEW t \in Slots, At(t, "save")' PROVE SaveHolds(t)'
        BY DEF SavesHold
    <2>1. t # s
        BY <1>1 DEF At
    <2>2. call'[t] = call[t] /\ SaveHolds(t)
        BY <1>1, <2>1, OthersSee, Parts DEF SavesHold
    <2> QED
        BY <1>5, <1>7, <2>2 DEF SaveHolds
<1>14. DeleteHolds'
    BY <1>5, <1>7, Parts DEF DeleteHolds
<1>15. PendingHold'
    BY <1>5, <1>7, <1>9, Typed, Parts DEF PendingHold
<1>16. ForwardsOwned'
    BY <1>5, <1>7, <1>11, Parts DEF ForwardsOwned
<1>17. FilesApart'
    <2> SUFFICES ASSUME NEW x \in Vms, NEW w \in Vms, NEW p \in Clean,
                        p \in files'[x].ports, p \in files'[w].ports
                 PROVE  x = w
        BY <1>7 DEF FilesApart
    <2> QED
        BY <1>11, Parts, PortsAssumption DEF FilesApart, ForwardsOwned
<1>18. FilesFollow'
    <2> SUFFICES ASSUME NEW w \in Vms, Registered(w), w \notin misfiled'
                 PROVE  /\ files'[w].ip = handle[w].ip
                        /\ \A p \in Clean : ~InFlux(p)' => (p \in files'[w].ports <=> forwards[p] = w)
        BY <1>5, <1>7 DEF FilesFollow
    <2>1. CASE w = v
        BY <1>5, <1>6, <2>1
    <2>2. CASE w # v
        <3>1. w \notin misfiled /\ files'[w] = files[w] /\ files[w].ip = handle[w].ip
            BY <1>5, <2>2, Parts DEF FilesFollow
        <3>2. ASSUME NEW p \in Clean, ~InFlux(p)' PROVE p \in files[w].ports <=> forwards[p] = w
            <4>1. CASE ~InFlux(p)
                BY <3>1, <4>1, Parts DEF FilesFollow
            <4>2. CASE p = call[s].port
                <5>1. CallHolds(s)
                    BY <1>2, <3>2, <4>2, Parts DEF CallsHold, Clean
                <5> QED
                    BY <1>3, <2>2, <4>2, <5>1, PortsAssumption DEF CallHolds
            <4> QED
                BY <1>8, <3>2, <4>1, <4>2
        <3> QED
            BY <3>1, <3>2
    <2> QED
        BY <2>1, <2>2
<1>19. RulesKept'
    BY <1>5, <1>7, <1>8, Parts DEF RulesKept
<1>20. (crashes = 0 => RulesOwned)'
    BY <1>5, <1>7, <1>8, Parts DEF RulesOwned, RuleOwned
<1> QED
    BY <1>10, <1>12, <1>13, <1>14, <1>15, <1>16, <1>17, <1>18, <1>19, <1>20, Assembled


-----------------------------------------------------------------------------
(* create_vm and delete_vm *)

\* A VM that is created was not there: the map has nothing of it, but for
\* suspect ports.
LEMMA CreateHolds ==
    ASSUME PortsInv, NEW v \in Vms, Create(v)
    PROVE  ForwardsInv'
<1>1. pending = {} /\ ~Deleting /\ ~Registered(v) /\ ~Present(v)
    BY DEF Create, Serving, Present, Deleting
<1>2. PICK ip \in Ips :
         /\ handle' = [handle EXCEPT ![v] = [state |-> "running", ip |-> ip]]
         /\ \/ files' = [files EXCEPT ![v] = [ip |-> ip, ports |-> {}]] /\ UNCHANGED misfiled
            \/ UNCHANGED files /\ misfiled' = misfiled \cup {v}
    BY DEF Create
<1>3. UNCHANGED <<pending, forwards, dnat, call, del, crashes, suspect>>
    BY DEF Create
<1>4. /\ handle'[v].ip = ip /\ handle'[v].state = "running"
      /\ \A w \in Vms : w # v => handle'[w] = handle[w] /\ files'[w] = files[w]
      /\ \/ files'[v].ip = ip /\ files'[v].ports = {} /\ UNCHANGED misfiled
         \/ files'[v] = files[v] /\ v \in misfiled'
      /\ misfiled \subseteq misfiled'
    BY <1>2, Typed
<1>5. /\ Registered(v)' /\ \A w \in Vms : w # v => (Registered(w)' <=> Registered(w))
      /\ \A w \in Vms : w # v => (Present(w)' <=> Present(w))
      /\ \A w : BeingDeleted(w)' <=> BeingDeleted(w)
      /\ Serving' /\ ~Deleting' /\ Clean' = Clean
    BY <1>1, <1>3, <1>4 DEF Registered, Present, BeingDeleted, Deleting, Serving, Clean
<1>6. /\ \A p \in Clean : forwards[p] # v
      /\ \A w \in Vms : \A p \in files'[w].ports : p \in files[w].ports
    BY <1>1, <1>4, Parts, PortsAssumption DEF ForwardsOwned
<1>7. Working' /\ DeleteHolds' /\ PendingHold'
    BY <1>1, <1>3, <1>5 DEF Working, DeleteHolds, PendingHold
<1>8. Addresses'
    BY <1>3, <1>4, <1>5, CallsKept, Parts DEF Addresses
<1>9. CallsHold'
    <2> SUFFICES ASSUME NEW s \in Slots, Holds(s), call[s].port \notin suspect
                 PROVE  CallHolds(s)'
        BY <1>3, CallsKept DEF CallsHold
    <2>1. CallHolds(s)
        BY Parts DEF CallsHold
    <2>2. call[s].vm # v /\ call[s].vm \in Vms
        BY <1>1, <2>1, Typed DEF CallHolds
    <2>3. handle'[call[s].vm] = handle[call[s].vm] /\ Present(call[s].vm)
        BY <1>4, <2>1, <2>2 DEF CallHolds
    <2>4. Present(call[s].vm)' /\ (Registered(call[s].vm)' <=> Registered(call[s].vm))
        BY <1>3, <2>3 DEF Registered, Present
    <2> QED
        BY <1>3, <1>6, <2>1, <2>2, <2>3, <2>4, CallsKept DEF CallHolds
<1>10. SavesHold'
    BY <1>3, <1>5, CallsKept, Parts DEF SavesHold, SaveHolds
<1>11. ForwardsOwned'
    <2> SUFFICES ASSUME NEW p \in Clean, forwards[p] # NoVm
                 PROVE  /\ Present(forwards[p])'
                        /\ \A w \in Vms : p \in files'[w].ports => w = forwards[p]
        BY <1>3, <1>5 DEF ForwardsOwned
    <2>1. PICK x \in Vms : x = forwards[p]
        BY Typed DEF Clean
    <2>2. x # v /\ Present(x) /\ forwards'[p] = x
        BY <1>3, <1>6, <2>1, Parts DEF ForwardsOwned
    <2> QED
        BY <1>5, <1>6, <2>1, <2>2, Parts DEF ForwardsOwned
<1>12. FilesApart'
    BY <1>5, <1>6, Parts DEF FilesApart
<1>13. FilesFollow'
    BY <1>3, <1>4, <1>5, <1>6, CallsKept, Parts DEF FilesFollow
<1>14. RulesKept'
    <2> SUFFICES ASSUME NEW p \in Clean, forwards[p] # NoVm, ~Unruled(p),
                        handle'[forwards[p]].state = "running"
                 PROVE  Rule(p, handle'[forwards[p]].ip) \in dnat
        BY <1>3, <1>5, CallsKept DEF RulesKept
    <2>1. handle'[forwards[p]] = handle[forwards[p]]
        BY <1>4, <1>6, Typed DEF Clean
    <2> QED
        BY <2>1, Parts DEF RulesKept
<1>15. (crashes = 0 => RulesOwned)'
    <2> SUFFICES ASSUME crashes = 0 PROVE RulesOwned'
        BY <1>3
    <2>1. RulesOwned
        BY Parts
    <2>2. ASSUME NEW r \in dnat, r.port \notin suspect PROVE RuleOwned(r)'
        <3>1. RuleOwned(r) /\ r.port \in Clean
            BY <2>1, <2>2, Typed DEF RulesOwned, Clean
        <3>2. forwards[r.port] # NoVm => handle'[forwards[r.port]] = handle[forwards[r.port]]
            BY <1>4, <1>6, <3>1, Typed DEF Clean
        <3> QED
            BY <1>3, <1>5, <3>1, <3>2, CallsKept DEF RuleOwned
    <2>3. \A w \in Vms : handle'[w].state # "stopped"
        BY <1>4, <2>1 DEF RulesOwned
    <2> QED
        BY <1>3, <2>1, <2>2, <2>3 DEF RulesOwned
<1> QED
    BY <1>7, <1>8, <1>9, <1>10, <1>11, <1>12, <1>13, <1>14, <1>15, Assembled

LEMMA BeginDeleteHolds ==
    ASSUME PortsInv, NEW v \in Vms, BeginDelete(v)
    PROVE  ForwardsInv'
<1>1. pending = {} /\ ~Deleting /\ Registered(v)
    BY DEF BeginDelete, MayBegin, Serving
<1>2. /\ UNCHANGED <<pending, forwards, dnat, files, call, crashes, suspect, misfiled>>
      /\ handle' = [handle EXCEPT ![v] = NoHandle]
      /\ del' = [NoDelete EXCEPT !.pc = "forwards", !.vm = v, !.ip = handle[v].ip]
    BY DEF BeginDelete, history
<1>3. del'.pc = "forwards" /\ del'.vm = v
    BY <1>2, DeleteBegins, HandleFields, Typed
<1>4. /\ handle'[v] = NoHandle /\ NoHandle.ip = NoIp /\ NoHandle.state = "absent"
      /\ \A w \in Vms : w # v => handle'[w] = handle[w]
    BY <1>2, Typed DEF NoHandle
<1>5. /\ ~Registered(v)' /\ \A w \in Vms : w # v => (Registered(w)' <=> Registered(w))
      /\ \A w \in Vms : Present(w)' <=> Present(w)
      /\ BeingDeleted(v)' /\ Serving' /\ Clean' = Clean
    BY <1>1, <1>2, <1>3, <1>4 DEF Registered, Present, BeingDeleted, Deleting, Serving, Clean
<1>6. Working' /\ DeleteHolds' /\ PendingHold'
    BY <1>1, <1>2, <1>3, <1>5 DEF Working, DeleteHolds, PendingHold
<1>7. Addresses'
    BY <1>2, <1>4, <1>5, CallsKept, Parts DEF Addresses
<1>8. CallsHold'
    <2> SUFFICES ASSUME NEW s \in Slots, Holds(s), call[s].port \notin suspect
                 PROVE  CallHolds(s)'
        BY <1>2, CallsKept DEF CallsHold
    <2>1. PICK x \in Vms : x = call[s].vm
        BY Typed
    <2>2. CallHolds(s) /\ Present(x)'
        BY <1>5, <2>1, Parts DEF CallsHold, CallHolds
    <2>3. Registered(x)' => Registered(x) /\ handle'[x] = handle[x]
        BY <1>4, <1>5
    <2> QED
        BY <1>2, <2>1, <2>2, <2>3, CallsKept DEF CallHolds
<1>9. SavesHold' /\ FilesApart'
    BY <1>2, <1>5, CallsKept, Parts DEF SavesHold, SaveHolds, FilesApart
<1>10. ForwardsOwned'
    <2> SUFFICES ASSUME NEW p \in Clean, forwards[p] # NoVm
                 PROVE  /\ Present(forwards[p])'
                        /\ \A w \in Vms : p \in files[w].ports => w = forwards[p]
        BY <1>2, <1>5 DEF ForwardsOwned
    <2>1. PICK x \in Vms : x = forwards[p] /\ x = forwards'[p]
        BY <1>2, Typed DEF Clean
    <2> QED
        BY <1>5, <2>1, Parts DEF ForwardsOwned
<1>11. FilesFollow'
    BY <1>2, <1>4, <1>5, CallsKept, Parts DEF FilesFollow
<1>12. RulesKept'
    <2> SUFFICES ASSUME NEW p \in Clean, forwards[p] # NoVm, ~Unruled(p),
                        handle'[forwards[p]].state = "running"
                 PROVE  Rule(p, handle'[forwards[p]].ip) \in dnat
        BY <1>2, <1>5, CallsKept DEF RulesKept
    <2>1. handle'[forwards[p]] = handle[forwards[p]]
        BY <1>4, Typed DEF Clean
    <2> QED
        BY <2>1, Parts DEF RulesKept
<1>13. (crashes = 0 => RulesOwned)'
    <2> SUFFICES ASSUME crashes = 0 PROVE RulesOwned'
        BY <1>2
    <2>1. RulesOwned
        BY Parts
    <2>2. ASSUME NEW r \in dnat, r.port \notin suspect PROVE RuleOwned(r)'
        <3>1. RuleOwned(r) /\ r.port \in Ports
            BY <2>1, <2>2, Typed DEF RulesOwned
        <3>2. \/ forwards[r.port] = v
              \/ forwards[r.port] # v /\ forwards[r.port] # NoVm /\ r.ip = handle'[forwards[r.port]].ip
              \/ Unruling(r.port)
            BY <1>1, <1>4, <3>1, Typed DEF RuleOwned, BeingDeleted, Deleting
        <3>3. v # NoVm
            BY PortsAssumption
        <3> QED
            BY <1>2, <1>5, <3>1, <3>2, <3>3, CallsKept DEF RuleOwned
    <2>3. \A w \in Vms : handle'[w].state # "stopped"
        BY <1>4, <2>1 DEF RulesOwned
    <2> QED
        BY <1>2, <2>1, <2>2, <2>3 DEF RulesOwned
<1> QED
    BY <1>6, <1>7, <1>8, <1>9, <1>10, <1>11, <1>12, <1>13, Assembled

\* What the invariant says of the VM of delete_vm.
LEMMA DeleteReady ==
    ASSUME PortsInv, Deleting
    PROVE  /\ pending = {} /\ del.vm \in Vms /\ del.vm # NoVm /\ ~Registered(del.vm)
           /\ del.pc = "rules" => \A p \in del.ports \ suspect : forwards[p] = NoVm
BY Typed, Parts, PortsAssumption DEF Working, DeleteHolds, Serving

LEMMA DeleteForwardsHolds ==
    ASSUME PortsInv, DeleteForwards
    PROVE  ForwardsInv'
<1>1. Deleting /\ del.pc = "forwards"
    BY DEF DeleteForwards, Deleting
<1>2. PICK v \in Vms : v = del.vm
    BY <1>1, DeleteReady
<1>3. pending = {} /\ v # NoVm /\ ~Registered(v)
    BY <1>1, <1>2, DeleteReady
<1>4. PICK ports \in SUBSET Ports : ports = ListForVm(v)
    BY DEF ListForVm
<1>5. del'.pc = "rules" /\ del'.vm = v /\ del'.ports = ports
    <2>1. del' = [del EXCEPT !.pc = "rules", !.ports = ports] /\ del \in Deletes
        BY <1>2, <1>4, Typed DEF DeleteForwards
    <2> QED
        BY <1>2, <2>1, DeleteTakesPorts
<1>6. /\ UNCHANGED <<pending, handle, dnat, files, call, crashes, misfiled>>
      /\ \A p \in Ports : forwards'[p] = IF forwards[p] = v THEN NoVm ELSE forwards[p]
      /\ suspect \subseteq suspect'
      /\ (\E s \in Slots : Holds(s) /\ call[s].vm = v) => PortsOf(v) \subseteq suspect'
    BY <1>2 DEF DeleteForwards, kernel, Suspect
<1>7. /\ \A w : Registered(w)' <=> Registered(w)
      /\ \A w : w # v => (Present(w)' <=> Present(w))
      /\ \A w : BeingDeleted(w)' <=> BeingDeleted(w)
      /\ Serving' /\ Deleting'
    BY <1>1, <1>2, <1>3, <1>5, <1>6
    DEF Registered, Present, BeingDeleted, Deleting, Serving
<1>8. \A p : p \in Clean' => p \in Clean /\ p \in Ports /\ p \notin suspect'
    BY <1>6 DEF Clean
<1>9. ASSUME NEW s \in Slots, Holds(s), call[s].vm = v
      PROVE  /\ call[s].port \in suspect'
             /\ \A p \in Clean' : forwards[p] # v
    BY <1>6, <1>8, <1>9, Typed DEF PortsOf, ListForVm
<1>10. Working' /\ PendingHold' /\ Addresses'
    BY <1>3, <1>6, <1>7, CallsKept, Parts DEF Working, PendingHold, Addresses
<1>11. CallsHold'
    <2> SUFFICES ASSUME NEW s \in Slots, Holds(s), call[s].port \notin suspect'
                 PROVE  CallHolds(s)'
        BY <1>6, CallsKept DEF CallsHold
    <2>1. CallHolds(s) /\ call[s].vm # v /\ call[s].port \in Ports /\ call[s].vm \in Vms
        BY <1>6, <1>9, Parts, Typed DEF CallsHold
    <2>2. forwards[call[s].port] # v
        BY <1>3, <2>1 DEF CallHolds
    <2>3. forwards'[call[s].port] = forwards[call[s].port]
        BY <1>6, <2>1, <2>2
    <2>4. Present(call[s].vm)' /\ (Registered(call[s].vm)' <=> Registered(call[s].vm))
        <3>1. PICK x \in Vms : x = call[s].vm /\ x = call'[s].vm
            BY <1>6, <2>1
        <3> QED
            BY <1>7, <2>1, <3>1 DEF CallHolds
    <2> QED
        BY <1>6, <2>1, <2>3, <2>4, CallsKept DEF CallHolds
<1>12. SavesHold'
    <2> SUFFICES ASSUME NEW s \in Slots, At(s, "save"), NEW p \in Clean'
                 PROVE  p \in call[s].file.ports <=> forwards'[p] = call[s].vm
        BY <1>6, CallsKept DEF SavesHold, SaveHolds
    <2>1. SaveHolds(s) /\ Holds(s) /\ call[s].vm \in Vms
        BY Parts, Typed DEF SavesHold, Holds, At
    <2>2. CASE call[s].vm = v
        BY <1>6, <1>8, <1>9, <2>1, <2>2 DEF SaveHolds
    <2>3. CASE call[s].vm # v
        BY <1>6, <1>8, <2>1, <2>3, PortsAssumption DEF SaveHolds
    <2> QED
        BY <2>2, <2>3
<1>13. DeleteHolds'
    BY <1>3, <1>4, <1>5, <1>6, <1>7 DEF DeleteHolds, ListForVm
<1>14. ForwardsOwned'
    <2> SUFFICES ASSUME NEW p \in Clean', forwards'[p] # NoVm
                 PROVE  /\ Present(forwards[p])'
                        /\ \A w \in Vms : p \in files[w].ports => w = forwards[p]
                        /\ forwards'[p] = forwards[p]
        BY <1>6 DEF ForwardsOwned
    <2>1. p \in Clean /\ forwards'[p] = forwards[p] /\ forwards[p] # v
        BY <1>6, <1>8
    <2>2. PICK x : x = forwards[p] /\ x = forwards'[p]
        BY <2>1
    <2>3. Present(x) /\ \A w \in Vms : p \in files[w].ports => w = x
        BY <2>1, <2>2, Parts DEF ForwardsOwned
    <2> QED
        BY <1>7, <2>1, <2>2, <2>3
<1>15. FilesApart'
    BY <1>6, <1>8, Parts DEF FilesApart
<1>16. FilesFollow'
    <2> SUFFICES ASSUME NEW w \in Vms, Registered(w), w \notin misfiled
                 PROVE  /\ files[w].ip = handle[w].ip
                        /\ \A p \in Clean' : ~InFlux(p) => (p \in files[w].ports <=> forwards'[p] = w)
        BY <1>6, <1>7, CallsKept DEF FilesFollow
    <2>1. w # v /\ w # NoVm
        BY <1>3, PortsAssumption
    <2> QED
        BY <1>6, <1>8, <2>1, Parts DEF FilesFollow
<1>17. RulesKept'
    BY <1>6, <1>8, CallsKept, Parts DEF RulesKept
<1>18. (crashes = 0 => RulesOwned)'
    <2> SUFFICES ASSUME crashes = 0 PROVE RulesOwned'
        BY <1>6
    <2>1. RulesOwned
        BY Parts
    <2>2. ASSUME NEW r \in dnat, r.port \notin suspect' PROVE RuleOwned(r)'
        <3>1. RuleOwned(r) /\ r.port \in Ports
            BY <1>6, <2>1, <2>2, Typed DEF RulesOwned
        <3>2. CASE forwards[r.port] = v
            BY <1>4, <1>5, <1>6, <3>1, <3>2, CallsKept DEF RuleOwned, ListForVm
        <3>3. CASE forwards[r.port] # v
            BY <1>1, <1>6, <1>7, <3>1, <3>3, CallsKept DEF RuleOwned
        <3> QED
            BY <3>2, <3>3
    <2> QED
        BY <1>6, <2>1, <2>2 DEF RulesOwned
<1> QED
    BY <1>10, <1>11, <1>12, <1>13, <1>14, <1>15, <1>16, <1>17, <1>18, Assembled

\* A step of delete_vm that removes no forward and no state file.
LEMMA DeletingStep ==
    ASSUME PortsInv, Deleting, Deleting', UNCHANGED del.vm, del.pc # "forwards",
           del'.pc \notin {"forwards", "rules"}, suspect \subseteq suspect',
           UNCHANGED <<pending, handle, forwards, files, call, crashes, misfiled>>,
           RulesKept', (crashes = 0 => RulesOwned)'
    PROVE  ForwardsInv'
<1>1. /\ \A w : Registered(w)' <=> Registered(w)
      /\ \A w : Present(w)' <=> Present(w)
      /\ Serving' <=> Serving
      /\ \A p : p \in Clean' => p \in Clean
    BY DEF Registered, Present, Serving, Clean
<1>2. Working' /\ PendingHold' /\ Addresses'
    BY <1>1, CallsKept, Parts DEF Working, PendingHold, Addresses
<1>3. CallsHold'
    <2> SUFFICES ASSUME NEW s \in Slots, Holds(s), call[s].port \notin suspect'
                 PROVE  CallHolds(s)'
        BY CallsKept DEF CallsHold
    <2>1. CallHolds(s)
        BY Parts DEF CallsHold
    <2> QED
        BY <1>1, <2>1, CallsKept DEF CallHolds
<1>4. SavesHold' /\ DeleteHolds'
    BY <1>1, CallsKept, Parts, DeleteReady DEF SavesHold, SaveHolds, DeleteHolds
<1>5. ForwardsOwned' /\ FilesApart' /\ FilesFollow'
    BY <1>1, CallsKept, Parts DEF ForwardsOwned, FilesApart, FilesFollow
<1> QED
    BY <1>2, <1>3, <1>4, <1>5, Assembled

LEMMA DeleteRulesHolds ==
    ASSUME PortsInv, DeleteRules
    PROVE  ForwardsInv'
<1>1. Deleting /\ del.pc = "rules" /\ del \in Deletes
    BY Typed DEF DeleteRules, Deleting
<1>2. del'.pc = "chain" /\ UNCHANGED del.vm /\ Deleting'
    BY <1>1, DeleteMoves DEF DeleteRules, DeletePcs, Deleting
<1>3. /\ UNCHANGED <<pending, handle, forwards, files, call, crashes, misfiled>>
      /\ suspect \subseteq suspect'
      /\ \A r \in dnat' : r \in dnat /\ (r.port \in del.ports => r.port \in suspect')
      /\ \A r \in dnat : r.port \notin del.ports => r \in dnat'
    BY DEF DeleteRules, Without, Suspect
<1>4. \A p : p \in Clean' => p \in Clean /\ p \notin suspect
    BY <1>3 DEF Clean
<1>5. RulesKept'
    <2> SUFFICES ASSUME NEW p \in Clean', forwards[p] # NoVm, ~Unruled(p),
                        handle[forwards[p]].state = "running"
                 PROVE  Rule(p, handle[forwards[p]].ip) \in dnat'
        BY <1>3, CallsKept DEF RulesKept
    <2>1. Rule(p, handle[forwards[p]].ip) \in dnat
        BY <1>4, Parts DEF RulesKept
    <2>2. p \notin del.ports
        BY <1>1, <1>4, DeleteReady
    <2> QED
        BY <1>3, <2>1, <2>2 DEF Rule
<1>6. (crashes = 0 => RulesOwned)'
    <2> SUFFICES ASSUME crashes = 0 PROVE RulesOwned'
        BY <1>3
    <2>1. RulesOwned
        BY Parts
    <2>2. ASSUME NEW r \in dnat', r.port \notin suspect' PROVE RuleOwned(r)'
        <3>1. RuleOwned(r) /\ r.port \notin del.ports
            BY <1>3, <2>1, <2>2 DEF RulesOwned
        <3>2. \A w : BeingDeleted(w) => BeingDeleted(w)'
            BY <1>2 DEF BeingDeleted
        <3> QED
            BY <1>3, <3>1, <3>2, CallsKept DEF RuleOwned
    <2> QED
        BY <1>3, <2>1, <2>2 DEF RulesOwned
<1> QED
    BY <1>1, <1>2, <1>3, <1>5, <1>6, DeletingStep

LEMMA DeleteChainHolds ==
    ASSUME PortsInv, DeleteChain
    PROVE  ForwardsInv'
<1>1. Deleting /\ del.pc = "chain" /\ del \in Deletes
    BY Typed DEF DeleteChain, Deleting
<1>2. del'.pc = "file" /\ UNCHANGED del.vm /\ Deleting'
    BY <1>1, DeleteMoves DEF DeleteChain, DeletePcs, Deleting
<1>3. UNCHANGED <<pending, handle, forwards, dnat, files, call, crashes, suspect, misfiled>>
    BY DEF DeleteChain, history
<1>4. RulesKept'
    BY <1>3, CallsKept, Parts DEF RulesKept, Clean
<1>5. (crashes = 0 => RulesOwned)'
    <2>1. \A w : BeingDeleted(w) => BeingDeleted(w)'
        BY <1>2 DEF BeingDeleted
    <2> QED
        BY <1>1, <1>3, <2>1, CallsKept, Parts DEF RulesOwned, RuleOwned
<1> QED
    BY <1>1, <1>2, <1>3, <1>4, <1>5, DeletingStep

\* delete_vm ends, with the state file or without it: but for suspect ports,
\* nothing in the map is the VM's any more.
LEMMA DeleteEnds ==
    ASSUME PortsInv, Deleting, del'.pc = "idle", del.pc # "rules",
           del.pc = "forwards" => PortsOf(del.vm) \subseteq suspect',
           suspect \subseteq suspect',
           UNCHANGED <<pending, handle, forwards, dnat, call, crashes, misfiled>>,
           \A v \in Vms : files'[v] = files[v] \/ (v = del.vm /\ files'[v] = NoFile)
    PROVE  ForwardsInv'
<1>1. PICK v \in Vms : v = del.vm
    BY DeleteReady
<1>2. pending = {} /\ v # NoVm /\ ~Registered(v)
    BY <1>1, DeleteReady
<1>3. \A p : p \in Clean' => p \in Clean /\ p \in Ports /\ p \notin suspect'
    BY DEF Clean
<1>4. \A p \in Clean' : forwards[p] # v
    <2>1. CASE del.pc = "forwards"
        BY <1>1, <1>3, <2>1 DEF PortsOf, ListForVm
    <2>2. CASE del.pc # "forwards"
        BY <1>2, <1>3, <2>2, Parts DEF ForwardsOwned, Present
    <2> QED
        BY <2>1, <2>2
<1>5. ASSUME NEW s \in Slots, Holds(s), call[s].port \notin suspect' PROVE call[s].vm # v
    <2>1. CASE del.pc = "forwards"
        BY <1>1, <1>5, <2>1, Typed DEF PortsOf
    <2>2. CASE del.pc # "forwards"
        BY <1>2, <1>5, <2>2, Parts DEF CallsHold, CallHolds, Present
    <2> QED
        BY <2>1, <2>2
<1>6. /\ \A w : Registered(w)' <=> Registered(w)
      /\ \A w : w # v => (Present(w)' <=> Present(w))
      /\ ~Deleting' /\ Serving'
      /\ \A w : w # v => ~BeingDeleted(w)
    BY <1>1, <1>2 DEF Registered, Present, Deleting, Serving, BeingDeleted
<1>7. \A w \in Vms : /\ w # v => files'[w] = files[w]
                     /\ \A p \in files'[w].ports : p \in files[w].ports
                     /\ files'[w] = NoFile \/ files'[w] = files[w]
    BY <1>1 DEF NoFile
<1>8. Working' /\ PendingHold' /\ DeleteHolds'
    BY <1>2, <1>6 DEF Working, PendingHold, DeleteHolds
<1>9. Addresses'
    BY <1>6, <1>7, CallsKept, Parts DEF Addresses
<1>10. CallsHold'
    <2> SUFFICES ASSUME NEW s \in Slots, Holds(s), call[s].port \notin suspect'
                 PROVE  CallHolds(s)'
        BY CallsKept DEF CallsHold
    <2>1. PICK x \in Vms : x = call[s].vm
        BY Typed
    <2>2. CallHolds(s) /\ x # v
        BY <1>5, <2>1, Parts DEF CallsHold
    <2>3. Present(x)' /\ (Registered(x)' <=> Registered(x)) /\ call'[s].vm = x
        BY <1>6, <2>1, <2>2 DEF CallHolds
    <2> QED
        BY <1>7, <2>1, <2>2, <2>3, CallsKept DEF CallHolds
<1>11. SavesHold'
    BY <1>3, CallsKept, Parts DEF SavesHold, SaveHolds
<1>12. ForwardsOwned'
    <2> SUFFICES ASSUME NEW p \in Clean', forwards[p] # NoVm
                 PROVE  /\ Present(forwards[p])'
                        /\ \A w \in Vms : p \in files'[w].ports => w = forwards[p]
        BY DEF ForwardsOwned
    <2>1. PICK x : x = forwards[p] /\ x = forwards'[p]
        OBVIOUS
    <2>2. x # v /\ Present(x) /\ \A w \in Vms : p \in files[w].ports => w = x
        BY <1>3, <1>4, <2>1, Parts DEF ForwardsOwned
    <2> QED
        BY <1>6, <1>7, <2>1, <2>2
<1>13. FilesApart'
    BY <1>3, <1>7, Parts DEF FilesApart
<1>14. FilesFollow'
    <2> SUFFICES ASSUME NEW w \in Vms, Registered(w), w \notin misfiled
                 PROVE  /\ files'[w].ip = handle[w].ip
                        /\ \A p \in Clean' : ~InFlux(p) => (p \in files'[w].ports <=> forwards[p] = w)
        BY <1>6, CallsKept DEF FilesFollow
    <2>1. w # v /\ files'[w] = files[w]
        BY <1>2, <1>7
    <2> QED
        BY <1>3, <2>1, Parts DEF FilesFollow
<1>15. RulesKept'
    BY <1>3, CallsKept, Parts DEF RulesKept
<1>16. (crashes = 0 => RulesOwned)'
    <2> SUFFICES ASSUME crashes = 0 PROVE RulesOwned'
        OBVIOUS
    <2>1. RulesOwned
        BY Parts
    <2>2. ASSUME NEW r \in dnat, r.port \notin suspect' PROVE RuleOwned(r)'
        <3>1. RuleOwned(r) /\ r.port \in Clean'
            BY <2>1, <2>2, Typed DEF RulesOwned, Clean
        <3>2. forwards[r.port] # v
            BY <1>4, <3>1
        <3> QED
            BY <1>6, <3>1, <3>2, CallsKept DEF RuleOwned
    <2> QED
        BY <2>1, <2>2 DEF RulesOwned
<1> QED
    BY <1>8, <1>9, <1>10, <1>11, <1>12, <1>13, <1>14, <1>15, <1>16, Assembled

LEMMA DeleteFileHolds ==
    ASSUME PortsInv, DeleteFile
    PROVE  ForwardsInv'
<1>1. Deleting /\ del.pc = "file" /\ del'.pc = "idle"
    BY NoneIdle DEF DeleteFile, Deleting
<1>2. UNCHANGED <<pending, handle, forwards, dnat, call, crashes, suspect, misfiled>>
    BY DEF DeleteFile, kernel, history
<1>3. \A v \in Vms : files'[v] = files[v] \/ (v = del.vm /\ files'[v] = NoFile)
    BY Typed DEF DeleteFile
<1> QED
    BY <1>1, <1>2, <1>3, DeleteEnds

LEMMA DropDeleteHolds ==
    ASSUME PortsInv, DropDelete
    PROVE  ForwardsInv'
<1>1. Deleting /\ del.pc # "rules" /\ del'.pc = "idle"
    BY NoneIdle DEF DropDelete, Deleting
<1>2. /\ UNCHANGED <<pending, handle, forwards, dnat, files, call, crashes, misfiled>>
      /\ del.pc = "forwards" => PortsOf(del.vm) \subseteq suspect'
      /\ suspect \subseteq suspect'
    BY DEF DropDelete, kernel, Suspect
<1> QED
    BY <1>1, <1>2, DeleteEnds

-----------------------------------------------------------------------------
(* Restart and recovery *)

LEMMA ForgetHolds ==
    ASSUME PortsInv, ForgetMemory, UNCHANGED <<files, suspect, misfiled>>
    PROVE  ForwardsInv'
<1>1. /\ \A s \in Slots : ~Holds(s)' /\ ~Busy(s)' /\ call'[s].pc = "idle"
      /\ del'.pc = "idle" /\ ~Deleting'
    BY NoneIdle DEF ForgetMemory, Holds, Busy, At, Deleting
<1>2. /\ pending' = {v \in Vms : files[v] # NoFile}
      /\ \A v \in Vms : handle'[v] = NoHandle
      /\ \A p \in Ports : forwards'[p] = NoVm
    BY DEF ForgetMemory
<1>3. /\ \A v \in Vms : ~Registered(v)' /\ handle'[v].ip = NoIp
      /\ Clean' = Clean /\ Clean \subseteq Ports
    BY <1>2 DEF Registered, NoHandle, Clean
<1>4. CallsHold' /\ SavesHold' /\ DeleteHolds' /\ Working'
    BY <1>1 DEF CallsHold, SavesHold, At, DeleteHolds, Working
<1>5. ForwardsOwned' /\ FilesFollow' /\ RulesKept'
    BY <1>2, <1>3 DEF ForwardsOwned, FilesFollow, RulesKept
<1>6. FilesApart'
    BY <1>3, Parts DEF FilesApart
<1>7. PendingHold' /\ Addresses'
    BY <1>1, <1>2, <1>3, Parts DEF PendingHold, Addresses, At
<1>8. crashes' # 0
    BY PortsAssumption, Typed DEF ForgetMemory, TypeOK
<1> QED
    BY <1>4, <1>5, <1>6, <1>7, <1>8, Assembled

\* While recover_vms is at work there is no call, and the VM of a file that is
\* not loaded yet has nothing in the map.
LEMMA Recovering ==
    ASSUME PortsInv, NEW v \in pending
    PROVE  /\ v \in Vms /\ ~Registered(v) /\ files[v] # NoFile /\ files[v].ip \in Ips
           /\ ~Deleting /\ ~Present(v)
           /\ \A s \in Slots : ~Busy(s)
           /\ \A p : ~InFlux(p) /\ ~Unruled(p)
           /\ \A p \in files[v].ports : p \in Ports
           /\ \A p \in Clean : p \in files[v].ports => forwards[p] = NoVm
           /\ \A p \in Clean : forwards[p] # v
<1>1. ~Deleting /\ \A s \in Slots : ~Busy(s)
    BY Parts DEF Working, Serving
<1>2. v \in Vms /\ ~Registered(v) /\ files[v] # NoFile /\ files[v].ip \in Ips
    BY Typed, Parts DEF PendingHold, Addresses
<1>3. ~Present(v)
    BY <1>1, <1>2 DEF Present, Deleting
<1>4. \A p : ~InFlux(p) /\ ~Unruled(p)
    BY <1>1 DEF InFlux, Unruled, Holds, Busy, At
<1>5. \A p \in files[v].ports : p \in Ports
    BY <1>2, Typed, FileFields
<1>6. \A p \in Clean : forwards[p] # v
    BY <1>2, <1>3, Parts, PortsAssumption DEF ForwardsOwned
<1>7. \A p \in Clean : p \in files[v].ports => forwards[p] = NoVm
    BY <1>2, <1>6, Parts DEF ForwardsOwned
<1> QED
    BY <1>1, <1>2, <1>3, <1>4, <1>5, <1>6, <1>7

LEMMA RecoverHolds ==
    ASSUME PortsInv, NEW v \in Vms, Recover(v)
    PROVE  ForwardsInv'
<1>1. v \in pending
    BY DEF Recover
<1>2. /\ ~Registered(v) /\ files[v].ip \in Ips /\ ~Deleting /\ ~Present(v)
      /\ \A s \in Slots : ~Busy(s)
      /\ \A p : ~InFlux(p) /\ ~Unruled(p)
      /\ \A p \in files[v].ports : p \in Ports
      /\ \A p \in Clean : p \in files[v].ports => forwards[p] = NoVm
      /\ \A p \in Clean : forwards[p] # v
    BY <1>1, Recovering
<1>3. /\ UNCHANGED <<files, call, del, crashes, misfiled>>
      /\ pending' = pending \ {v}
      /\ suspect \subseteq suspect'
      /\ \A p \in Ports : forwards'[p] = IF p \in files[v].ports THEN v ELSE forwards[p]
    BY DEF Recover, Suspect
<1>4. /\ handle'[v].state # "absent" /\ handle'[v].ip = files[v].ip
      /\ \A w \in Vms : w # v => handle'[w] = handle[w]
    BY Typed DEF Recover
<1>5. /\ \A r \in dnat : r \in dnat'
      /\ handle'[v].state = "running" =>
            \A p \in files[v].ports : p \in suspect' \/ Rule(p, files[v].ip) \in dnat'
    BY Typed DEF Recover, Suspect
<1>6. /\ Registered(v)' /\ \A w \in Vms : w # v => (Registered(w)' <=> Registered(w))
      /\ Present(v)' /\ \A w \in Vms : w # v => (Present(w)' <=> Present(w))
      /\ ~Deleting'
    BY <1>2, <1>3, <1>4 DEF Registered, Present, Deleting
<1>7. \A p : p \in Clean' => p \in Clean /\ p \in Ports /\ p \notin suspect'
    BY <1>3 DEF Clean
<1>8. CallsHold' /\ SavesHold' /\ DeleteHolds' /\ Working'
    BY <1>2, <1>3, <1>6, CallsKept
    DEF CallsHold, SavesHold, DeleteHolds, Working, Holds, Busy, At
<1>9. Addresses'
    BY <1>2, <1>3, <1>4, <1>6, CallsKept, Parts DEF Addresses
<1>10. ForwardsOwned'
    <2> SUFFICES ASSUME NEW p \in Clean', forwards'[p] # NoVm
                 PROVE  /\ Present(forwards[p])' \/ forwards'[p] = v
                        /\ \A w \in Vms : p \in files[w].ports => w = forwards'[p]
                        /\ forwards'[p] = v \/ forwards'[p] = forwards[p]
        BY <1>3, <1>6 DEF ForwardsOwned
    <2>1. CASE p \in files[v].ports
        BY <1>3, <1>7, <2>1, Parts DEF FilesApart
    <2>2. CASE p \notin files[v].ports
        <3>1. forwards'[p] = forwards[p] /\ p \in Clean
            BY <1>3, <1>7, <2>2
        <3>2. PICK x \in Vms : x = forwards[p] /\ x = forwards'[p]
            BY <3>1, <1>7, Typed
        <3>3. x # v /\ Present(x) /\ \A w \in Vms : p \in files[w].ports => w = x
            BY <1>2, <3>1, <3>2, Parts DEF ForwardsOwned
        <3> QED
            BY <1>6, <3>1, <3>2, <3>3
    <2> QED
        BY <2>1, <2>2
<1>11. FilesApart' /\ PendingHold'
    BY <1>3, <1>6, <1>7, Typed, Parts DEF FilesApart, PendingHold
<1>12. FilesFollow'
    <2> SUFFICES ASSUME NEW w \in Vms, Registered(w)', w \notin misfiled
                 PROVE  /\ files[w].ip = handle'[w].ip
                        /\ \A p \in Clean' : p \in files[w].ports <=> forwards'[p] = w
        BY <1>3 DEF FilesFollow
    <2>1. CASE w = v
        BY <1>2, <1>3, <1>4, <1>7, <2>1
    <2>2. CASE w # v
        <3>1. Registered(w) /\ files[w].ip = handle'[w].ip
            BY <1>4, <1>6, <2>2, Parts DEF FilesFollow
        <3>2. ASSUME NEW p \in Clean' PROVE p \in files[w].ports <=> forwards'[p] = w
            <4>1. p \in files[w].ports <=> forwards[p] = w
                BY <1>2, <1>7, <3>1, Parts DEF FilesFollow
            <4>2. p \in files[v].ports => forwards[p] # w
                BY <1>2, <1>7, PortsAssumption
            <4> QED
                BY <1>3, <1>7, <2>2, <4>1, <4>2
        <3> QED
            BY <3>1, <3>2
    <2> QED
        BY <2>1, <2>2
<1>13. RulesKept'
    <2> SUFFICES ASSUME NEW p \in Clean', forwards'[p] # NoVm,
                        handle'[forwards'[p]].state = "running"
                 PROVE  Rule(p, handle'[forwards'[p]].ip) \in dnat'
        BY DEF RulesKept
    <2>1. CASE p \in files[v].ports
        BY <1>3, <1>4, <1>5, <1>7, <2>1
    <2>2. CASE p \notin files[v].ports
        <3>1. /\ forwards'[p] = forwards[p] /\ forwards[p] \in Vms /\ forwards[p] # v
              /\ p \in Clean
            BY <1>2, <1>3, <1>7, <2>2, Typed
        <3>2. handle'[forwards[p]] = handle[forwards[p]]
            BY <1>4, <3>1
        <3>3. Rule(p, handle[forwards[p]].ip) \in dnat
            BY <1>2, <3>1, <3>2, Parts DEF RulesKept
        <3> QED
            BY <1>5, <3>1, <3>2, <3>3
    <2> QED
        BY <2>1, <2>2
<1>14. crashes' # 0
    BY <1>1, <1>3, Parts DEF RulesOwned
<1> QED
    BY <1>8, <1>9, <1>10, <1>11, <1>12, <1>13, <1>14, Assembled

\* Nothing that the invariant is about changes.
LEMMA StutterHolds ==
    ASSUME PortsInv,
           UNCHANGED <<pending, handle, forwards, dnat, files, call, del, crashes, suspect, misfiled>>
    PROVE  ForwardsInv'
<1>1. Working' /\ Addresses' /\ DeleteHolds' /\ PendingHold'
    BY CallsKept, Parts
    DEF Working, Addresses, DeleteHolds, PendingHold, Deleting, Registered, Serving
<1>2. CallsHold' /\ SavesHold'
    BY CallsKept, Parts
    DEF CallsHold, CallHolds, Present, Registered, SavesHold, SaveHolds, Clean
<1>3. ForwardsOwned' /\ FilesApart'
    BY Parts DEF ForwardsOwned, FilesApart, Present, Registered, Clean
<1>4. FilesFollow' /\ RulesKept'
    BY Parts, CallsKept DEF FilesFollow, RulesKept, Registered, Clean
<1>5. (crashes = 0 => RulesOwned)'
    BY Parts, CallsKept DEF RulesOwned, RuleOwned, BeingDeleted, Deleting
<1> QED
    BY <1>1, <1>2, <1>3, <1>4, <1>5, Assembled

-----------------------------------------------------------------------------
(* The invariant is inductive *)

LEMMA PortsStep == PortsInv /\ [Next]_vars => PortsInv'
<1> SUFFICES ASSUME PortsInv, [Next]_vars PROVE ForwardsInv'
    BY TypeStep DEF PortsInv
<1>1. ASSUME NEW s \in Slots, CallStep(s) PROVE ForwardsInv'
    BY <1>1, ReserveHolds, AddRuleHolds, AddRuleFailsHolds, RollbackHolds, RemoveRuleHolds,
       GivingUpHolds, PersistReadHolds, PersistListHolds, PersistSaveHolds
    DEF CallStep
<1>2. ASSUME NEW v \in Vms, UnitExits(v) PROVE ForwardsInv'
    BY <1>2, StutterHolds DEF UnitExits, history
<1>3. CASE Crash \/ Reboot
    BY <1>3, ForgetHolds DEF Crash, Reboot, history
<1>4. CASE UNCHANGED vars
    BY <1>4, StutterHolds DEF vars, kernel, history
<1> QED
    BY <1>1, <1>2, <1>3, <1>4, BeginAddHolds, BeginRemoveHolds, CreateHolds, BeginDeleteHolds,
       RecoverHolds, DeleteForwardsHolds, DeleteRulesHolds, DeleteChainHolds, DeleteFileHolds,
       DropDeleteHolds
    DEF Next

LEMMA PortsInit == Init => PortsInv
<1> SUFFICES ASSUME Init PROVE PortsInv
    OBVIOUS
<1>1. /\ \A s \in Slots : ~Busy(s) /\ ~Holds(s) /\ call[s].pc = "idle"
      /\ ~Deleting /\ pending = {}
      /\ \A v \in Vms : /\ ~Registered(v) /\ handle[v].ip = NoIp
                        /\ files[v] = NoFile /\ handle[v].state # "stopped"
      /\ \A p \in Ports : forwards[p] = NoVm
      /\ NoFile.ports = {} /\ dnat = {} /\ Clean \subseteq Ports
    BY NoneIdle DEF Init, Busy, Holds, At, Deleting, Registered, NoHandle, NoFile, Clean
<1>2. Working /\ Addresses /\ CallsHold /\ SavesHold /\ DeleteHolds /\ PendingHold
    BY <1>1 DEF Working, Addresses, CallsHold, SavesHold, DeleteHolds, PendingHold, At
<1>3. ForwardsOwned /\ FilesApart /\ FilesFollow /\ RulesKept /\ RulesOwned
    BY <1>1 DEF ForwardsOwned, FilesApart, FilesFollow, RulesKept, RulesOwned
<1> QED
    BY <1>2, <1>3, TypeInit DEF PortsInv, ForwardsInv

-----------------------------------------------------------------------------
(* What the invariant says of a port that is settled *)

LEMMA SettledPort ==
    ASSUME NEW p \in Ports, Settled(p)
    PROVE  p \in Clean /\ p \notin suspect /\ ~InFlux(p) /\ ~Unruled(p) /\ ~Unruling(p)
BY DEF Settled, Clean, InFlux, Unruled, Unruling, Holds, At

LEMMA PersistedSettled == PortsInv => PersistedMatchesForwards
BY SettledPort, Parts DEF PersistedMatchesForwards, FilesFollow

LEMMA ListedSettled == PortsInv => ListedIsForwarded
BY SettledPort, Parts DEF ListedIsForwarded, RulesKept, IsAvailable

LEMMA RulesSettled == PortsInv => RulesMatchForwards
<1> SUFFICES ASSUME PortsInv, crashes = 0, ~Deleting, NEW p \in Ports, Settled(p)
             PROVE  {r \in dnat : r.port = p} =
                       IF forwards[p] = NoVm THEN {} ELSE {Rule(p, handle[forwards[p]].ip)}
    BY DEF RulesMatchForwards, IsAvailable
<1>1. ASSUME NEW r \in dnat, r.port = p
      PROVE  forwards[p] # NoVm /\ r = Rule(p, handle[forwards[p]].ip)
    <2>1. r = [port |-> r.port, ip |-> r.ip]
        BY Typed DEF Rules
    <2>2. RuleOwned(r)
        BY <1>1, SettledPort, Parts DEF RulesOwned
    <2>3. forwards[p] # NoVm /\ r.ip = handle[forwards[p]].ip
        BY <1>1, <2>2, SettledPort DEF RuleOwned, BeingDeleted, Deleting
    <2> QED
        BY <1>1, <2>1, <2>3 DEF Rule
<1>2. ASSUME forwards[p] # NoVm PROVE Rule(p, handle[forwards[p]].ip) \in dnat
    <2>1. forwards[p] \in Vms /\ Registered(forwards[p])
        BY <1>2, SettledPort, Typed, Parts DEF ForwardsOwned, Present, Deleting
    <2>2. handle[forwards[p]].state = "running"
        BY <2>1, HandleFields, Typed, Parts DEF RulesOwned, Registered
    <2> QED
        BY <1>2, <2>2, SettledPort, Parts DEF RulesKept
<1>3. Rule(p, handle[forwards[p]].ip).port = p
    BY DEF Rule
<1> QED
    BY <1>1, <1>2, <1>3

LEMMA NotStolenStep ==
    ASSUME PortsInv, [Next]_vars, NEW p \in Ports, p \notin suspect
    PROVE  forwards[p] = NoVm \/ forwards'[p] \in {forwards[p], NoVm}
<1>0. forwards \in [Ports -> Vms \cup {NoVm}]
    BY Typed
<1>1. ASSUME NEW s \in Slots, NEW q \in Ports, Reserve(s, q) \/ BeginRemove(s, q)
      PROVE  forwards[p] = NoVm \/ forwards'[p] \in {forwards[p], NoVm}
    BY <1>0, <1>1 DEF Reserve, BeginRemove, IsAvailable
<1>2. ASSUME NEW s \in Slots, Rollback(s)
      PROVE  forwards[p] = NoVm \/ forwards'[p] \in {forwards[p], NoVm}
    BY <1>0, <1>2 DEF Rollback
<1>3. ASSUME NEW v \in Vms, Recover(v)
      PROVE  forwards[p] = NoVm \/ forwards'[p] \in {forwards[p], NoVm}
    BY <1>0, <1>3, Recovering DEF Recover, Clean
<1>4. CASE DeleteForwards
    BY <1>0, <1>4 DEF DeleteForwards
<1>5. CASE Crash \/ Reboot
    BY <1>0, <1>5 DEF Crash, Reboot, ForgetMemory
<1>6. CASE UNCHANGED forwards
    BY <1>6
<1> QED
    BY <1>1, <1>2, <1>3, <1>4, <1>5, <1>6
    DEF Next, CallStep, BeginAdd, ReserveRefused, AddRule, AddRuleFails, RemoveRule,
        RemoveRuleFails, PersistRead, PersistList, PersistSave, PersistSaveFails, DropCall,
        Create, BeginDelete, UnitExits, DeleteRules, DeleteChain, DeleteFile, DropDelete, vars

-----------------------------------------------------------------------------
(* Theorems *)

\* Every variable keeps its type.
THEOREM PortsTypeCorrect == Spec => []TypeOK
<1>1. TypeInv => TypeOK
    BY DEF TypeInv
<1> QED
    BY <1>1, TypeInit, TypeStep, PTL DEF Spec

LEMMA PortsInvAlways == Spec => []PortsInv
BY PortsInit, PortsStep, PTL DEF Spec

\* Of a port that no race, failure or dropped call has hit, the state files say
\* what add_port_forward and remove_port_forward made of the map, so that a
\* restart loses no forward and invents none; for any number of VMs, ports,
\* calls in flight and restarts.
THEOREM FilesPersist == Spec => []PersistedMatchesForwards
BY PortsInvAlways, PersistedSettled, PTL

\* Every forward of a running VM is in the kernel, but for such ports, also
\* after recover_vms has replayed the state files.
THEOREM ForwardsReachKernel == Spec => []ListedIsForwarded
BY PortsInvAlways, ListedSettled, PTL

\* Without a restart, rolled back, removed and deleted forwards leave no rule
\* behind, and every rule leads to its VM, whatever the calls on other ports do.
THEOREM KernelFollows == Spec => []RulesMatchForwards
BY PortsInvAlways, RulesSettled, PTL

\* No forward passes from one VM to another, neither by add_port_forward nor by
\* recover_vms loading one state file after another, except at a port that a
\* race, a failure or a dropped call has hit before.
THEOREM NoForwardStolen == Spec => ForwardNeverStolen
<1>1. PortsInv /\ [Next]_vars =>
        [\A p \in Ports \ suspect :
            forwards[p] = NoVm \/ forwards'[p] \in {forwards[p], NoVm}]_vars
    BY NotStolenStep
<1> QED
    BY <1>1, PortsInvAlways, PTL DEF Spec, ForwardNeverStolen

=============================================================================
