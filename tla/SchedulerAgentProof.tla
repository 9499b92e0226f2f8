------------------------- MODULE SchedulerAgentProof -------------------------
(***************************************************************************)
(* Proofs about the scheduler agent, for any number of tasks, VMs, messages *)
(* and volumes and under every interleaving of allocations with restarts of *)
(* either side, foreign calls and lost replies.  The inductive invariant    *)
(* says what each handle_allocation call knows at each of its places: an    *)
(* account of the VMs it was to stop and to start (each is left, in hand,   *)
(* done or reported, and only one of these), what the node lists while      *)
(* nobody has disturbed the call, and which disks of the message in hand    *)
(* are already in the cache.  A step changes one call, and is seen by the   *)
(* others only through the list of VMs and the files of the cache           *)
(* (Combine).  A second invariant follows the VMs whose QEMU does not run:  *)
(* an undisturbed call found them listed (AwakeInv).                        *)
(***************************************************************************)
EXTENDS SchedulerAgent, VolumeCacheProof, FiniteSetTheorems

-----------------------------------------------------------------------------
(* The inductive invariant *)

CallPcs   == {"idle", "list", "stop", "start", "fetch", "await", "create", "ports", "answer"}
StartPcs  == {"start", "fetch", "await", "create", "ports", "answer"}
BusyPcs   == {"fetch", "await", "create"}
Plans     == [to_start : SUBSET Vms, to_stop : SUBSET Vms, unchanged : SUBSET Vms]
Errors    == {"stop", "start", "translate"} \X Vms
Forwards  == [vm_id : Vms, host_port : Nat, vm_port : Nat]
Responses == [status : Nat, started : Int, stopped : Int]
Flags     == BOOLEAN
CallRecs  ==
    [pc : CallPcs, desired : SUBSET Vms, actions : Plans, left : SUBSET Vms,
     cur : Vms \cup {NotListed}, fetches : Seq(VolumeDisks), ports : Seq(Forwards),
     errors : SUBSET Errors, created : SUBSET Vms, disturbed : Flags, response : Responses]

\* Types, and who has the lock of compute_client.
SchedTyped ==
    /\ serving \in BOOLEAN
    /\ listed \in [Vms -> Addresses \cup {NotListed}]
    /\ saved \subseteq Vms
    /\ known \subseteq Hashes
    /\ handler \in [Tasks -> CallRecs]
    /\ faults \in 0..MaxFaults
    /\ received \in 0..MaxAllocations

LockInv == \A h \in Tasks : lock = h <=> handler[h].pc = "ports"

\* reconcile, from the moment the call has listed the VMs.
Planned(c) ==
    /\ c.actions.to_start \cap c.actions.unchanged = {}
    /\ c.actions.to_start \cup c.actions.unchanged = c.desired
    /\ c.actions.to_stop \cap c.desired = {}

\* The stop loop: what it has done is stopped or reported.
Stopping(c) ==
    /\ c.left \subseteq c.actions.to_stop
    /\ c.created = {}
    /\ \A e \in c.errors : e[1] = "stop" /\ e[2] \in c.actions.to_stop \ c.left
    /\ Cardinality(c.left) + ErrorCount(c, "stop") <= Cardinality(c.actions.to_stop)

\* The start loop: every VM to start is left, or being started, or created,
\* or reported, and only one of these.
Starting(c, busy) ==
    /\ c.left \subseteq c.actions.to_start
    /\ c.created \subseteq c.actions.to_start \ c.left
    /\ \A e \in c.errors :
          IF e[1] = "stop" THEN e[2] \in c.actions.to_stop
          ELSE e[2] \in c.actions.to_start \ (c.left \cup c.created)
    /\ busy => /\ c.cur \in c.actions.to_start \ (c.left \cup c.created)
               /\ <<"start", c.cur>> \notin c.errors /\ <<"translate", c.cur>> \notin c.errors
    /\ \A v \in c.actions.to_start :
          \/ v \in c.left \cup c.created
          \/ <<"start", v>> \in c.errors \/ <<"translate", v>> \in c.errors
          \/ busy /\ v = c.cur
    /\ Cardinality(c.actions.to_start) =
          Cardinality(c.left) + Cardinality(c.created) + ErrorCount(c, "start")
             + ErrorCount(c, "translate") + (IF busy THEN 1 ELSE 0)
    /\ ErrorCount(c, "stop") <= Cardinality(c.actions.to_stop)

Answered(c) == c.response.status \in {200, 207}

CallInv(c) ==
    /\ HasListed(c) => Planned(c)
    /\ c.pc = "stop" => Stopping(c)
    /\ c.pc \in StartPcs => Starting(c, c.pc \in BusyPcs)
    /\ c.pc \in {"answer", "idle", "list"} => c.left = {}
    /\ Answered(c) =>
          /\ c.pc = "idle"
          /\ Starting(c, FALSE)
          /\ c.response.started = Cardinality(c.created) + ErrorCount(c, "translate")
          /\ c.response.stopped >= 0
    /\ c.pc = "list" => c.errors = {} /\ c.created = {}

\* What the node lists when nobody else changed it.
NotStopped(c) == {v \in Vms : <<"stop", v>> \in c.errors}

RunInv(c, running) ==
    HasListed(c) /\ ~c.disturbed =>
        running = c.actions.unchanged \cup NotStopped(c)
                     \cup (IF c.pc = "stop" THEN c.left ELSE c.created)

\* translate_message: the disks it has been through are in the cache.
FetchInv(c, there) ==
    LET d == Disks(MessageOf(c.cur))
    IN /\ c.pc \in {"fetch", "await", "create", "ports"} =>
             /\ c.cur \in Hashes
             /\ Len(c.fetches) <= Len(d)
             /\ \A i \in 1..Len(c.fetches) : c.fetches[i] = d[Len(d) - Len(c.fetches) + i]
             /\ \A i \in 1..(Len(d) - Len(c.fetches)) : there[d[i].path] # NoInode
       /\ c.pc \in {"fetch", "await"} => c.fetches # <<>>
       /\ c.pc \in {"create", "ports"} => c.fetches = <<>>

\* The ensure_cached call of each task.
DownloadInv ==
    \A h \in Tasks :
        /\ dl[h].pc # "idle" => /\ handler[h].pc = "await"
                                /\ dl[h].vol = handler[h].fetches[1].path
        /\ dl[h].pc = "ok" => local[dl[h].vol] # NoInode

Sound(c, running, there) == CallInv(c) /\ RunInv(c, running) /\ FetchInv(c, there)

SchedInv ==
    /\ SchedTyped /\ CacheInv /\ LockInv /\ DownloadInv
    /\ \A h \in Tasks : Sound(handler[h], ListedVms, local)

-----------------------------------------------------------------------------
(* Calls as values *)

LEMMA CallFields ==
    ASSUME NEW c \in CallRecs
    PROVE  /\ c.pc \in CallPcs /\ c.desired \subseteq Vms /\ c.actions \in Plans
           /\ c.left \subseteq Vms /\ c.cur \in Vms \cup {NotListed}
           /\ c.fetches \in Seq(VolumeDisks) /\ c.ports \in Seq(Forwards)
           /\ c.errors \subseteq Errors /\ c.created \subseteq Vms
           /\ c.response \in Responses
BY DEF CallRecs

LEMMA PlanFields ==
    ASSUME NEW a \in Plans
    PROVE  a.to_start \subseteq Vms /\ a.to_stop \subseteq Vms /\ a.unchanged \subseteq Vms
BY DEF Plans

\* The fields that tell what a call has done.
SameWork(d, c) ==
    /\ d.desired = c.desired /\ d.actions = c.actions
    /\ d.errors = c.errors /\ d.created = c.created
    /\ d.disturbed = c.disturbed /\ d.response = c.response

LEMMA StartLoopDoes ==
    ASSUME NEW c \in CallRecs
    PROVE  LET d == StartLoop(c)
           IN /\ d \in CallRecs /\ SameWork(d, c) /\ d.left = c.left
              /\ d.pc = IF c.left = {} THEN "answer" ELSE "start"
<1> DEFINE d == StartLoop(c)
<1>1. "answer" \in CallPcs /\ "start" \in CallPcs
    BY DEF CallPcs
<1>2. <<>> \in Seq(VolumeDisks) /\ <<>> \in Seq(Forwards)
    OBVIOUS
<1>3. d \in CallRecs
    BY <1>1, <1>2 DEF StartLoop, CallRecs
<1>4. SameWork(d, c) /\ d.left = c.left /\ d.pc = IF c.left = {} THEN "answer" ELSE "start"
    BY DEF StartLoop, CallRecs, SameWork
<1> QED
    BY <1>3, <1>4

LEMMA StopLoopDoes ==
    ASSUME NEW c \in CallRecs
    PROVE  LET d == StopLoop(c)
           IN /\ d \in CallRecs /\ SameWork(d, c)
              /\ c.left # {} => d.pc = "stop" /\ d.left = c.left
              /\ c.left = {} =>
                    /\ d.left = c.actions.to_start
                    /\ d.pc = IF d.left = {} THEN "answer" ELSE "start"
<1>1. CASE c.left # {}
    <2> DEFINE d == [c EXCEPT !.pc = "stop"]
    <2>1. "stop" \in CallPcs
        BY DEF CallPcs
    <2>2. d \in CallRecs
        BY <2>1 DEF CallRecs
    <2>3. SameWork(d, c) /\ d.pc = "stop" /\ d.left = c.left
        BY DEF CallRecs, SameWork
    <2>4. StopLoop(c) = d
        BY <1>1 DEF StopLoop
    <2> HIDE DEF d
    <2> QED
        BY <1>1, <2>2, <2>3, <2>4
<1>2. CASE c.left = {}
    <2> DEFINE e == [c EXCEPT !.left = c.actions.to_start]
    <2>1. c.actions.to_start \in SUBSET Vms
        BY CallFields, PlanFields
    <2>2. e \in CallRecs
        BY <2>1 DEF CallRecs
    <2>3. SameWork(e, c) /\ e.left = c.actions.to_start
        BY DEF CallRecs, SameWork
    <2>4. StopLoop(c) = StartLoop(e)
        BY <1>2 DEF StopLoop
    <2> HIDE DEF e
    <2>5. /\ StartLoop(e) \in CallRecs /\ SameWork(StartLoop(e), e) /\ StartLoop(e).left = e.left
          /\ StartLoop(e).pc = IF e.left = {} THEN "answer" ELSE "start"
        BY <2>2, StartLoopDoes
    <2> QED
        BY <1>2, <2>3, <2>4, <2>5 DEF SameWork
<1> QED
    BY <1>1, <1>2

LEMMA WithErrorDoes ==
    ASSUME NEW c \in CallRecs, NEW kind \in {"stop", "start", "translate"}, NEW v \in Vms
    PROVE  LET d == WithError(c, kind, v)
           IN /\ d \in CallRecs /\ d.errors = c.errors \cup {<<kind, v>>}
              /\ d.pc = c.pc /\ d.desired = c.desired /\ d.actions = c.actions
              /\ d.left = c.left /\ d.cur = c.cur /\ d.created = c.created
              /\ d.disturbed = c.disturbed /\ d.response = c.response
<1> DEFINE d == WithError(c, kind, v)
<1>1. <<kind, v>> \in Errors
    BY DEF Errors
<1>2. c.errors \subseteq Errors
    BY CallFields
<1>3. c.errors \cup {<<kind, v>>} \in SUBSET Errors
    BY <1>1, <1>2
<1>4. d \in CallRecs
    BY <1>3 DEF WithError, CallRecs
<1>5. /\ d.errors = c.errors \cup {<<kind, v>>}
      /\ d.pc = c.pc /\ d.desired = c.desired /\ d.actions = c.actions
      /\ d.left = c.left /\ d.cur = c.cur /\ d.created = c.created
      /\ d.disturbed = c.disturbed /\ d.response = c.response
    BY DEF WithError, CallRecs
<1> QED
    BY <1>4, <1>5

LEMMA TranslatedDoes ==
    ASSUME NEW c \in CallRecs
    PROVE  LET d == Translated(c)
           IN /\ d \in CallRecs /\ SameWork(d, c) /\ d.left = c.left /\ d.cur = c.cur
              /\ d.fetches = c.fetches
              /\ d.pc = IF c.fetches = <<>> THEN "create" ELSE "fetch"
<1> DEFINE d == Translated(c)
<1>1. "create" \in CallPcs /\ "fetch" \in CallPcs
    BY DEF CallPcs
<1>2. d \in CallRecs
    BY <1>1 DEF Translated, CallRecs
<1>3. /\ SameWork(d, c) /\ d.left = c.left /\ d.cur = c.cur /\ d.fetches = c.fetches
      /\ d.pc = IF c.fetches = <<>> THEN "create" ELSE "fetch"
    BY DEF Translated, CallRecs, SameWork
<1> QED
    BY <1>2, <1>3

LEMMA LeftTaken ==
    ASSUME NEW c \in CallRecs, NEW v
    PROVE  LET d == [c EXCEPT !.left = @ \ {v}]
           IN /\ d \in CallRecs /\ SameWork(d, c) /\ d.left = c.left \ {v}
              /\ d.pc = c.pc
<1> DEFINE d == [c EXCEPT !.left = @ \ {v}]
<1>1. c.left \ {v} \in SUBSET Vms
    BY CallFields
<1>2. d \in CallRecs
    BY <1>1 DEF CallRecs
<1>3. SameWork(d, c) /\ d.left = c.left \ {v} /\ d.pc = c.pc
    BY DEF CallRecs, SameWork
<1> QED
    BY <1>2, <1>3

LEMMA NextTaken ==
    ASSUME NEW c \in CallRecs, NEW v \in Vms
    PROVE  LET d == [c EXCEPT !.left = @ \ {v}, !.cur = v]
           IN /\ d \in CallRecs /\ SameWork(d, c) /\ d.left = c.left \ {v}
              /\ d.cur = v /\ d.pc = c.pc
<1> DEFINE d == [c EXCEPT !.left = @ \ {v}, !.cur = v]
<1>1. c.left \ {v} \in SUBSET Vms /\ v \in Vms \cup {NotListed}
    BY CallFields
<1>2. d \in CallRecs
    BY <1>1 DEF CallRecs
<1>3. SameWork(d, c) /\ d.left = c.left \ {v} /\ d.cur = v /\ d.pc = c.pc
    BY DEF CallRecs, SameWork
<1> QED
    BY <1>2, <1>3

LEMMA FetchesSet ==
    ASSUME NEW c \in CallRecs, NEW s \in Seq(VolumeDisks)
    PROVE  LET d == [c EXCEPT !.fetches = s]
           IN /\ d \in CallRecs /\ SameWork(d, c) /\ d.left = c.left
              /\ d.cur = c.cur /\ d.pc = c.pc /\ d.fetches = s
<1> DEFINE d == [c EXCEPT !.fetches = s]
<1>1. d \in CallRecs
    BY DEF CallRecs
<1>2. SameWork(d, c) /\ d.left = c.left /\ d.cur = c.cur /\ d.pc = c.pc /\ d.fetches = s
    BY DEF CallRecs, SameWork
<1> QED
    BY <1>1, <1>2

-----------------------------------------------------------------------------
(* Counting *)

LEMMA FiniteParts ==
    ASSUME NEW S, S \subseteq Vms
    PROVE  IsFiniteSet(S) /\ Cardinality(S) \in Nat
BY SchedulerAssumption, FS_Subset, FS_CardinalityType

LEMMA TakeOne ==
    ASSUME NEW S, S \subseteq Vms, NEW v \in S
    PROVE  Cardinality(S) = Cardinality(S \ {v}) + 1
<1>1. IsFiniteSet(S) /\ Cardinality(S) \in Nat
    BY FiniteParts
<1>2. Cardinality(S \ {v}) = Cardinality(S) - 1
    BY <1>1, FS_RemoveElement
<1> QED
    BY <1>1, <1>2

LEMMA AddOne ==
    ASSUME NEW S, S \subseteq Vms, NEW v \in Vms, v \notin S
    PROVE  Cardinality(S \cup {v}) = Cardinality(S) + 1
<1>1. IsFiniteSet(S)
    BY FiniteParts
<1> QED
    BY <1>1, FS_AddElement

LEMMA ErrorsFinite ==
    ASSUME NEW c \in CallRecs, NEW kind
    PROVE  IsFiniteSet({e \in c.errors : e[1] = kind}) /\ ErrorCount(c, kind) \in Nat
<1>1. IsFiniteSet({"stop", "start", "translate"})
    <2>1. IsFiniteSet({"stop"})
        BY FS_Singleton
    <2>2. IsFiniteSet({"stop"} \cup {"start"})
        BY <2>1, FS_AddElement
    <2>3. IsFiniteSet(({"stop"} \cup {"start"}) \cup {"translate"})
        BY <2>2, FS_AddElement
    <2>4. ({"stop"} \cup {"start"}) \cup {"translate"} = {"stop", "start", "translate"}
        OBVIOUS
    <2> QED
        BY <2>3, <2>4
<1>2. IsFiniteSet(Errors)
    BY <1>1, SchedulerAssumption, FS_Product DEF Errors
<1>3. {e \in c.errors : e[1] = kind} \subseteq Errors
    BY CallFields
<1>4. IsFiniteSet({e \in c.errors : e[1] = kind})
    BY <1>2, <1>3, FS_Subset
<1> QED
    BY <1>4, FS_CardinalityType DEF ErrorCount

LEMMA ErrorAdded ==
    ASSUME NEW c \in CallRecs, NEW d \in CallRecs, NEW kind, NEW v,
           d.errors = c.errors \cup {<<kind, v>>}, <<kind, v>> \notin c.errors
    PROVE  /\ ErrorCount(d, kind) = ErrorCount(c, kind) + 1
           /\ \A k : k # kind => ErrorCount(d, k) = ErrorCount(c, k)
<1> DEFINE Of(x, k) == {e \in x.errors : e[1] = k}
<1>1. Of(d, kind) = Of(c, kind) \cup {<<kind, v>>} /\ <<kind, v>> \notin Of(c, kind)
    OBVIOUS
<1>2. \A k : k # kind => Of(d, k) = Of(c, k)
    OBVIOUS
<1>3. IsFiniteSet(Of(c, kind))
    BY ErrorsFinite
<1>4. Cardinality(Of(c, kind) \cup {<<kind, v>>}) = Cardinality(Of(c, kind)) + 1
    <2> HIDE DEF Of
    <2> QED
        BY <1>1, <1>3, FS_AddElement
<1>5. ErrorCount(d, kind) = ErrorCount(c, kind) + 1
    BY <1>1, <1>4 DEF ErrorCount
<1>6. \A k : k # kind => ErrorCount(d, k) = ErrorCount(c, k)
    BY <1>2 DEF ErrorCount
<1> QED
    BY <1>5, <1>6

LEMMA ErrorsSame ==
    ASSUME NEW c, NEW d, d.errors = c.errors
    PROVE  \A k : ErrorCount(d, k) = ErrorCount(c, k)
BY DEF ErrorCount

-----------------------------------------------------------------------------
(* The loops of handle_allocation, as accounts *)

LEMMA PlanKept ==
    ASSUME NEW c, NEW d, Planned(c), d.actions = c.actions, d.desired = c.desired
    PROVE  Planned(d)
BY DEF Planned

LEMMA StartingKept ==
    ASSUME NEW c, NEW d, NEW busy \in BOOLEAN, Starting(c, busy),
           d.actions = c.actions, d.left = c.left, d.created = c.created, d.errors = c.errors,
           busy => d.cur = c.cur
    PROVE  Starting(d, busy)
<1>1. \A k : ErrorCount(d, k) = ErrorCount(c, k)
    BY ErrorsSame
<1>2. CASE busy = TRUE
    BY <1>1, <1>2 DEF Starting
<1>3. CASE busy = FALSE
    BY <1>1, <1>3 DEF Starting
<1> QED
    BY <1>2, <1>3

\* The loop turns to the next VM.
LEMMA StartingNext ==
    ASSUME NEW c \in CallRecs, NEW d \in CallRecs, Starting(c, FALSE), NEW v \in c.left,
           d.actions = c.actions, d.left = c.left \ {v}, d.cur = v,
           d.created = c.created, d.errors = c.errors
    PROVE  Starting(d, TRUE)
<1>1. \A k : ErrorCount(d, k) = ErrorCount(c, k)
    BY ErrorsSame
<1>2. Cardinality(c.left) = Cardinality(d.left) + 1
    BY CallFields, TakeOne
<1>3. /\ Cardinality(d.left) \in Nat /\ Cardinality(c.created) \in Nat
      /\ ErrorCount(c, "start") \in Nat /\ ErrorCount(c, "translate") \in Nat
    BY CallFields, FiniteParts, ErrorsFinite
<1>4. Cardinality(c.actions.to_start) =
         Cardinality(c.left) + Cardinality(c.created) + ErrorCount(c, "start")
            + ErrorCount(c, "translate") + 0
    BY DEF Starting
<1>5. Cardinality(d.actions.to_start) =
         Cardinality(d.left) + Cardinality(d.created) + ErrorCount(d, "start")
            + ErrorCount(d, "translate") + 1
    BY <1>1, <1>2, <1>3, <1>4
<1>6. v \in c.actions.to_start /\ v \notin c.created
    BY DEF Starting
<1>7. <<"start", v>> \notin c.errors /\ <<"translate", v>> \notin c.errors
    BY DEF Starting
<1> QED
    BY <1>1, <1>5, <1>6, <1>7 DEF Starting

\* It reports the VM, ...
LEMMA StartingReports ==
    ASSUME NEW c \in CallRecs, NEW d \in CallRecs, Starting(c, TRUE),
           NEW kind \in {"start", "translate"}, d.errors = c.errors \cup {<<kind, c.cur>>},
           d.actions = c.actions, d.left = c.left, d.created = c.created
    PROVE  Starting(d, FALSE)
<1>1. /\ c.cur \in c.actions.to_start \ (c.left \cup c.created)
      /\ <<kind, c.cur>> \notin c.errors
    BY DEF Starting
<1>2. /\ ErrorCount(d, kind) = ErrorCount(c, kind) + 1
      /\ \A k : k # kind => ErrorCount(d, k) = ErrorCount(c, k)
    BY <1>1, ErrorAdded
<1>3. /\ Cardinality(c.left) \in Nat /\ Cardinality(c.created) \in Nat
      /\ ErrorCount(c, "start") \in Nat /\ ErrorCount(c, "translate") \in Nat
    BY CallFields, FiniteParts, ErrorsFinite
<1>4. Cardinality(c.actions.to_start) =
         Cardinality(c.left) + Cardinality(c.created) + ErrorCount(c, "start")
            + ErrorCount(c, "translate") + 1
    BY DEF Starting
<1>5. Cardinality(d.actions.to_start) =
         Cardinality(d.left) + Cardinality(d.created) + ErrorCount(d, "start")
            + ErrorCount(d, "translate") + 0
    <2>1. CASE kind = "start"
        BY <1>2, <1>3, <1>4, <2>1
    <2>2. CASE kind = "translate"
        BY <1>2, <1>3, <1>4, <2>2
    <2> QED
        BY <2>1, <2>2
<1>6. ErrorCount(d, "stop") <= Cardinality(d.actions.to_stop)
    <2>1. ErrorCount(d, "stop") = ErrorCount(c, "stop")
        BY <1>2
    <2> QED
        BY <2>1 DEF Starting
<1>7. \A e \in d.errors :
         IF e[1] = "stop" THEN e[2] \in d.actions.to_stop
         ELSE e[2] \in d.actions.to_start \ (d.left \cup d.created)
    <2> TAKE e \in d.errors
    <2>1. CASE e \in c.errors
        BY <2>1 DEF Starting
    <2>2. CASE e = <<kind, c.cur>>
        <3>1. e[1] # "stop" /\ e[2] = c.cur
            BY <2>2
        <3> QED
            BY <1>1, <3>1
    <2> QED
        BY <2>1, <2>2
<1>8. \A v \in d.actions.to_start :
         \/ v \in d.left \cup d.created
         \/ <<"start", v>> \in d.errors \/ <<"translate", v>> \in d.errors
    BY DEF Starting
<1>9. d.left \subseteq d.actions.to_start /\ d.created \subseteq d.actions.to_start \ d.left
    BY DEF Starting
<1> QED
    BY <1>5, <1>6, <1>7, <1>8, <1>9 DEF Starting

\* ... or has created it.
LEMMA StartingCreates ==
    ASSUME NEW c \in CallRecs, NEW d \in CallRecs, Starting(c, TRUE),
           d.created = c.created \cup {c.cur},
           d.actions = c.actions, d.left = c.left, d.errors = c.errors
    PROVE  Starting(d, FALSE)
<1>0. \A k : ErrorCount(d, k) = ErrorCount(c, k)
    BY ErrorsSame
<1>1. /\ c.cur \in c.actions.to_start \ (c.left \cup c.created)
      /\ <<"start", c.cur>> \notin c.errors /\ <<"translate", c.cur>> \notin c.errors
    BY DEF Starting
<1>2. c.cur \in Vms /\ c.created \subseteq Vms
    BY <1>1, CallFields, PlanFields
<1>3. Cardinality(d.created) = Cardinality(c.created) + 1
    BY <1>1, <1>2, AddOne
<1>4. /\ Cardinality(c.left) \in Nat /\ Cardinality(c.created) \in Nat
      /\ ErrorCount(c, "start") \in Nat /\ ErrorCount(c, "translate") \in Nat
    BY CallFields, FiniteParts, ErrorsFinite
<1>5. Cardinality(c.actions.to_start) =
         Cardinality(c.left) + Cardinality(c.created) + ErrorCount(c, "start")
            + ErrorCount(c, "translate") + 1
    BY DEF Starting
<1>6. Cardinality(d.actions.to_start) =
         Cardinality(d.left) + Cardinality(d.created) + ErrorCount(d, "start")
            + ErrorCount(d, "translate") + 0
    BY <1>0, <1>3, <1>4, <1>5
<1>7. \A e \in d.errors :
         IF e[1] = "stop" THEN e[2] \in d.actions.to_stop
         ELSE e[2] \in d.actions.to_start \ (d.left \cup d.created)
    <2> TAKE e \in d.errors
    <2>0. e \in Errors
        BY CallFields
    <2>1. CASE e[1] = "stop"
        BY <2>1 DEF Starting
    <2>2. CASE e[1] # "stop"
        <3>1. e[2] \in c.actions.to_start \ (c.left \cup c.created)
            BY <2>2 DEF Starting
        <3>2. e = <<"start", e[2]>> \/ e = <<"translate", e[2]>>
            BY <2>0, <2>2 DEF Errors
        <3>3. e[2] # c.cur
            BY <1>1, <3>2
        <3> QED
            BY <2>2, <3>1, <3>3
    <2> QED
        BY <2>1, <2>2
<1>8. \A v \in d.actions.to_start :
         \/ v \in d.left \cup d.created
         \/ <<"start", v>> \in d.errors \/ <<"translate", v>> \in d.errors
    BY DEF Starting
<1>9. d.left \subseteq d.actions.to_start /\ d.created \subseteq d.actions.to_start \ d.left
    BY <1>1 DEF Starting
<1>10. ErrorCount(d, "stop") <= Cardinality(d.actions.to_stop)
    BY <1>0 DEF Starting
<1> QED
    BY <1>6, <1>7, <1>8, <1>9, <1>10 DEF Starting

\* The stop loop, with or without an error.
LEMMA StoppingNext ==
    ASSUME NEW c \in CallRecs, NEW d \in CallRecs, Stopping(c), NEW v \in c.left,
           d.actions = c.actions, d.left = c.left \ {v}, d.created = c.created,
           d.errors = c.errors \/ d.errors = c.errors \cup {<<"stop", v>>}
    PROVE  Stopping(d)
<1>1. Cardinality(c.left) = Cardinality(d.left) + 1
    BY CallFields, TakeOne
<1>2. /\ Cardinality(d.left) \in Nat /\ ErrorCount(c, "stop") \in Nat
      /\ Cardinality(c.actions.to_stop) \in Nat
    BY CallFields, PlanFields, FiniteParts, ErrorsFinite
<1>3. Cardinality(c.left) + ErrorCount(c, "stop") <= Cardinality(c.actions.to_stop)
    BY DEF Stopping
<1>4. <<"stop", v>> \notin c.errors
    BY DEF Stopping
<1>5. ErrorCount(d, "stop") \in {ErrorCount(c, "stop"), ErrorCount(c, "stop") + 1}
    <2>1. CASE d.errors = c.errors
        BY <2>1, ErrorsSame
    <2>2. CASE d.errors = c.errors \cup {<<"stop", v>>}
        BY <1>4, <2>2, ErrorAdded
    <2> QED
        BY <2>1, <2>2
<1>6. Cardinality(d.left) + ErrorCount(d, "stop") <= Cardinality(d.actions.to_stop)
    BY <1>1, <1>2, <1>3, <1>5
<1>7. \A e \in d.errors : e[1] = "stop" /\ e[2] \in d.actions.to_stop \ d.left
    <2> TAKE e \in d.errors
    <2>1. CASE e \in c.errors
        BY <2>1 DEF Stopping
    <2>2. CASE e = <<"stop", v>>
        BY <2>2 DEF Stopping
    <2> QED
        BY <2>1, <2>2
<1> QED
    BY <1>6, <1>7 DEF Stopping

\* The start loop begins where the stop loop ends.
LEMMA StartingBegins ==
    ASSUME NEW c \in CallRecs, NEW d \in CallRecs, Stopping(c), Planned(c),
           d.actions = c.actions, d.left = c.actions.to_start,
           d.created = c.created, d.errors = c.errors
    PROVE  Starting(d, FALSE)
<1>1. \A k : ErrorCount(d, k) = ErrorCount(c, k)
    BY ErrorsSame
<1>2. ErrorCount(d, "start") = 0 /\ ErrorCount(d, "translate") = 0
    <2>1. {e \in d.errors : e[1] = "start"} = {} /\ {e \in d.errors : e[1] = "translate"} = {}
        BY DEF Stopping
    <2> QED
        BY <2>1, FS_EmptySet DEF ErrorCount
<1>3. Cardinality(d.created) = 0
    BY FS_EmptySet DEF Stopping
<1>4. /\ Cardinality(c.left) \in Nat /\ ErrorCount(c, "stop") \in Nat
      /\ Cardinality(c.actions.to_stop) \in Nat /\ Cardinality(c.actions.to_start) \in Nat
    BY CallFields, PlanFields, FiniteParts, ErrorsFinite
<1>5. Cardinality(d.actions.to_start) =
         Cardinality(d.left) + Cardinality(d.created) + ErrorCount(d, "start")
            + ErrorCount(d, "translate") + 0
    BY <1>2, <1>3, <1>4
<1>6. ErrorCount(d, "stop") <= Cardinality(d.actions.to_stop)
    BY <1>1, <1>4 DEF Stopping
<1>7. \A e \in d.errors : e[1] = "stop" /\ e[2] \in d.actions.to_stop
    BY DEF Stopping
<1>8. d.created = {}
    BY DEF Stopping
<1> QED
    BY <1>5, <1>6, <1>7, <1>8 DEF Starting

-----------------------------------------------------------------------------
(* Calls that are sound stay sound *)

\* Everything but the history flag that other tasks may set.
SameCall(x, y) ==
    /\ x.pc = y.pc /\ x.desired = y.desired /\ x.actions = y.actions /\ x.left = y.left
    /\ x.cur = y.cur /\ x.fetches = y.fetches /\ x.ports = y.ports
    /\ x.errors = y.errors /\ x.created = y.created /\ x.response = y.response

LEMMA VolumesOf ==
    ASSUME NEW v \in Hashes
    PROVE  /\ MessageOf(v) \in Messages /\ MessageOf(v).item_hash = v
           /\ Disks(MessageOf(v)) \in Seq(VolumeDisks)
           /\ Len(Disks(MessageOf(v))) \in Nat
           /\ \A i \in 1..Len(Disks(MessageOf(v))) : Disks(MessageOf(v))[i].path \in Volumes
<1>1. \E m \in Messages : m.item_hash = v
    BY DEF Hashes
<1>2. MessageOf(v) \in Messages /\ MessageOf(v).item_hash = v
    BY <1>1, Zenon DEF MessageOf
<1> DEFINE d == Disks(MessageOf(v))
<1>3. d \in Seq(VolumeDisks)
    BY <1>2, MessagesAssumption
<1> HIDE DEF d
<1>4. Len(d) \in Nat /\ \A i \in 1..Len(d) : d[i] \in VolumeDisks
    BY <1>3
<1>5. \A i \in 1..Len(d) : d[i].path \in Volumes
    BY <1>4 DEF VolumeDisks
<1> QED
    BY <1>2, <1>3, <1>4, <1>5 DEF d

LEMMA SameSound ==
    ASSUME NEW x, NEW y, NEW R, NEW Q, NEW here, NEW there,
           Sound(y, R, here), SameCall(x, y),
           \/ Q = R /\ x.disturbed = y.disturbed
           \/ HasListed(y) => x.disturbed,
           \A v \in Volumes : here[v] # NoInode => there[v] # NoInode
    PROVE  Sound(x, Q, there)
<1>1. HasListed(x) <=> HasListed(y)
    BY DEF HasListed, SameCall
<1>2. Answered(x) <=> Answered(y)
    BY DEF Answered, SameCall
<1>3. CallInv(x)
    <2>1. HasListed(x) => Planned(x)
        BY <1>1, PlanKept DEF Sound, CallInv, SameCall
    <2>2. \A k : ErrorCount(x, k) = ErrorCount(y, k)
        BY ErrorsSame DEF SameCall
    <2>3. x.pc = "stop" => Stopping(x)
        BY <2>2 DEF Sound, CallInv, Stopping, SameCall
    <2>4. \A b \in BOOLEAN : Starting(y, b) => Starting(x, b)
        BY StartingKept DEF SameCall
    <2>5. x.pc \in StartPcs => Starting(x, x.pc \in BusyPcs)
        <3>1. x.pc \in StartPcs => Starting(y, x.pc \in BusyPcs)
            BY DEF Sound, CallInv, SameCall
        <3>2. CASE x.pc \in BusyPcs
            <4>1. (x.pc \in BusyPcs) = TRUE
                BY <3>2
            <4> QED
                BY <2>4, <3>1, <4>1
        <3>3. CASE x.pc \notin BusyPcs
            <4>1. (x.pc \in BusyPcs) = FALSE
                BY <3>3
            <4> QED
                BY <2>4, <3>1, <4>1
        <3> QED
            BY <3>2, <3>3
    <2>6. Answered(x) =>
             /\ x.pc = "idle" /\ Starting(x, FALSE)
             /\ x.response.started = Cardinality(x.created) + ErrorCount(x, "translate")
             /\ x.response.stopped >= 0
        <3>1. Answered(y) =>
                 /\ y.pc = "idle" /\ Starting(y, FALSE)
                 /\ y.response.started = Cardinality(y.created) + ErrorCount(y, "translate")
                 /\ y.response.stopped >= 0
            BY DEF Sound, CallInv
        <3> QED
            BY <1>2, <2>2, <2>4, <3>1 DEF SameCall
    <2>7. /\ x.pc \in {"answer", "idle", "list"} => x.left = {}
          /\ x.pc = "list" => x.errors = {} /\ x.created = {}
        BY DEF Sound, CallInv, SameCall
    <2> QED
        BY <2>1, <2>3, <2>5, <2>6, <2>7 DEF CallInv
<1>4. RunInv(x, Q)
    <2> SUFFICES ASSUME HasListed(x), ~x.disturbed
                 PROVE  Q = x.actions.unchanged \cup NotStopped(x)
                               \cup (IF x.pc = "stop" THEN x.left ELSE x.created)
        BY DEF RunInv
    <2>1. Q = R /\ ~y.disturbed
        BY <1>1
    <2>2. NotStopped(x) = NotStopped(y)
        BY DEF NotStopped, SameCall
    <2>3. R = y.actions.unchanged \cup NotStopped(y)
                 \cup (IF y.pc = "stop" THEN y.left ELSE y.created)
        BY <1>1, <2>1 DEF Sound, RunInv
    <2> QED
        BY <2>1, <2>2, <2>3 DEF SameCall
<1>5. FetchInv(x, there)
    <2>1. FetchInv(x, here)
        BY DEF Sound, FetchInv, SameCall
    <2> DEFINE d == Disks(MessageOf(x.cur))
    <2>2. ASSUME x.pc \in {"fetch", "await", "create", "ports"},
                 NEW i \in 1..(Len(d) - Len(x.fetches))
          PROVE  there[d[i].path] # NoInode
        <3>1. x.cur \in Hashes /\ Len(x.fetches) <= Len(d) /\ here[d[i].path] # NoInode
            BY <2>1, <2>2 DEF FetchInv
        <3>2. Len(d) \in Nat /\ \A j \in 1..Len(d) : d[j].path \in Volumes
            BY <3>1, VolumesOf
        <3> HIDE DEF d
        <3>3. i \in 1..Len(d)
            BY <3>2, <3>1, <2>2
        <3> QED
            BY <3>1, <3>2, <3>3
    <2> QED
        BY <2>1, <2>2 DEF FetchInv
<1> QED
    BY <1>3, <1>4, <1>5 DEF Sound

\* A call at the head of the start loop.
LEMMA LoopStarts ==
    ASSUME NEW c \in CallRecs, NEW R, NEW there, ~Answered(c), Planned(c), Starting(c, FALSE),
           ~c.disturbed => R = c.actions.unchanged \cup NotStopped(c) \cup c.created
    PROVE  LET d == StartLoop(c)
           IN d \in CallRecs /\ d.pc \in {"start", "answer"} /\ Sound(d, R, there)
<1>0. PICK d : d = StartLoop(c)
    OBVIOUS
<1>1. /\ d \in CallRecs /\ SameWork(d, c) /\ d.left = c.left
      /\ d.pc = IF c.left = {} THEN "answer" ELSE "start"
    BY <1>0, StartLoopDoes
<1>2. d.pc \in {"start", "answer"} /\ (d.pc = "answer" => d.left = {})
    BY <1>1
<1>3. Planned(d) /\ ~Answered(d)
    BY <1>1, PlanKept DEF SameWork, Answered
<1>4. Starting(d, FALSE)
    BY <1>1, StartingKept DEF SameWork
<1>5. CallInv(d)
    <2>1. d.pc \notin BusyPcs /\ d.pc \notin {"stop", "idle", "list"}
        BY <1>2 DEF BusyPcs
    <2>2. Starting(d, d.pc \in BusyPcs)
        <3>1. (d.pc \in BusyPcs) = FALSE
            BY <2>1
        <3> QED
            BY <1>4, <3>1
    <2> QED
        BY <1>2, <1>3, <2>1, <2>2 DEF CallInv
<1>6. RunInv(d, R)
    <2>1. NotStopped(d) = NotStopped(c)
        BY <1>1 DEF NotStopped, SameWork
    <2> QED
        BY <1>1, <1>2, <2>1 DEF RunInv, SameWork
<1>7. FetchInv(d, there)
    BY <1>2 DEF FetchInv
<1> QED
    BY <1>0, <1>1, <1>2, <1>5, <1>6, <1>7 DEF Sound

\* A call at the head of the stop loop.
LEMMA LoopStops ==
    ASSUME NEW c \in CallRecs, NEW R, NEW there, ~Answered(c), Planned(c), Stopping(c),
           ~c.disturbed => R = c.actions.unchanged \cup NotStopped(c) \cup c.left
    PROVE  LET d == StopLoop(c)
           IN d \in CallRecs /\ d.pc \in {"stop", "start", "answer"} /\ Sound(d, R, there)
<1>0. PICK d : d = StopLoop(c)
    OBVIOUS
<1>1. /\ d \in CallRecs /\ SameWork(d, c)
      /\ c.left # {} => d.pc = "stop" /\ d.left = c.left
      /\ c.left = {} =>
            /\ d.left = c.actions.to_start
            /\ d.pc = IF d.left = {} THEN "answer" ELSE "start"
    BY <1>0, StopLoopDoes
<1>2. d.pc \in {"stop", "start", "answer"} /\ (d.pc = "answer" => d.left = {})
    BY <1>1
<1>3. Planned(d) /\ ~Answered(d)
    BY <1>1, PlanKept DEF SameWork, Answered
<1>4. d.pc = "stop" => Stopping(d)
    <2>1. \A k : ErrorCount(d, k) = ErrorCount(c, k)
        BY <1>1, ErrorsSame DEF SameWork
    <2> QED
        BY <1>1, <2>1 DEF Stopping, SameWork
<1>5. d.pc # "stop" => Starting(d, FALSE)
    BY <1>1, StartingBegins DEF SameWork
<1>6. CallInv(d)
    <2>1. d.pc \notin BusyPcs /\ d.pc \notin {"idle", "list"} /\ "stop" \notin StartPcs
        BY <1>2 DEF BusyPcs, StartPcs
    <2>2. d.pc # "stop" => Starting(d, d.pc \in BusyPcs)
        <3>1. (d.pc \in BusyPcs) = FALSE
            BY <2>1
        <3> QED
            BY <1>5, <3>1
    <2> QED
        BY <1>2, <1>3, <1>4, <2>1, <2>2 DEF CallInv
<1>7. RunInv(d, R)
    <2>1. NotStopped(d) = NotStopped(c) /\ c.created = {}
        BY <1>1 DEF NotStopped, SameWork, Stopping
    <2>2. CASE c.left = {}
        BY <1>1, <2>1, <2>2 DEF RunInv, SameWork
    <2>3. CASE c.left # {}
        BY <1>1, <2>1, <2>3 DEF RunInv, SameWork
    <2> QED
        BY <2>2, <2>3
<1>8. FetchInv(d, there)
    BY <1>2 DEF FetchInv
<1> QED
    BY <1>0, <1>1, <1>2, <1>6, <1>7, <1>8 DEF Sound

-----------------------------------------------------------------------------
(* The parts of a step *)

RegistryTyped ==
    /\ serving \in BOOLEAN
    /\ listed \in [Vms -> Addresses \cup {NotListed}]
    /\ saved \subseteq Vms

\* A step of others: the call is as it was, unless it is told that the
\* registry has changed.
Kept(t) ==
    /\ SameCall(handler'[t], handler[t])
    /\ \/ ListedVms' = ListedVms /\ handler'[t].disturbed = handler[t].disturbed
       \/ HasListed(handler[t]) => handler'[t].disturbed

LocalGrows == \A v \in Volumes : local[v] # NoInode => local'[v] # NoInode

LEMMA KeptSound ==
    ASSUME SchedInv, NEW t \in Tasks, Kept(t), LocalGrows
    PROVE  Sound(handler'[t], ListedVms', local')
<1>1. PICK x, y, R, Q, here, there :
         /\ x = handler'[t] /\ y = handler[t] /\ R = ListedVms /\ Q = ListedVms'
         /\ here = local /\ there = local'
    OBVIOUS
<1>2. Sound(y, R, here)
    BY <1>1 DEF SchedInv
<1>3. SameCall(x, y)
    BY <1>1 DEF Kept
<1>4. (Q = R /\ x.disturbed = y.disturbed) \/ (HasListed(y) => x.disturbed)
    BY <1>1 DEF Kept
<1>5. \A v \in Volumes : here[v] # NoInode => there[v] # NoInode
    BY <1>1 DEF LocalGrows
<1>6. Sound(x, Q, there)
    BY <1>2, <1>3, <1>4, <1>5, SameSound
<1> QED
    BY <1>1, <1>6

\* What the ensure_cached call of a task may look like after a step.
DownloadOK(h) ==
    /\ dl'[h].pc # "idle" => /\ handler'[h].pc = "await"
                             /\ dl'[h].vol = handler'[h].fetches[1].path
    /\ dl'[h].pc = "ok" => local'[dl'[h].vol] # NoInode

LEMMA KeptDownload ==
    ASSUME SchedInv, NEW t \in Tasks, Kept(t), LocalGrows, dl'[t] = dl[t]
    PROVE  DownloadOK(t)
<1>1. dl[t].pc # "idle" => dl[t].vol \in Volumes
    BY DEF SchedInv, CacheInv, CacheTypeOK
<1>2. /\ dl[t].pc # "idle" => /\ handler[t].pc = "await"
                              /\ dl[t].vol = handler[t].fetches[1].path
      /\ dl[t].pc = "ok" => local[dl[t].vol] # NoInode
    BY DEF SchedInv, DownloadInv
<1>3. handler'[t].pc = handler[t].pc /\ handler'[t].fetches = handler[t].fetches
    BY DEF Kept, SameCall
<1> QED
    BY <1>1, <1>2, <1>3 DEF DownloadOK, LocalGrows

\* A step that changes the call of one task, or none.
LEMMA Combine ==
    ASSUME SchedInv, NEW H \in SUBSET Tasks,
           RegistryTyped', known' \subseteq Hashes, handler' \in [Tasks -> CallRecs],
           faults' \in 0..MaxFaults, received' \in 0..MaxAllocations,
           CacheInv', LockInv', LocalGrows,
           \A t \in Tasks \ H : Kept(t) /\ dl'[t] = dl[t],
           \A t \in H : Sound(handler'[t], ListedVms', local') /\ DownloadOK(t)
    PROVE  SchedInv'
<1>1. SchedTyped'
    BY DEF SchedTyped, RegistryTyped
<1>2. ASSUME NEW t \in Tasks PROVE Sound(handler'[t], ListedVms', local')
    BY KeptSound
<1>3. ASSUME NEW t \in Tasks PROVE DownloadOK(t)
    BY KeptDownload
<1>4. DownloadInv'
    BY <1>3 DEF DownloadInv, DownloadOK
<1> QED
    BY <1>1, <1>2, <1>4 DEF SchedInv

LEMMA SetDoes ==
    ASSUME SchedInv, NEW h \in Tasks, NEW d \in CallRecs, Set(h, d)
    PROVE  /\ handler' \in [Tasks -> CallRecs] /\ handler'[h] = d
           /\ \A t \in Tasks : t # h => handler'[t] = handler[t]
BY DEF Set, SchedInv, SchedTyped

LEMMA RegistryKept ==
    ASSUME SchedInv, UNCHANGED registry
    PROVE  RegistryTyped' /\ ListedVms' = ListedVms
BY DEF SchedInv, SchedTyped, RegistryTyped, registry, ListedVms, Listed

LEMMA CacheKept ==
    ASSUME SchedInv, UNCHANGED cache
    PROVE  CacheInv' /\ LocalGrows /\ dl' = dl /\ local' = local
<1>1. CacheInv'
    BY CacheNextInv DEF SchedInv
<1> QED
    BY <1>1 DEF cache, LocalGrows

LEMMA SameIsKept ==
    ASSUME NEW t, handler'[t] = handler[t], ListedVms' = ListedVms
    PROVE  Kept(t)
BY DEF Kept, SameCall

LEMMA NotAwaiting ==
    ASSUME SchedInv, NEW h \in Tasks, handler[h].pc # "await"
    PROVE  dl[h].pc = "idle"
BY DEF SchedInv, DownloadInv

\* A step of a call that touches neither the node nor the cache.
LEMMA QuietStep ==
    ASSUME SchedInv, NEW h \in Tasks, NEW d \in CallRecs, Set(h, d),
           UNCHANGED <<registry, cache, known, faults>>, received' \in 0..MaxAllocations,
           handler[h].pc # "await", Sound(d, ListedVms, local),
           \/ lock' = lock /\ (d.pc = "ports" <=> handler[h].pc = "ports")
           \/ lock' = NotListed /\ handler[h].pc = "ports" /\ d.pc # "ports"
    PROVE  SchedInv'
<1>1. /\ handler' \in [Tasks -> CallRecs] /\ handler'[h] = d
      /\ \A t \in Tasks : t # h => handler'[t] = handler[t]
    BY SetDoes
<1>2. RegistryTyped' /\ ListedVms' = ListedVms
    BY RegistryKept
<1>3. CacheInv' /\ LocalGrows /\ dl' = dl /\ local' = local
    BY CacheKept
<1>4. LockInv'
    BY <1>1, SchedulerAssumption DEF SchedInv, LockInv
<1>5. \A t \in Tasks \ {h} : Kept(t) /\ dl'[t] = dl[t]
    BY <1>1, <1>2, <1>3, SameIsKept
<1>6. Sound(handler'[h], ListedVms', local')
    BY <1>1, <1>2, <1>3
<1>7. DownloadOK(h)
    BY <1>3, NotAwaiting DEF DownloadOK
<1>8. known' \subseteq Hashes /\ faults' \in 0..MaxFaults
    BY DEF SchedInv, SchedTyped
<1>9. {h} \in SUBSET Tasks
    OBVIOUS
<1> QED
    BY <1>1, <1>2, <1>3, <1>4, <1>5, <1>6, <1>7, <1>8, <1>9, Combine

\* A call's own record, as a value.
LEMMA OwnCall ==
    ASSUME SchedInv, NEW h \in Tasks
    PROVE  /\ handler[h] \in CallRecs /\ Sound(handler[h], ListedVms, local)
           /\ handler[h].pc # "idle" => ~Answered(handler[h])
BY DEF SchedInv, SchedTyped, Sound, CallInv

\* What a change of the registry does to the calls under way.
LEMMA DisturbDoes ==
    ASSUME NEW hs \in [Tasks -> CallRecs], NEW who
    PROVE  /\ Disturb(hs, who) \in [Tasks -> CallRecs]
           /\ \A t \in Tasks :
                 /\ SameCall(Disturb(hs, who)[t], hs[t])
                 /\ t \in who => Disturb(hs, who)[t] = hs[t]
                 /\ t \notin who /\ HasListed(hs[t]) => Disturb(hs, who)[t].disturbed
<1>1. ASSUME NEW t \in Tasks
      PROVE  /\ Disturb(hs, who)[t] \in CallRecs
             /\ SameCall(Disturb(hs, who)[t], hs[t])
             /\ t \in who => Disturb(hs, who)[t] = hs[t]
             /\ t \notin who /\ HasListed(hs[t]) => Disturb(hs, who)[t].disturbed
    <2> DEFINE c == hs[t]
               d == [c EXCEPT !.disturbed = TRUE]
    <2>1. c \in CallRecs /\ TRUE \in Flags
        BY DEF Flags
    <2>2. Disturb(hs, who)[t] = IF t \notin who /\ HasListed(c) THEN d ELSE c
        BY DEF Disturb
    <2> HIDE DEF c
    <2>3. d \in CallRecs
        BY <2>1 DEF CallRecs
    <2>4. SameCall(d, c)
        BY <2>1 DEF CallRecs, SameCall
    <2>5. d.disturbed = TRUE
        BY <2>1 DEF CallRecs
    <2>6. SameCall(c, c)
        BY DEF SameCall
    <2> HIDE DEF d
    <2>7. CASE t \notin who /\ HasListed(c)
        BY <2>2, <2>3, <2>4, <2>5, <2>7 DEF c
    <2>8. CASE ~(t \notin who /\ HasListed(c))
        BY <2>1, <2>2, <2>6, <2>8 DEF c
    <2> QED
        BY <2>7, <2>8
<1>2. Disturb(hs, who) \in [Tasks -> CallRecs]
    <2>1. Disturb(hs, who) = [t \in Tasks |-> Disturb(hs, who)[t]]
        BY DEF Disturb
    <2> QED
        BY <1>1, <2>1
<1> QED
    BY <1>1, <1>2

LEMMA RegistersOne ==
    ASSUME SchedInv, NEW v \in Vms, NEW a \in Addresses, Register(v, a)
    PROVE  RegistryTyped' /\ ListedVms' = ListedVms \cup {v}
<1>1. listed \in [Vms -> Addresses \cup {NotListed}] /\ listed' = [listed EXCEPT ![v] = a]
    BY DEF SchedInv, SchedTyped, Register
<1>2. RegistryTyped'
    BY <1>1 DEF SchedInv, SchedTyped, RegistryTyped, Register
<1> QED
    BY <1>1, <1>2, RegistryAssumption DEF ListedVms, Listed

LEMMA DeregistersOne ==
    ASSUME SchedInv, NEW v \in Vms, Deregister(v)
    PROVE  RegistryTyped' /\ ListedVms' = ListedVms \ {v}
<1>1. listed \in [Vms -> Addresses \cup {NotListed}] /\ listed' = [listed EXCEPT ![v] = NotListed]
    BY DEF SchedInv, SchedTyped, Deregister
<1>2. RegistryTyped'
    BY <1>1 DEF SchedInv, SchedTyped, RegistryTyped, Deregister
<1> QED
    BY <1>1, <1>2 DEF ListedVms, Listed

\* A step of others that changes the registry.
LEMMA ForeignStep ==
    ASSUME SchedInv, handler' = Disturb(handler, {}), RegistryTyped',
           UNCHANGED <<cache, known, lock, received>>, faults' \in 0..MaxFaults
    PROVE  SchedInv'
<1>1. handler \in [Tasks -> CallRecs]
    BY DEF SchedInv, SchedTyped
<1>2. PICK hs \in [Tasks -> CallRecs] : hs = handler
    BY <1>1
<1>3. /\ handler' \in [Tasks -> CallRecs]
      /\ \A t \in Tasks : /\ SameCall(handler'[t], hs[t])
                          /\ HasListed(hs[t]) => handler'[t].disturbed
    <2>1. PICK who : who = {}
        OBVIOUS
    <2>2. handler' = Disturb(hs, who) /\ \A t : t \notin who
        BY <1>2, <2>1
    <2> QED
        BY <2>2, DisturbDoes
<1>4. CacheInv' /\ LocalGrows /\ dl' = dl
    BY CacheKept
<1>5. \A t \in Tasks \ {} : Kept(t) /\ dl'[t] = dl[t]
    BY <1>2, <1>3, <1>4 DEF Kept
<1>6. LockInv'
    BY <1>2, <1>3 DEF SchedInv, LockInv, SameCall
<1>7. known' \subseteq Hashes /\ received' \in 0..MaxAllocations
    BY DEF SchedInv, SchedTyped
<1>8. {} \in SUBSET Tasks
    OBVIOUS
<1> QED
    BY <1>3, <1>4, <1>5, <1>6, <1>7, <1>8, Combine

\* A call's own change of the registry: it knows of it (who = {h}), or takes
\* it for an error (who = {}).
LEMMA RegistryStep ==
    ASSUME SchedInv, NEW h \in Tasks, NEW d \in CallRecs, NEW who \in SUBSET {h}, NEW R,
           handler' = Disturb([handler EXCEPT ![h] = d], who), RegistryTyped',
           Sound(d, R, local), h \in who => R = ListedVms', h \notin who => HasListed(d),
           handler[h].pc \notin {"await", "ports"},
           UNCHANGED <<cache, known, received>>, faults' \in 0..MaxFaults,
           \/ lock' = lock /\ d.pc # "ports"
           \/ lock = NotListed /\ lock' = h /\ d.pc = "ports"
    PROVE  SchedInv'
<1>1. handler \in [Tasks -> CallRecs]
    BY DEF SchedInv, SchedTyped
<1>2. PICK hs \in [Tasks -> CallRecs] : hs = [handler EXCEPT ![h] = d]
    BY <1>1
<1>3. hs[h] = d /\ \A t \in Tasks : t # h => hs[t] = handler[t]
    BY <1>1, <1>2
<1>4. /\ handler' \in [Tasks -> CallRecs]
      /\ \A t \in Tasks : /\ SameCall(handler'[t], hs[t])
                          /\ t \in who => handler'[t] = hs[t]
                          /\ t \notin who /\ HasListed(hs[t]) => handler'[t].disturbed
    <2>1. handler' = Disturb(hs, who)
        BY <1>2
    <2>2. /\ Disturb(hs, who) \in [Tasks -> CallRecs]
          /\ \A t \in Tasks :
                /\ SameCall(Disturb(hs, who)[t], hs[t])
                /\ t \in who => Disturb(hs, who)[t] = hs[t]
                /\ t \notin who /\ HasListed(hs[t]) => Disturb(hs, who)[t].disturbed
        BY DisturbDoes
    <2> QED
        BY <2>1, <2>2
<1>5. CacheInv' /\ LocalGrows /\ dl' = dl /\ local' = local
    BY CacheKept
<1>6. \A t \in Tasks \ {h} : Kept(t) /\ dl'[t] = dl[t]
    BY <1>3, <1>4, <1>5 DEF Kept
<1>7. LockInv'
    <2>1. \A t \in Tasks : handler'[t].pc = hs[t].pc
        BY <1>4 DEF SameCall
    <2>2. \A t \in Tasks : lock = t <=> handler[t].pc = "ports"
        BY DEF SchedInv, LockInv
    <2>3. ASSUME NEW t \in Tasks PROVE lock' = t <=> handler'[t].pc = "ports"
        <3>1. CASE t = h
            BY <1>3, <2>1, <2>2, <3>1
        <3>2. CASE t # h
            BY <1>3, <2>1, <2>2, <3>2, SchedulerAssumption
        <3> QED
            BY <3>1, <3>2
    <2> QED
        BY <2>3 DEF LockInv
<1>8. Sound(handler'[h], ListedVms', local')
    <2>1. CASE h \in who
        BY <1>3, <1>4, <1>5, <2>1
    <2>2. CASE h \notin who
        <3>1. PICK x, Q, there : x = handler'[h] /\ Q = ListedVms' /\ there = local
            OBVIOUS
        <3>2. Sound(d, R, there)
            BY <3>1
        <3>3. SameCall(x, d) /\ (HasListed(d) => x.disturbed)
            BY <1>3, <1>4, <2>2, <3>1
        <3>4. \A v \in Volumes : there[v] # NoInode => there[v] # NoInode
            OBVIOUS
        <3>5. Sound(x, Q, there)
            BY <3>2, <3>3, <3>4, SameSound
        <3> QED
            BY <1>5, <3>1, <3>5
    <2> QED
        BY <2>1, <2>2
<1>9. DownloadOK(h)
    BY <1>5, NotAwaiting DEF DownloadOK
<1>10. known' \subseteq Hashes /\ received' \in 0..MaxAllocations
    BY DEF SchedInv, SchedTyped
<1>11. {h} \in SUBSET Tasks /\ \A t \in {h} : t = h
    OBVIOUS
<1> QED
    BY <1>4, <1>5, <1>6, <1>7, <1>8, <1>9, <1>10, <1>11, Combine

-----------------------------------------------------------------------------
(* The rest of the world *)

LEMMA FaultCounted ==
    ASSUME SchedInv, Fault
    PROVE  faults' \in 0..MaxFaults
BY SchedulerAssumption DEF SchedInv, SchedTyped, Fault

LEMMA ForeignCallHolds ==
    ASSUME SchedInv, NEW v \in Vms, ForeignCall(v)
    PROVE  SchedInv'
<1>1. RegistryTyped'
    BY RegistersOne, DeregistersOne DEF ForeignCall
<1> QED
    BY <1>1, FaultCounted, ForeignStep DEF ForeignCall

LEMMA QemuEndsHolds ==
    ASSUME SchedInv, NEW v \in Vms, QemuEnds(v)
    PROVE  SchedInv'
<1>1. RegistryTyped'
    BY RegistryKept DEF QemuEnds
<1> QED
    BY <1>1, FaultCounted, ForeignStep DEF QemuEnds

LEMMA NodeRestartHolds ==
    ASSUME SchedInv, NodeRestart
    PROVE  SchedInv'
<1>1. RegistryTyped'
    BY DEF SchedInv, SchedTyped, RegistryTyped, NodeRestart, Restart
<1> QED
    BY <1>1, FaultCounted, ForeignStep DEF NodeRestart

LEMMA NodeRecoversHolds ==
    ASSUME SchedInv, NodeRecovers
    PROVE  SchedInv'
<1>1. RegistryTyped'
    <2>1. CASE Resume
        BY <2>1 DEF SchedInv, SchedTyped, RegistryTyped, Resume
    <2>2. ASSUME NEW v \in Vms, NEW a \in Addresses, Reload(v, a) PROVE RegistryTyped'
        BY <2>2 DEF SchedInv, SchedTyped, RegistryTyped, Reload
    <2> QED
        BY <2>1, <2>2 DEF NodeRecovers
<1>2. faults' \in 0..MaxFaults
    BY DEF SchedInv, SchedTyped, NodeRecovers
<1> QED
    BY <1>1, <1>2, ForeignStep DEF NodeRecovers

\* A step that leaves the calls and the list of VMs alone.
LEMMA IdleStep ==
    ASSUME SchedInv, RegistryTyped', listed' = listed, known' \subseteq Hashes,
           UNCHANGED <<cache, handler, lock, faults, received>>
    PROVE  SchedInv'
<1>1. ListedVms' = ListedVms
    BY DEF ListedVms, Listed
<1>2. CacheInv' /\ LocalGrows /\ dl' = dl
    BY CacheKept
<1>3. \A t \in Tasks \ {} : Kept(t) /\ dl'[t] = dl[t]
    BY <1>1, <1>2, SameIsKept
<1>4. LockInv' /\ handler' \in [Tasks -> CallRecs]
    BY DEF SchedInv, SchedTyped, LockInv
<1>5. faults' \in 0..MaxFaults /\ received' \in 0..MaxAllocations
    BY DEF SchedInv, SchedTyped
<1>6. {} \in SUBSET Tasks
    OBVIOUS
<1> QED
    BY <1>2, <1>3, <1>4, <1>5, <1>6, Combine

LEMMA NodeSavesHolds ==
    ASSUME SchedInv, NEW v \in Vms, NodeSaves(v)
    PROVE  SchedInv'
<1>1. RegistryTyped' /\ listed' = listed
    BY DEF SchedInv, SchedTyped, RegistryTyped, NodeSaves, Persist, Unpersist
<1>2. known' \subseteq Hashes
    BY DEF SchedInv, SchedTyped, NodeSaves
<1> QED
    BY <1>1, <1>2, IdleStep DEF NodeSaves

LEMMA PostMessageHolds ==
    ASSUME SchedInv, NEW v \in Hashes, PostMessage(v)
    PROVE  SchedInv'
<1>1. RegistryTyped' /\ listed' = listed
    BY RegistryKept DEF PostMessage, registry
<1>2. known' \subseteq Hashes
    BY DEF SchedInv, SchedTyped, PostMessage
<1> QED
    BY <1>1, <1>2, IdleStep DEF PostMessage

\* A call that has not begun, or was refused, claims nothing.
LEMMA FreshSound ==
    ASSUME NEW d \in CallRecs, NEW R, NEW there, d.pc \in {"idle", "list"}, ~Answered(d),
           d.left = {}, d.errors = {}, d.created = {}
    PROVE  Sound(d, R, there)
<1>1. ~HasListed(d)
    BY DEF HasListed, Answered
<1>2. CallInv(d)
    BY <1>1 DEF CallInv, StartPcs
<1>3. RunInv(d, R) /\ FetchInv(d, there)
    BY <1>1 DEF RunInv, FetchInv
<1> QED
    BY <1>2, <1>3 DEF Sound

LEMMA NoCallTyped ==
    /\ NoCall \in CallRecs /\ NoCall.pc = "idle" /\ ~Answered(NoCall)
    /\ NoCall.left = {} /\ NoCall.errors = {} /\ NoCall.created = {}
<1>1. NoActions \in Plans /\ NoResponse \in Responses /\ NoResponse.status = 0
    BY DEF NoActions, Plans, NoResponse, Responses
<1>2. "idle" \in CallPcs /\ FALSE \in Flags
    BY DEF CallPcs, Flags
<1>3. <<>> \in Seq(VolumeDisks) /\ <<>> \in Seq(Forwards)
    OBVIOUS
<1>4. NoCall \in CallRecs
    BY <1>1, <1>2, <1>3 DEF NoCall, CallRecs
<1>5. /\ NoCall.pc = "idle" /\ NoCall.left = {} /\ NoCall.errors = {} /\ NoCall.created = {}
      /\ NoCall.response = NoResponse
    BY DEF NoCall
<1> QED
    BY <1>1, <1>4, <1>5 DEF Answered

LEMMA RefusedSound ==
    ASSUME NEW s \in {400, 401, 500}, NEW R, NEW there
    PROVE  LET d == [NoCall EXCEPT !.response = Refused(s)]
           IN d \in CallRecs /\ d.pc = "idle" /\ Sound(d, R, there)
<1> DEFINE d == [NoCall EXCEPT !.response = Refused(s)]
<1>1. Refused(s) \in Responses /\ Refused(s).status = s
    BY DEF Refused, NoResponse, Responses
<1>2. d \in CallRecs
    BY <1>1, NoCallTyped DEF CallRecs
<1>3. /\ d.pc = "idle" /\ d.left = {} /\ d.errors = {} /\ d.created = {}
      /\ d.response = Refused(s)
    BY NoCallTyped DEF CallRecs
<1> HIDE DEF d
<1>4. ~Answered(d)
    BY <1>1, <1>3 DEF Answered
<1>5. Sound(d, R, there)
    BY <1>2, <1>3, <1>4, FreshSound
<1> QED
    BY <1>2, <1>3, <1>5 DEF d

LEMMA BegunSound ==
    ASSUME NEW D \in SUBSET Vms, NEW R, NEW there
    PROVE  LET d == [NoCall EXCEPT !.pc = "list", !.desired = D]
           IN d \in CallRecs /\ d.pc = "list" /\ Sound(d, R, there)
<1> DEFINE d == [NoCall EXCEPT !.pc = "list", !.desired = D]
<1>1. "list" \in CallPcs
    BY DEF CallPcs
<1>2. d \in CallRecs
    BY <1>1, NoCallTyped DEF CallRecs
<1>3. /\ d.pc = "list" /\ d.left = {} /\ d.errors = {} /\ d.created = {}
      /\ d.response = NoCall.response
    BY NoCallTyped DEF CallRecs
<1> HIDE DEF d
<1>4. ~Answered(d)
    BY <1>3, NoCallTyped DEF Answered
<1>5. Sound(d, R, there)
    BY <1>2, <1>3, <1>4, FreshSound
<1> QED
    BY <1>2, <1>3, <1>5 DEF d

LEMMA AgentRestartHolds ==
    ASSUME SchedInv, AgentRestart
    PROVE  SchedInv'
<1>1. /\ handler' = [h \in Tasks |-> NoCall] /\ dl' = [h \in Tasks |-> NoDownload]
      /\ lock' = NotListed /\ known' = {} /\ UNCHANGED <<registry, received>>
      /\ local' = local
    BY DEF AgentRestart, CacheRestart
<1>2. handler' \in [Tasks -> CallRecs]
    BY <1>1, NoCallTyped
<1>3. CacheInv'
    BY OtherStepsInv DEF SchedInv, AgentRestart
<1>4. LocalGrows /\ RegistryTyped' /\ LockInv'
    BY <1>1, RegistryKept, NoCallTyped, SchedulerAssumption DEF LocalGrows, LockInv
<1>5. \A t \in Tasks : DownloadOK(t)
    BY <1>1 DEF DownloadOK, NoDownload
<1>6. ASSUME NEW t \in Tasks PROVE Sound(handler'[t], ListedVms', local')
    <2>1. PICK Q, there : Q = ListedVms' /\ there = local'
        OBVIOUS
    <2>2. Sound(NoCall, Q, there)
        BY NoCallTyped, FreshSound
    <2> QED
        BY <1>1, <2>1, <2>2
<1>7. /\ known' \subseteq Hashes /\ received' \in 0..MaxAllocations
      /\ faults' \in 0..MaxFaults
    BY <1>1, FaultCounted DEF SchedInv, SchedTyped, AgentRestart
<1>8. Tasks \in SUBSET Tasks /\ Tasks \ Tasks = {}
    OBVIOUS
<1> QED
    BY <1>2, <1>3, <1>4, <1>5, <1>6, <1>7, <1>8, Combine

-----------------------------------------------------------------------------
(* Downloads *)

LEMMA DownloadDoes ==
    ASSUME CacheInv, NEW h \in Tasks, Download(h)
    PROVE  /\ CacheInv' /\ LocalGrows
           /\ \A t \in Tasks : t # h => dl'[t] = dl[t]
           /\ dl[h].pc # "idle" /\ dl'[h].vol = dl[h].vol
           /\ dl'[h].pc = "ok" => local'[dl'[h].vol] # NoInode
<1>1. CacheInv'
    BY CacheNextInv DEF CacheNext
<1>2. /\ dl \in [Tasks -> [pc : {"idle", "create", "write", "rename", "ok", "err"},
                           vol : Volumes \cup {NoInode}, ino : Inodes \cup {NoInode}]]
      /\ local \in [Volumes -> Inodes \cup {NoInode}]
      /\ dl[h].pc # "idle" => dl[h].vol \in Volumes
    BY DEF CacheInv, CacheTypeOK
<1>3. CASE CreateTmp(h)
    BY <1>1, <1>2, <1>3 DEF CreateTmp, LocalGrows
<1>4. CASE WriteBody(h)
    BY <1>1, <1>2, <1>4 DEF WriteBody, LocalGrows
<1>5. CASE Rename(h)
    BY <1>1, <1>2, <1>5 DEF Rename, LocalGrows
<1>6. CASE DownloadFails(h)
    BY <1>1, <1>2, <1>6 DEF DownloadFails, LocalGrows
<1> QED
    BY <1>3, <1>4, <1>5, <1>6 DEF Download

LEMMA DownloadStepHolds ==
    ASSUME SchedInv, NEW h \in Tasks, DownloadStep(h)
    PROVE  SchedInv'
<1>1. /\ Download(h) /\ UNCHANGED <<registry, known, handler, lock, faults, received>>
    BY DEF DownloadStep
<1>2. /\ CacheInv' /\ LocalGrows
      /\ \A t \in Tasks : t # h => dl'[t] = dl[t]
      /\ dl[h].pc # "idle" /\ dl'[h].vol = dl[h].vol
      /\ dl'[h].pc = "ok" => local'[dl'[h].vol] # NoInode
    BY <1>1, DownloadDoes DEF SchedInv
<1>3. RegistryTyped' /\ ListedVms' = ListedVms
    BY <1>1, RegistryKept
<1>4. \A t \in Tasks : Kept(t)
    BY <1>1, <1>3, SameIsKept
<1>5. Sound(handler'[h], ListedVms', local')
    BY <1>2, <1>4, KeptSound
<1>6. DownloadOK(h)
    BY <1>1, <1>2 DEF DownloadOK, SchedInv, DownloadInv
<1>7. /\ LockInv' /\ handler' \in [Tasks -> CallRecs] /\ known' \subseteq Hashes
      /\ faults' \in 0..MaxFaults /\ received' \in 0..MaxAllocations
    BY <1>1 DEF SchedInv, SchedTyped, LockInv
<1>8. {h} \in SUBSET Tasks /\ \A t \in {h} : t = h
    OBVIOUS
<1> QED
    BY <1>2, <1>3, <1>4, <1>5, <1>6, <1>7, <1>8, Combine

-----------------------------------------------------------------------------
(* handle_allocation *)

LEMMA ReceiveHolds ==
    ASSUME SchedInv, NEW h \in Tasks, NEW b \in Bodies, ReceiveAllocation(h, b)
    PROVE  SchedInv'
<1>1. PICK Q, there : Q = ListedVms /\ there = local
    OBVIOUS
<1>2. all_vms(b) \in SUBSET Vms
    BY SchedulerAssumption DEF all_vms
<1>3. received' \in 0..MaxAllocations
    BY SchedulerAssumption DEF SchedInv, SchedTyped, ReceiveAllocation
<1>4. PICK d \in CallRecs : d.pc \in {"idle", "list"} /\ Sound(d, Q, there) /\ Set(h, d)
    <2>1. CASE ~verify_allocation_signature(b)
        <3> DEFINE d == [NoCall EXCEPT !.response = Refused(401)]
        <3>1. d \in CallRecs /\ d.pc = "idle" /\ Sound(d, Q, there)
            BY RefusedSound
        <3>2. Set(h, d)
            BY <2>1 DEF ReceiveAllocation
        <3> HIDE DEF d
        <3> QED
            BY <3>1, <3>2
    <2>2. CASE verify_allocation_signature(b) /\ ~b.parses
        <3> DEFINE d == [NoCall EXCEPT !.response = Refused(400)]
        <3>1. d \in CallRecs /\ d.pc = "idle" /\ Sound(d, Q, there)
            BY RefusedSound
        <3>2. Set(h, d)
            BY <2>2 DEF ReceiveAllocation
        <3> HIDE DEF d
        <3> QED
            BY <3>1, <3>2
    <2>3. CASE verify_allocation_signature(b) /\ b.parses
        BY <1>2, <2>3, BegunSound DEF ReceiveAllocation
    <2> QED
        BY <2>1, <2>2, <2>3
<1>5. Sound(d, ListedVms, local)
    BY <1>1, <1>4
<1> QED
    BY <1>3, <1>4, <1>5, QuietStep DEF ReceiveAllocation

\* What a sound call knows at each place.
LEMMA ListedFacts ==
    ASSUME NEW c \in CallRecs, NEW R, NEW there, Sound(c, R, there), c.pc \notin {"idle", "list"}
    PROVE  ~Answered(c) /\ Planned(c) /\ HasListed(c)
BY DEF Sound, CallInv, HasListed

LEMMA StopFacts ==
    ASSUME NEW c \in CallRecs, NEW R, NEW there, Sound(c, R, there), c.pc = "stop"
    PROVE  /\ ~Answered(c) /\ Planned(c) /\ Stopping(c)
           /\ ~c.disturbed => R = c.actions.unchanged \cup NotStopped(c) \cup c.left
<1>1. ~Answered(c) /\ Planned(c) /\ HasListed(c)
    BY ListedFacts
<1> QED
    BY <1>1 DEF Sound, CallInv, RunInv

LEMMA LoopFacts ==
    ASSUME NEW c \in CallRecs, NEW R, NEW there, Sound(c, R, there),
           c.pc \in {"start", "ports", "answer"}
    PROVE  /\ ~Answered(c) /\ Planned(c) /\ Starting(c, FALSE)
           /\ ~c.disturbed => R = c.actions.unchanged \cup NotStopped(c) \cup c.created
<1>1. ~Answered(c) /\ Planned(c) /\ HasListed(c)
    BY ListedFacts
<1>2. c.pc \in StartPcs /\ (c.pc \in BusyPcs) = FALSE
    BY DEF StartPcs, BusyPcs
<1>3. Starting(c, FALSE)
    BY <1>2 DEF Sound, CallInv
<1> QED
    BY <1>1, <1>3 DEF Sound, RunInv

LEMMA BusyFacts ==
    ASSUME NEW c \in CallRecs, NEW R, NEW there, Sound(c, R, there), c.pc \in BusyPcs
    PROVE  /\ ~Answered(c) /\ Planned(c) /\ Starting(c, TRUE) /\ c.cur \in Vms
           /\ ~c.disturbed => R = c.actions.unchanged \cup NotStopped(c) \cup c.created
<1>1. c.pc \in StartPcs /\ c.pc \notin {"idle", "list", "stop"} /\ (c.pc \in BusyPcs) = TRUE
    BY DEF StartPcs, BusyPcs
<1>2. ~Answered(c) /\ Planned(c) /\ HasListed(c)
    BY <1>1, ListedFacts
<1>3. Starting(c, TRUE)
    BY <1>1 DEF Sound, CallInv
<1>4. c.cur \in Vms
    BY <1>3, CallFields, PlanFields DEF Starting
<1> QED
    BY <1>1, <1>2, <1>3, <1>4 DEF Sound, RunInv

\* A call that is starting a VM.
LEMMA BusySound ==
    ASSUME NEW d \in CallRecs, NEW R, NEW there, d.pc \in BusyPcs, FetchInv(d, there),
           ~Answered(d), Planned(d), Starting(d, TRUE),
           ~d.disturbed => R = d.actions.unchanged \cup NotStopped(d) \cup d.created
    PROVE  Sound(d, R, there)
<1>1. (d.pc \in BusyPcs) = TRUE /\ d.pc \notin {"stop", "answer", "idle", "list"}
    BY DEF BusyPcs
<1>2. CallInv(d)
    BY <1>1 DEF CallInv
<1>3. RunInv(d, R)
    BY <1>1 DEF RunInv
<1> QED
    BY <1>2, <1>3 DEF Sound

LEMMA ListVmsHolds ==
    ASSUME SchedInv, NEW h \in Tasks, ListVms(h)
    PROVE  SchedInv'
<1>0. PICK c \in CallRecs : c = handler[h]
    BY OwnCall
<1>1. PICK R, there : c = handler[h] /\ R = ListedVms /\ there = local
    BY <1>0
<1>2. Sound(c, R, there) /\ c.pc = "list" /\ ~Answered(c)
    BY <1>1, OwnCall DEF ListVms
<1> DEFINE a == reconcile(c.desired, R)
           e == [c EXCEPT !.actions = a, !.left = a.to_stop]
<1>3. c.desired \subseteq Vms /\ R \subseteq Vms
    BY <1>1, CallFields DEF ListedVms
<1>4. /\ a \in Plans /\ a.to_start = c.desired \ R /\ a.to_stop = R \ c.desired
      /\ a.unchanged = R \cap c.desired
    BY <1>3 DEF reconcile, Plans
<1> HIDE DEF a
<1>5. a.to_stop \in SUBSET Vms
    BY <1>3, <1>4
<1>6. e \in CallRecs
    BY <1>4, <1>5 DEF CallRecs
<1>7. /\ e.actions = a /\ e.left = a.to_stop /\ e.desired = c.desired /\ e.errors = c.errors
      /\ e.created = c.created /\ e.disturbed = c.disturbed /\ e.response = c.response
    BY DEF CallRecs
<1> HIDE DEF e
<1>8. e.errors = {} /\ e.created = {} /\ ~Answered(e)
    BY <1>2, <1>7 DEF Sound, CallInv, Answered
<1>9. Planned(e)
    BY <1>4, <1>7 DEF Planned
<1>10. Stopping(e)
    <2>1. {x \in e.errors : x[1] = "stop"} = {}
        BY <1>8
    <2>2. ErrorCount(e, "stop") = 0
        BY <2>1, FS_EmptySet DEF ErrorCount
    <2>3. Cardinality(e.left) \in Nat
        BY <1>5, <1>7, FiniteParts
    <2> QED
        BY <1>7, <1>8, <2>2, <2>3 DEF Stopping
<1>11. R = e.actions.unchanged \cup NotStopped(e) \cup e.left
    BY <1>4, <1>7, <1>8 DEF NotStopped
<1>12. PICK d \in CallRecs : /\ d = StopLoop(e) /\ d.pc \in {"stop", "start", "answer"}
                             /\ Sound(d, R, there)
    BY <1>6, <1>8, <1>9, <1>10, <1>11, LoopStops
<1>13. Set(h, d)
    BY <1>1, <1>12 DEF ListVms, a, e
<1>14. Sound(d, ListedVms, local)
    BY <1>1, <1>12
<1>15. received' \in 0..MaxAllocations
    BY DEF SchedInv, SchedTyped, ListVms
<1> QED
    BY <1>1, <1>2, <1>12, <1>13, <1>14, <1>15, QuietStep DEF ListVms

LEMMA ListVmsFailsHolds ==
    ASSUME SchedInv, NEW h \in Tasks, ListVmsFails(h)
    PROVE  SchedInv'
<1>1. PICK Q, there : Q = ListedVms /\ there = local
    OBVIOUS
<1>2. PICK d \in CallRecs : d.pc = "idle" /\ Sound(d, Q, there) /\ Set(h, d)
    <2> DEFINE d == [NoCall EXCEPT !.response = Refused(500)]
    <2>1. d \in CallRecs /\ d.pc = "idle" /\ Sound(d, Q, there)
        BY RefusedSound
    <2>2. Set(h, d)
        BY DEF ListVmsFails
    <2> HIDE DEF d
    <2> QED
        BY <2>1, <2>2
<1>3. Sound(d, ListedVms, local) /\ received' \in 0..MaxAllocations
    BY <1>1, <1>2 DEF SchedInv, SchedTyped, ListVmsFails
<1> QED
    BY <1>2, <1>3, QuietStep DEF ListVmsFails

\* One iteration of the stop loop that ends with an error, whatever the node did.
LEMMA StopFailed ==
    ASSUME NEW c \in CallRecs, NEW R, NEW there, Sound(c, R, there), c.pc = "stop",
           NEW v \in c.left, NEW Q,
           ~c.disturbed => Q = R
    PROVE  LET d == StopLoop(WithError([c EXCEPT !.left = @ \ {v}], "stop", v))
           IN d \in CallRecs /\ d.pc \in {"stop", "start", "answer"} /\ Sound(d, Q, there)
<1>1. /\ ~Answered(c) /\ Planned(c) /\ Stopping(c) /\ v \in Vms
      /\ ~c.disturbed => R = c.actions.unchanged \cup NotStopped(c) \cup c.left
    BY StopFacts, CallFields
<1>2. PICK e \in CallRecs :
         /\ e = [c EXCEPT !.left = @ \ {v}] /\ SameWork(e, c) /\ e.left = c.left \ {v}
    BY LeftTaken
<1>3. PICK f \in CallRecs :
         /\ f = WithError(e, "stop", v) /\ f.errors = e.errors \cup {<<"stop", v>>}
         /\ f.desired = e.desired /\ f.actions = e.actions /\ f.left = e.left
         /\ f.created = e.created /\ f.disturbed = e.disturbed /\ f.response = e.response
    BY <1>1, WithErrorDoes
<1>4. /\ f.desired = c.desired /\ f.actions = c.actions /\ f.left = c.left \ {v}
      /\ f.created = c.created /\ f.disturbed = c.disturbed /\ f.response = c.response
      /\ f.errors = c.errors \cup {<<"stop", v>>}
    BY <1>2, <1>3 DEF SameWork
<1>5. Stopping(f)
    BY <1>1, <1>4, StoppingNext
<1>6. Planned(f) /\ ~Answered(f)
    BY <1>1, <1>4, PlanKept DEF Answered
<1>7. NotStopped(f) = NotStopped(c) \cup {v}
    BY <1>1, <1>4 DEF NotStopped
<1>8. ~f.disturbed => Q = f.actions.unchanged \cup NotStopped(f) \cup f.left
    BY <1>1, <1>4, <1>7
<1> QED
    BY <1>2, <1>3, <1>5, <1>6, <1>8, LoopStops

LEMMA StopVmHolds ==
    ASSUME SchedInv, NEW h \in Tasks, StopVm(h)
    PROVE  SchedInv'
<1>0. PICK c \in CallRecs : c = handler[h]
    BY OwnCall
<1>1. PICK R, there : c = handler[h] /\ R = ListedVms /\ there = local
    BY <1>0
<1>2. PICK v \in c.left :
         /\ c.pc = "stop" /\ lock = NotListed /\ Deregister(v)
         /\ handler' = Disturb([handler EXCEPT ![h] = StopLoop([c EXCEPT !.left = @ \ {v}])], {h})
         /\ UNCHANGED <<cache, known, lock, faults, received>>
    BY <1>1 DEF StopVm
<1>3. Sound(c, R, there)
    BY <1>1, OwnCall
<1>4. /\ ~Answered(c) /\ Planned(c) /\ Stopping(c) /\ v \in Vms
      /\ ~c.disturbed => R = c.actions.unchanged \cup NotStopped(c) \cup c.left
    BY <1>2, <1>3, StopFacts, CallFields
<1>5. PICK e \in CallRecs :
         /\ e = [c EXCEPT !.left = @ \ {v}] /\ SameWork(e, c) /\ e.left = c.left \ {v}
    BY LeftTaken
<1>6. Stopping(e) /\ Planned(e) /\ ~Answered(e)
    <2>1. /\ e.actions = c.actions /\ e.desired = c.desired /\ e.errors = c.errors
          /\ e.created = c.created /\ e.response = c.response /\ e.left = c.left \ {v}
        BY <1>5 DEF SameWork
    <2>2. Stopping(e)
        BY <1>4, <2>1, StoppingNext
    <2> QED
        BY <1>4, <2>1, <2>2, PlanKept DEF Answered
<1>7. RegistryTyped' /\ ListedVms' = ListedVms \ {v}
    BY <1>2, <1>4, DeregistersOne
<1>8. PICK Q : Q = R \ {v}
    OBVIOUS
<1>9. ~e.disturbed => Q = e.actions.unchanged \cup NotStopped(e) \cup e.left
    <2>1. v \notin c.actions.unchanged /\ v \notin NotStopped(c)
        BY <1>4 DEF Planned, Stopping, NotStopped
    <2>2. NotStopped(e) = NotStopped(c)
        BY <1>5 DEF NotStopped, SameWork
    <2> QED
        BY <1>4, <1>5, <1>8, <2>1, <2>2 DEF SameWork
<1>10. PICK d \in CallRecs : /\ d = StopLoop(e) /\ d.pc \in {"stop", "start", "answer"}
                             /\ Sound(d, Q, there)
    BY <1>5, <1>6, <1>9, LoopStops
<1>11. handler' = Disturb([handler EXCEPT ![h] = d], {h})
    BY <1>2, <1>5, <1>10
<1>12. Sound(d, Q, local) /\ Q = ListedVms'
    BY <1>1, <1>7, <1>8, <1>10
<1>13. faults' \in 0..MaxFaults
    BY <1>2 DEF SchedInv, SchedTyped
<1>14. {h} \in SUBSET {h} /\ h \in {h}
    OBVIOUS
<1> QED
    BY <1>1, <1>2, <1>7, <1>10, <1>11, <1>12, <1>13, <1>14, RegistryStep

LEMMA StopVmFailsHolds ==
    ASSUME SchedInv, NEW h \in Tasks, StopVmFails(h)
    PROVE  SchedInv'
<1>0. PICK c \in CallRecs : c = handler[h]
    BY OwnCall
<1>1. PICK R, there : c = handler[h] /\ R = ListedVms /\ there = local
    BY <1>0
<1>2. Sound(c, R, there) /\ c.pc = "stop"
    BY <1>1, OwnCall DEF StopVmFails
<1>3. PICK v \in c.left :
         Set(h, StopLoop(WithError([c EXCEPT !.left = @ \ {v}], "stop", v)))
    BY <1>1 DEF StopVmFails
<1>4. PICK d \in CallRecs :
         /\ d = StopLoop(WithError([c EXCEPT !.left = @ \ {v}], "stop", v))
         /\ d.pc \in {"stop", "start", "answer"} /\ Sound(d, R, there)
    BY <1>2, StopFailed
<1>5. Sound(d, ListedVms, local) /\ Set(h, d)
    BY <1>1, <1>3, <1>4
<1>6. received' \in 0..MaxAllocations
    BY DEF SchedInv, SchedTyped, StopVmFails
<1> QED
    BY <1>1, <1>2, <1>4, <1>5, <1>6, QuietStep DEF StopVmFails

\* One iteration of the start loop that ends with an error, whatever the node did.
LEMMA StartFailed ==
    ASSUME NEW c \in CallRecs, NEW there, NEW Q, ~Answered(c), Planned(c), Starting(c, TRUE),
           c.cur \in Vms, NEW kind \in {"start", "translate"},
           ~c.disturbed => Q = c.actions.unchanged \cup NotStopped(c) \cup c.created
    PROVE  LET d == StartLoop(WithError(c, kind, c.cur))
           IN d \in CallRecs /\ d.pc \in {"start", "answer"} /\ Sound(d, Q, there)
<1>0. PICK v \in Vms : v = c.cur
    OBVIOUS
<1>1. PICK f \in CallRecs :
         /\ f = WithError(c, kind, c.cur) /\ f.errors = c.errors \cup {<<kind, c.cur>>}
         /\ f.desired = c.desired /\ f.actions = c.actions /\ f.left = c.left
         /\ f.created = c.created /\ f.disturbed = c.disturbed /\ f.response = c.response
    <2>1. kind \in {"stop", "start", "translate"}
        OBVIOUS
    <2>2. LET d == WithError(c, kind, v)
          IN /\ d \in CallRecs /\ d.errors = c.errors \cup {<<kind, v>>}
             /\ d.desired = c.desired /\ d.actions = c.actions
             /\ d.left = c.left /\ d.created = c.created
             /\ d.disturbed = c.disturbed /\ d.response = c.response
        BY <2>1, WithErrorDoes
    <2> QED
        BY <1>0, <2>2
<1>2. Starting(f, FALSE)
    BY <1>1, StartingReports
<1>3. Planned(f) /\ ~Answered(f)
    BY <1>1, PlanKept DEF Answered
<1>4. NotStopped(f) = NotStopped(c)
    BY <1>1 DEF NotStopped
<1>5. ~f.disturbed => Q = f.actions.unchanged \cup NotStopped(f) \cup f.created
    BY <1>1, <1>4
<1> QED
    BY <1>1, <1>2, <1>3, <1>5, LoopStarts

LEMMA LookUpHolds ==
    ASSUME SchedInv, NEW h \in Tasks, LookUp(h)
    PROVE  SchedInv'
<1>0. PICK c \in CallRecs : c = handler[h]
    BY OwnCall
<1>1. PICK R, there : R = ListedVms /\ there = local
    OBVIOUS
<1>2. Sound(c, R, there) /\ c.pc = "start"
    BY <1>0, <1>1, OwnCall DEF LookUp
<1>3. /\ ~Answered(c) /\ Planned(c) /\ Starting(c, FALSE)
      /\ ~c.disturbed => R = c.actions.unchanged \cup NotStopped(c) \cup c.created
    BY <1>2, LoopFacts
<1>4. PICK v \in c.left :
         LET e == [c EXCEPT !.left = @ \ {v}, !.cur = v]
         IN Set(h, IF v \in known THEN Translated([e EXCEPT !.fetches = Disks(MessageOf(v))])
                   ELSE StartLoop(WithError(e, "start", v)))
    BY <1>0 DEF LookUp
<1>5. v \in Vms
    BY CallFields
<1>6. PICK e \in CallRecs :
         /\ e = [c EXCEPT !.left = @ \ {v}, !.cur = v] /\ SameWork(e, c)
         /\ e.left = c.left \ {v} /\ e.cur = v
    BY <1>5, NextTaken
<1>7. Starting(e, TRUE) /\ Planned(e) /\ ~Answered(e)
    <2>1. Starting(e, TRUE)
        BY <1>3, <1>6, StartingNext DEF SameWork
    <2> QED
        BY <1>3, <1>6, <2>1, PlanKept DEF SameWork, Answered
<1>8. ~e.disturbed => R = e.actions.unchanged \cup NotStopped(e) \cup e.created
    <2>1. NotStopped(e) = NotStopped(c)
        BY <1>6 DEF NotStopped, SameWork
    <2> QED
        BY <1>3, <1>6, <2>1 DEF SameWork
<1>9. PICK d \in CallRecs : /\ Set(h, d) /\ Sound(d, R, there)
                            /\ d.pc \in {"start", "answer", "fetch", "create"}
    <2>1. CASE v \notin known
        <3>1. PICK d \in CallRecs : /\ d = StartLoop(WithError(e, "start", e.cur))
                                    /\ d.pc \in {"start", "answer"} /\ Sound(d, R, there)
            BY <1>5, <1>6, <1>7, <1>8, StartFailed
        <3>2. Set(h, d)
            BY <1>4, <1>6, <2>1, <3>1
        <3> QED
            BY <3>1, <3>2
    <2>2. CASE v \in known
        <3>1. v \in Hashes
            BY <2>2 DEF SchedInv, SchedTyped
        <3> DEFINE s == Disks(MessageOf(v))
        <3>2. s \in Seq(VolumeDisks) /\ Len(s) \in Nat
            BY <3>1, VolumesOf
        <3> HIDE DEF s
        <3>3. PICK f \in CallRecs : /\ f = [e EXCEPT !.fetches = s] /\ SameWork(f, e)
                                    /\ f.left = e.left /\ f.cur = e.cur /\ f.fetches = s
            BY <3>2, FetchesSet
        <3>4. PICK d \in CallRecs : /\ d = Translated(f) /\ SameWork(d, f) /\ d.left = f.left
                                    /\ d.cur = f.cur /\ d.fetches = f.fetches
                                    /\ d.pc = IF f.fetches = <<>> THEN "create" ELSE "fetch"
            BY TranslatedDoes
        <3>5. /\ d.left = e.left /\ d.cur = v /\ d.fetches = s /\ d.desired = e.desired
              /\ d.actions = e.actions /\ d.errors = e.errors /\ d.created = e.created
              /\ d.disturbed = e.disturbed /\ d.response = e.response
            BY <1>6, <3>3, <3>4 DEF SameWork
        <3>6. d.pc \in {"create", "fetch"} /\ d.pc \in BusyPcs /\ (d.pc = "create" <=> s = <<>>)
            BY <3>3, <3>4 DEF BusyPcs
        <3>7. Starting(d, TRUE)
            BY <1>6, <1>7, <3>5, StartingKept
        <3>8. Planned(d) /\ ~Answered(d)
            BY <1>7, <3>5, PlanKept DEF Answered
        <3>9. ~d.disturbed => R = d.actions.unchanged \cup NotStopped(d) \cup d.created
            <4>1. NotStopped(d) = NotStopped(e)
                BY <3>5 DEF NotStopped
            <4> QED
                BY <1>8, <3>5, <4>1
        <3>10. FetchInv(d, there)
            <4>1. /\ Len(d.fetches) = Len(s) /\ Len(s) - Len(d.fetches) = 0
                  /\ \A i \in 1..Len(d.fetches) : d.fetches[i] = s[Len(s) - Len(d.fetches) + i]
                BY <3>2, <3>5
            <4>2. Disks(MessageOf(d.cur)) = s
                BY <3>5 DEF s
            <4>3. 1..(Len(s) - Len(d.fetches)) = {} /\ Len(d.fetches) <= Len(s)
                BY <3>2, <4>1
            <4> QED
                BY <3>1, <3>5, <3>6, <4>1, <4>2, <4>3 DEF FetchInv
        <3>11. Sound(d, R, there)
            BY <3>6, <3>7, <3>8, <3>9, <3>10, BusySound
        <3>12. Set(h, d)
            BY <1>4, <1>6, <2>2, <3>3, <3>4 DEF s
        <3> QED
            BY <3>6, <3>11, <3>12
    <2> QED
        BY <2>1, <2>2
<1>10. Sound(d, ListedVms, local)
    BY <1>1, <1>9
<1>11. received' \in 0..MaxAllocations
    BY DEF SchedInv, SchedTyped, LookUp
<1> QED
    BY <1>0, <1>2, <1>9, <1>10, <1>11, QuietStep DEF LookUp

\* The rest of a suffix is a suffix.
EndOf(t, s) == \A i \in 1..Len(t) : t[i] = s[Len(s) - Len(t) + i]

LEMMA TailIsEnd ==
    ASSUME NEW s, Len(s) \in Nat, NEW t \in Seq(VolumeDisks), t # <<>>,
           EndOf(t, s), NEW u, u = Tail(t)
    PROVE  EndOf(u, s)
<1>1. Len(u) = Len(t) - 1 /\ Len(t) \in Nat /\ \A i \in 1..(Len(t) - 1) : u[i] = t[i + 1]
    OBVIOUS
<1>2. PICK n \in Nat, m \in Nat : n = Len(s) /\ m = Len(t)
    BY <1>1
<1>3. ASSUME NEW i \in 1..(m - 1) PROVE u[i] = s[n - (m - 1) + i]
    <2>1. i + 1 \in 1..m /\ n - m + (i + 1) = n - (m - 1) + i
        BY <1>2
    <2>2. u[i] = t[i + 1]
        BY <1>1, <1>2
    <2>3. t[i + 1] = s[n - m + (i + 1)]
        BY <1>2, <2>1 DEF EndOf
    <2> QED
        BY <2>1, <2>2, <2>3
<1> QED
    BY <1>1, <1>2, <1>3 DEF EndOf

\* The disks that are left when the first one is in the cache.
LEMMA FetchAdvances ==
    ASSUME NEW c \in CallRecs, NEW d, NEW there, c.pc = "await", FetchInv(c, there),
           d.cur = c.cur, d.fetches = Tail(c.fetches), there[c.fetches[1].path] # NoInode,
           d.pc = IF d.fetches = <<>> THEN "create" ELSE "fetch"
    PROVE  FetchInv(d, there)
<1>1. PICK s : s = Disks(MessageOf(c.cur))
    OBVIOUS
<1>2. /\ c.cur \in Hashes /\ Len(c.fetches) <= Len(s) /\ c.fetches # <<>>
      /\ \A i \in 1..Len(c.fetches) : c.fetches[i] = s[Len(s) - Len(c.fetches) + i]
      /\ \A i \in 1..(Len(s) - Len(c.fetches)) : there[s[i].path] # NoInode
    BY <1>1 DEF FetchInv
<1>3. s \in Seq(VolumeDisks) /\ Len(s) \in Nat
    BY <1>1, <1>2, VolumesOf
<1>4. PICK t \in Seq(VolumeDisks) : t = c.fetches
    BY CallFields
<1>5. Len(t) \in Nat /\ Len(t) > 0
    BY <1>2, <1>4
<1>6. Len(d.fetches) = Len(t) - 1 /\ \A i \in 1..(Len(t) - 1) : d.fetches[i] = t[i + 1]
    BY <1>4, <1>5
<1>7. Len(d.fetches) <= Len(s)
    BY <1>2, <1>3, <1>4, <1>5, <1>6
<1>8. \A i \in 1..Len(d.fetches) : d.fetches[i] = s[Len(s) - Len(d.fetches) + i]
    <2>1. EndOf(t, s) /\ t # <<>>
        BY <1>2, <1>4 DEF EndOf
    <2>2. PICK u : u = d.fetches /\ u = Tail(t)
        BY <1>4
    <2>3. EndOf(u, s)
        BY <1>3, <2>1, <2>2, TailIsEnd
    <2> QED
        BY <2>2, <2>3 DEF EndOf
<1>9. ASSUME NEW i \in 1..(Len(s) - Len(d.fetches))
      PROVE  there[s[i].path] # NoInode
    <2>1. CASE i \in 1..(Len(s) - Len(t))
        BY <1>2, <1>4, <2>1
    <2>2. CASE i \notin 1..(Len(s) - Len(t))
        <3>1. i = Len(s) - Len(t) + 1 /\ 1 \in 1..Len(t)
            BY <1>2, <1>3, <1>4, <1>5, <1>6, <2>2
        <3>2. t[1] = s[Len(s) - Len(t) + 1]
            BY <1>2, <1>4, <3>1
        <3> QED
            BY <1>4, <3>1, <3>2
    <2> QED
        BY <2>1, <2>2
<1>10. d.pc \in {"create", "fetch"} /\ (d.pc = "create" <=> d.fetches = <<>>)
    OBVIOUS
<1>11. Disks(MessageOf(d.cur)) = s /\ d.cur \in Hashes
    BY <1>1, <1>2
<1> QED
    BY <1>7, <1>8, <1>9, <1>10, <1>11 DEF FetchInv

\* A call keeps its account while its place in the start loop changes.
LEMMA BusyMoves ==
    ASSUME NEW c \in CallRecs, NEW d \in CallRecs, NEW R, NEW there,
           Sound(c, R, there), c.pc \in BusyPcs, d.pc \in BusyPcs,
           SameWork(d, c), d.left = c.left, d.cur = c.cur, FetchInv(d, there)
    PROVE  Sound(d, R, there)
<1>1. /\ ~Answered(c) /\ Planned(c) /\ Starting(c, TRUE)
      /\ ~c.disturbed => R = c.actions.unchanged \cup NotStopped(c) \cup c.created
    BY BusyFacts
<1>2. Starting(d, TRUE)
    BY <1>1, StartingKept DEF SameWork
<1>3. Planned(d) /\ ~Answered(d)
    BY <1>1, PlanKept DEF SameWork, Answered
<1>4. ~d.disturbed => R = d.actions.unchanged \cup NotStopped(d) \cup d.created
    <2>1. NotStopped(d) = NotStopped(c)
        BY DEF NotStopped, SameWork
    <2> QED
        BY <1>1, <2>1 DEF SameWork
<1> QED
    BY <1>2, <1>3, <1>4, BusySound

\* A step of a call and of its own download, that leaves the files alone.
LEMMA CacheStep ==
    ASSUME SchedInv, NEW h \in Tasks, NEW d \in CallRecs, Set(h, d),
           UNCHANGED <<registry, known, lock, faults, received>>,
           CacheInv', local' = local, \A t \in Tasks : t # h => dl'[t] = dl[t],
           handler[h].pc # "ports", d.pc # "ports", Sound(d, ListedVms, local), DownloadOK(h)
    PROVE  SchedInv'
<1>1. /\ handler' \in [Tasks -> CallRecs] /\ handler'[h] = d
      /\ \A t \in Tasks : t # h => handler'[t] = handler[t]
    BY SetDoes
<1>2. RegistryTyped' /\ ListedVms' = ListedVms
    BY RegistryKept
<1>3. LocalGrows
    BY DEF LocalGrows
<1>4. LockInv'
    BY <1>1 DEF SchedInv, LockInv
<1>5. \A t \in Tasks \ {h} : Kept(t) /\ dl'[t] = dl[t]
    BY <1>1, <1>2, SameIsKept
<1>6. Sound(handler'[h], ListedVms', local')
    BY <1>1, <1>2
<1>7. known' \subseteq Hashes /\ faults' \in 0..MaxFaults /\ received' \in 0..MaxAllocations
    BY DEF SchedInv, SchedTyped
<1>8. {h} \in SUBSET Tasks
    OBVIOUS
<1> QED
    BY <1>1, <1>2, <1>3, <1>4, <1>5, <1>6, <1>7, <1>8, Combine

LEMMA AwaitSet ==
    ASSUME NEW c \in CallRecs
    PROVE  LET d == [c EXCEPT !.pc = "await"]
           IN /\ d \in CallRecs /\ SameWork(d, c) /\ d.left = c.left /\ d.cur = c.cur
              /\ d.pc = "await" /\ d.fetches = c.fetches
<1> DEFINE d == [c EXCEPT !.pc = "await"]
<1>1. "await" \in CallPcs
    BY DEF CallPcs
<1>2. d \in CallRecs
    BY <1>1 DEF CallRecs
<1>3. /\ SameWork(d, c) /\ d.left = c.left /\ d.cur = c.cur
      /\ d.pc = "await" /\ d.fetches = c.fetches
    BY DEF CallRecs, SameWork
<1> QED
    BY <1>2, <1>3

LEMMA FetchHolds ==
    ASSUME SchedInv, NEW h \in Tasks, Fetch(h)
    PROVE  SchedInv'
<1>0. PICK c \in CallRecs : c = handler[h]
    BY OwnCall
<1>1. PICK R, there : R = ListedVms /\ there = local
    OBVIOUS
<1>2. Sound(c, R, there) /\ c.pc = "fetch"
    BY <1>0, <1>1, OwnCall DEF Fetch
<1>3. c.fetches # <<>> /\ c.fetches \in Seq(VolumeDisks)
    BY <1>2, CallFields DEF Sound, FetchInv
<1>4. c.fetches[1].path \in Volumes
    <2>1. c.fetches[1] \in VolumeDisks
        BY <1>3
    <2> QED
        BY <2>1 DEF VolumeDisks
<1>5. PICK v \in Volumes : v = c.fetches[1].path
    BY <1>4
<1>6. EnsureCached(h, v)
    BY <1>0, <1>5 DEF Fetch
<1>7. CacheInv'
    BY <1>6, OtherStepsInv DEF SchedInv
<1>8. /\ local' = local /\ \A t \in Tasks : t # h => dl'[t] = dl[t]
      /\ dl'[h].vol = v /\ (dl'[h].pc = "ok" => local[v] # NoInode)
    BY <1>6 DEF EnsureCached, SchedInv, CacheInv, CacheTypeOK
<1>9. PICK d \in CallRecs : /\ d = [c EXCEPT !.pc = "await"] /\ SameWork(d, c)
                            /\ d.left = c.left /\ d.cur = c.cur /\ d.pc = "await"
                            /\ d.fetches = c.fetches
    BY AwaitSet
<1>10. FetchInv(d, there)
    BY <1>2, <1>9 DEF Sound, FetchInv
<1>11. Sound(d, R, there)
    BY <1>2, <1>9, <1>10, BusyMoves DEF BusyPcs
<1>12. Set(h, d)
    BY <1>0, <1>9 DEF Fetch
<1>13. DownloadOK(h)
    <2>1. handler'[h] = d
        BY <1>12, SetDoes
    <2> QED
        BY <1>5, <1>8, <1>9, <2>1 DEF DownloadOK
<1>14. Sound(d, ListedVms, local)
    BY <1>1, <1>11
<1> QED
    BY <1>0, <1>2, <1>7, <1>8, <1>9, <1>12, <1>13, <1>14, CacheStep DEF Fetch

LEMMA FetchedHolds ==
    ASSUME SchedInv, NEW h \in Tasks, Fetched(h)
    PROVE  SchedInv'
<1>0. PICK c \in CallRecs : c = handler[h]
    BY OwnCall
<1>1. PICK R, there : R = ListedVms /\ there = local
    OBVIOUS
<1>2. Sound(c, R, there) /\ c.pc = "await" /\ c.pc \in BusyPcs
    BY <1>0, <1>1, OwnCall DEF Fetched, BusyPcs
<1>3. Take(h)
    BY DEF Fetched
<1>4. CacheInv'
    BY <1>3, OtherStepsInv DEF SchedInv
<1>5. /\ local' = local /\ \A t \in Tasks : t # h => dl'[t] = dl[t]
      /\ dl'[h].pc = "idle"
    BY <1>3 DEF Take, NoDownload, SchedInv, CacheInv, CacheTypeOK
<1>6. PICK d \in CallRecs : /\ Set(h, d) /\ Sound(d, R, there)
                            /\ d.pc \in {"start", "answer", "fetch", "create"}
    <2>1. CASE dl[h].pc # "ok"
        <3>1. /\ ~Answered(c) /\ Planned(c) /\ Starting(c, TRUE) /\ c.cur \in Vms
              /\ ~c.disturbed => R = c.actions.unchanged \cup NotStopped(c) \cup c.created
            BY <1>2, BusyFacts
        <3>2. PICK d \in CallRecs : /\ d = StartLoop(WithError(c, "translate", c.cur))
                                    /\ d.pc \in {"start", "answer"} /\ Sound(d, R, there)
            BY <3>1, StartFailed
        <3>3. Set(h, d)
            BY <1>0, <2>1, <3>2 DEF Fetched
        <3> QED
            BY <3>2, <3>3
    <2>2. CASE dl[h].pc = "ok"
        <3>1. there[c.fetches[1].path] # NoInode
            BY <1>0, <1>1, <2>2 DEF SchedInv, DownloadInv
        <3>2. c.fetches # <<>> /\ c.fetches \in Seq(VolumeDisks) /\ FetchInv(c, there)
            BY <1>2, CallFields DEF Sound, FetchInv
        <3>3. PICK s \in Seq(VolumeDisks) : s = Tail(c.fetches)
            <4>1. PICK t \in Seq(VolumeDisks) : t = c.fetches /\ t # <<>>
                BY <3>2
            <4>2. Tail(t) \in Seq(VolumeDisks)
                BY <4>1
            <4> QED
                BY <4>1, <4>2
        <3>4. PICK f \in CallRecs : /\ f = [c EXCEPT !.fetches = s] /\ SameWork(f, c)
                                    /\ f.left = c.left /\ f.cur = c.cur /\ f.fetches = s
            BY FetchesSet
        <3>5. PICK d \in CallRecs : /\ d = Translated(f) /\ SameWork(d, f) /\ d.left = f.left
                                    /\ d.cur = f.cur /\ d.fetches = f.fetches
                                    /\ d.pc = IF f.fetches = <<>> THEN "create" ELSE "fetch"
            BY TranslatedDoes
        <3>6. SameWork(d, c) /\ d.left = c.left /\ d.cur = c.cur /\ d.fetches = Tail(c.fetches)
            BY <3>3, <3>4, <3>5 DEF SameWork
        <3>7. FetchInv(d, there)
            BY <1>2, <3>1, <3>2, <3>5, <3>6, FetchAdvances
        <3>8. d.pc \in {"fetch", "create"} /\ d.pc \in BusyPcs
            BY <3>5 DEF BusyPcs
        <3>9. Sound(d, R, there)
            BY <1>2, <3>6, <3>7, <3>8, BusyMoves
        <3>10. Set(h, d)
            BY <1>0, <2>2, <3>3, <3>4, <3>5 DEF Fetched
        <3> QED
            BY <3>8, <3>9, <3>10
    <2> QED
        BY <2>1, <2>2
<1>7. DownloadOK(h)
    BY <1>5 DEF DownloadOK
<1>8. Sound(d, ListedVms, local)
    BY <1>1, <1>6
<1> QED
    BY <1>0, <1>2, <1>4, <1>5, <1>6, <1>7, <1>8, CacheStep DEF Fetched

\* create_vm has answered: the VM runs, and its port forwards are asked for.
LEMMA PortsTyped ==
    ASSUME NEW v \in Hashes
    PROVE  translate_port_forwards(MessageOf(v)) \in Seq(Forwards)
<1>1. MessageOf(v) \in Messages /\ MessageOf(v).item_hash = v
    BY VolumesOf
<1>2. PICK p \in Seq(Nat) : p = MessageOf(v).published_ports
    BY <1>1, MessagesAssumption
<1>3. v \in Vms
    BY SchedulerAssumption
<1>4. Len(p) \in Nat /\ \A i \in 1..Len(p) : p[i] \in Nat
    OBVIOUS
<1>5. \A i \in 1..Len(p) : [vm_id |-> v, host_port |-> 0, vm_port |-> p[i]] \in Forwards
    BY <1>3, <1>4 DEF Forwards
<1>6. [i \in 1..Len(p) |-> [vm_id |-> v, host_port |-> 0, vm_port |-> p[i]]] \in Seq(Forwards)
    BY <1>4, <1>5
<1> QED
    BY <1>1, <1>2, <1>6 DEF translate_port_forwards

\* A call that asks for port forwards.
LEMMA PortsSound ==
    ASSUME NEW d \in CallRecs, NEW R, NEW there, d.pc = "ports", FetchInv(d, there),
           ~Answered(d), Planned(d), Starting(d, FALSE),
           ~d.disturbed => R = d.actions.unchanged \cup NotStopped(d) \cup d.created
    PROVE  Sound(d, R, there)
<1>1. (d.pc \in BusyPcs) = FALSE /\ d.pc \notin {"stop", "answer", "idle", "list"}
    BY DEF BusyPcs
<1>2. CallInv(d)
    BY <1>1 DEF CallInv
<1>3. RunInv(d, R)
    BY <1>1 DEF RunInv
<1> QED
    BY <1>2, <1>3 DEF Sound

LEMMA CreateVmHolds ==
    ASSUME SchedInv, NEW h \in Tasks, CreateVm(h)
    PROVE  SchedInv'
<1>0. PICK c \in CallRecs : c = handler[h]
    BY OwnCall
<1>1. PICK R, there : R = ListedVms /\ there = local
    OBVIOUS
<1>2. Sound(c, R, there) /\ c.pc = "create" /\ c.pc \in BusyPcs
    BY <1>0, <1>1, OwnCall DEF CreateVm, BusyPcs
<1>3. /\ ~Answered(c) /\ Planned(c) /\ Starting(c, TRUE) /\ c.cur \in Vms
      /\ ~c.disturbed => R = c.actions.unchanged \cup NotStopped(c) \cup c.created
    BY <1>2, BusyFacts
<1>4. FetchInv(c, there) /\ c.cur \in Hashes
    BY <1>2 DEF Sound, FetchInv
<1>5. PICK v \in Vms : v = c.cur /\ v \in Hashes
    BY <1>3, <1>4
<1>6. PICK s \in Seq(Forwards) : s = translate_port_forwards(MessageOf(v))
    BY <1>5, PortsTyped
<1>7a. PICK d : d = [c EXCEPT !.pc = "ports", !.created = @ \cup {v}, !.ports = s]
    OBVIOUS
<1>7. /\ d \in CallRecs /\ d.pc = "ports" /\ d.created = c.created \cup {v}
      /\ d.desired = c.desired /\ d.actions = c.actions /\ d.left = c.left
      /\ d.cur = c.cur /\ d.fetches = c.fetches /\ d.errors = c.errors
      /\ d.disturbed = c.disturbed /\ d.response = c.response
    <2>1. "ports" \in CallPcs /\ c.created \cup {v} \in SUBSET Vms
        BY CallFields DEF CallPcs
    <2>2. d \in CallRecs
        BY <1>7a, <2>1 DEF CallRecs
    <2> QED
        BY <1>7a, <2>2 DEF CallRecs
<1>8. PICK a \in Addresses : Register(v, a)
    BY <1>0, <1>5 DEF CreateVm
<1>9. RegistryTyped' /\ ListedVms' = ListedVms \cup {v}
    BY <1>5, <1>8, RegistersOne
<1>10. PICK Q : Q = R \cup {v}
    OBVIOUS
<1>11. Starting(d, FALSE)
    BY <1>3, <1>5, <1>7, StartingCreates
<1>12. Planned(d) /\ ~Answered(d)
    BY <1>3, <1>7, PlanKept DEF Answered
<1>13. ~d.disturbed => Q = d.actions.unchanged \cup NotStopped(d) \cup d.created
    <2>1. NotStopped(d) = NotStopped(c)
        BY <1>7 DEF NotStopped
    <2> QED
        BY <1>3, <1>7, <1>10, <2>1
<1>14. FetchInv(d, there)
    BY <1>2, <1>4, <1>7 DEF FetchInv
<1>15. Sound(d, Q, there)
    BY <1>7, <1>11, <1>12, <1>13, <1>14, PortsSound
<1>16. handler' = Disturb([handler EXCEPT ![h] = d], {h})
    BY <1>0, <1>5, <1>6, <1>7a DEF CreateVm
<1>17. Sound(d, Q, local) /\ Q = ListedVms'
    BY <1>1, <1>9, <1>10, <1>15
<1>18. faults' \in 0..MaxFaults
    BY DEF SchedInv, SchedTyped, CreateVm
<1>19. /\ {h} \in SUBSET {h} /\ h \in {h} /\ lock = NotListed /\ lock' = h
       /\ UNCHANGED <<cache, known, received>>
    BY DEF CreateVm
<1>20. handler[h].pc \notin {"await", "ports"}
    BY <1>0, <1>2
<1> QED
    BY <1>7, <1>9, <1>16, <1>17, <1>18, <1>19, <1>20, RegistryStep

LEMMA CreateVmFailsHolds ==
    ASSUME SchedInv, NEW h \in Tasks, CreateVmFails(h)
    PROVE  SchedInv'
<1>0. PICK c \in CallRecs : c = handler[h]
    BY OwnCall
<1>1. PICK R, there : R = ListedVms /\ there = local
    OBVIOUS
<1>2. Sound(c, R, there) /\ c.pc = "create" /\ c.pc \in BusyPcs
    BY <1>0, <1>1, OwnCall DEF CreateVmFails, BusyPcs
<1>3. /\ ~Answered(c) /\ Planned(c) /\ Starting(c, TRUE) /\ c.cur \in Vms
      /\ ~c.disturbed => R = c.actions.unchanged \cup NotStopped(c) \cup c.created
    BY <1>2, BusyFacts
<1>4. PICK d \in CallRecs : /\ d = StartLoop(WithError(c, "start", c.cur))
                            /\ d.pc \in {"start", "answer"} /\ Sound(d, R, there)
    BY <1>3, StartFailed
<1>5. Set(h, d) /\ Sound(d, ListedVms, local)
    BY <1>0, <1>1, <1>4 DEF CreateVmFails
<1>6. received' \in 0..MaxAllocations
    BY DEF SchedInv, SchedTyped, CreateVmFails
<1> QED
    BY <1>0, <1>2, <1>4, <1>5, <1>6, QuietStep DEF CreateVmFails

LEMMA PortAsked ==
    ASSUME NEW c \in CallRecs, c.ports # <<>>
    PROVE  LET d == [c EXCEPT !.ports = Tail(@)]
           IN /\ d \in CallRecs /\ SameWork(d, c) /\ d.left = c.left /\ d.cur = c.cur
              /\ d.pc = c.pc /\ d.fetches = c.fetches
<1> DEFINE d == [c EXCEPT !.ports = Tail(@)]
<1>1. PICK t \in Seq(Forwards) : t = c.ports /\ t # <<>>
    BY CallFields
<1>2. Tail(t) \in Seq(Forwards)
    BY <1>1
<1>3. d \in CallRecs
    BY <1>1, <1>2 DEF CallRecs
<1>4. /\ SameWork(d, c) /\ d.left = c.left /\ d.cur = c.cur
      /\ d.pc = c.pc /\ d.fetches = c.fetches
    BY DEF CallRecs, SameWork
<1> QED
    BY <1>3, <1>4

LEMMA AddPortForwardHolds ==
    ASSUME SchedInv, NEW h \in Tasks, AddPortForward(h)
    PROVE  SchedInv'
<1>0. PICK c \in CallRecs : c = handler[h]
    BY OwnCall
<1>1. PICK R, there : R = ListedVms /\ there = local
    OBVIOUS
<1>2. Sound(c, R, there) /\ c.pc = "ports" /\ c.ports # <<>>
    BY <1>0, <1>1, OwnCall DEF AddPortForward
<1>3. PICK d \in CallRecs : /\ d = [c EXCEPT !.ports = Tail(@)] /\ SameWork(d, c)
                            /\ d.left = c.left /\ d.cur = c.cur /\ d.pc = c.pc
                            /\ d.fetches = c.fetches
    BY <1>2, PortAsked
<1>4. /\ ~Answered(c) /\ Planned(c) /\ Starting(c, FALSE)
      /\ ~c.disturbed => R = c.actions.unchanged \cup NotStopped(c) \cup c.created
    BY <1>2, LoopFacts
<1>5. Starting(d, FALSE)
    BY <1>3, <1>4, StartingKept DEF SameWork
<1>6. Planned(d) /\ ~Answered(d)
    BY <1>3, <1>4, PlanKept DEF SameWork, Answered
<1>7. ~d.disturbed => R = d.actions.unchanged \cup NotStopped(d) \cup d.created
    <2>1. NotStopped(d) = NotStopped(c)
        BY <1>3 DEF NotStopped, SameWork
    <2> QED
        BY <1>3, <1>4, <2>1 DEF SameWork
<1>8. FetchInv(d, there)
    BY <1>2, <1>3 DEF Sound, FetchInv
<1>9. Sound(d, R, there)
    BY <1>2, <1>3, <1>5, <1>6, <1>7, <1>8, PortsSound
<1>10. Set(h, d) /\ Sound(d, ListedVms, local)
    BY <1>0, <1>1, <1>3, <1>9 DEF AddPortForward
<1>11. received' \in 0..MaxAllocations
    BY DEF SchedInv, SchedTyped, AddPortForward
<1> QED
    BY <1>0, <1>2, <1>3, <1>10, <1>11, QuietStep DEF AddPortForward

LEMMA PortsDoneHolds ==
    ASSUME SchedInv, NEW h \in Tasks, PortsDone(h)
    PROVE  SchedInv'
<1>0. PICK c \in CallRecs : c = handler[h]
    BY OwnCall
<1>1. PICK R, there : R = ListedVms /\ there = local
    OBVIOUS
<1>2. Sound(c, R, there) /\ c.pc = "ports"
    BY <1>0, <1>1, OwnCall DEF PortsDone
<1>3. /\ ~Answered(c) /\ Planned(c) /\ Starting(c, FALSE)
      /\ ~c.disturbed => R = c.actions.unchanged \cup NotStopped(c) \cup c.created
    BY <1>2, LoopFacts
<1>4. PICK d \in CallRecs : /\ d = StartLoop(c) /\ d.pc \in {"start", "answer"}
                            /\ Sound(d, R, there)
    BY <1>3, LoopStarts
<1>5. Set(h, d) /\ Sound(d, ListedVms, local)
    BY <1>0, <1>1, <1>4 DEF PortsDone
<1>6. received' \in 0..MaxAllocations
    BY DEF SchedInv, SchedTyped, PortsDone
<1> QED
    BY <1>0, <1>2, <1>4, <1>5, <1>6, QuietStep DEF PortsDone

\* A call that the node carried out is an error to the agent: its own account
\* stays what it was, and from then on it claims nothing about the node.
LEMMA ReplyLostHolds ==
    ASSUME SchedInv, NEW h \in Tasks, ReplyLost(h)
    PROVE  SchedInv'
<1>0. PICK c \in CallRecs : c = handler[h]
    BY OwnCall
<1>1. PICK R, there : R = ListedVms /\ there = local
    OBVIOUS
<1>2. Sound(c, R, there)
    BY <1>0, <1>1, OwnCall
<1>3. /\ Fault /\ lock' = lock /\ UNCHANGED <<cache, known, received>>
    BY DEF ReplyLost
<1>4. faults' \in 0..MaxFaults
    BY <1>3, FaultCounted
<1>5. PICK none \in SUBSET {h} : none = {}
    OBVIOUS
<1>6. ASSUME NEW d \in CallRecs, d.pc \in {"stop", "start", "answer"}, Sound(d, R, there),
             handler' = Disturb([handler EXCEPT ![h] = d], {}), RegistryTyped',
             c.pc \notin {"await", "ports"}
      PROVE  SchedInv'
    <2>1. HasListed(d) /\ d.pc # "ports"
        BY <1>6 DEF HasListed
    <2>2. Sound(d, R, local) /\ h \notin none
        BY <1>1, <1>5, <1>6
    <2>3. handler' = Disturb([handler EXCEPT ![h] = d], none)
        BY <1>5, <1>6
    <2>4. handler[h].pc \notin {"await", "ports"}
        BY <1>0, <1>6
    <2> QED
        BY <1>3, <1>4, <1>6, <2>1, <2>2, <2>3, <2>4, RegistryStep
<1>7. CASE /\ c.pc = "create"
           /\ \E a \in Addresses : Register(c.cur, a)
           /\ handler' = Disturb([handler EXCEPT ![h] =
                             StartLoop(WithError(c, "start", c.cur))], {})
    <2>1. /\ ~Answered(c) /\ Planned(c) /\ Starting(c, TRUE) /\ c.cur \in Vms
          /\ ~c.disturbed => R = c.actions.unchanged \cup NotStopped(c) \cup c.created
        BY <1>2, <1>7, BusyFacts DEF BusyPcs
    <2>2. PICK d \in CallRecs : /\ d = StartLoop(WithError(c, "start", c.cur))
                                /\ d.pc \in {"start", "answer"} /\ Sound(d, R, there)
        BY <2>1, StartFailed
    <2>3. PICK v \in Vms : v = c.cur
        BY <2>1
    <2>4. PICK a \in Addresses : Register(v, a)
        BY <1>7, <2>3
    <2>5. RegistryTyped'
        BY <2>4, RegistersOne
    <2>6. handler' = Disturb([handler EXCEPT ![h] = d], {})
        BY <1>7, <2>2
    <2> QED
        BY <1>6, <1>7, <2>2, <2>5, <2>6
<1>8. ASSUME c.pc = "stop", NEW v \in c.left, Deregister(v),
             handler' = Disturb([handler EXCEPT ![h] =
                 StopLoop(WithError([c EXCEPT !.left = @ \ {v}], "stop", v))], {})
      PROVE  SchedInv'
    <2>1. PICK d \in CallRecs :
             /\ d = StopLoop(WithError([c EXCEPT !.left = @ \ {v}], "stop", v))
             /\ d.pc \in {"stop", "start", "answer"} /\ Sound(d, R, there)
        BY <1>2, <1>8, StopFailed
    <2>2. v \in Vms
        BY CallFields
    <2>3. RegistryTyped'
        BY <1>8, <2>2, DeregistersOne
    <2>4. handler' = Disturb([handler EXCEPT ![h] = d], {})
        BY <1>8, <2>1
    <2> QED
        BY <1>6, <1>8, <2>1, <2>3, <2>4
<1> QED
    BY <1>0, <1>7, <1>8 DEF ReplyLost

\* The answer counts what was to start and to stop, less the errors.
LEMMA AnswerSet ==
    ASSUME NEW c \in CallRecs
    PROVE  LET d == [c EXCEPT !.pc = "idle", !.response = Response(c)]
           IN /\ d \in CallRecs /\ d.pc = "idle" /\ d.response = Response(c)
              /\ d.desired = c.desired /\ d.actions = c.actions /\ d.left = c.left
              /\ d.errors = c.errors /\ d.created = c.created
              /\ d.disturbed = c.disturbed
<1> DEFINE d == [c EXCEPT !.pc = "idle", !.response = Response(c)]
<1>1. "idle" \in CallPcs
    BY DEF CallPcs
<1>2. /\ ErrorCount(c, "start") \in Nat /\ ErrorCount(c, "stop") \in Nat
      /\ Cardinality(c.actions.to_start) \in Nat /\ Cardinality(c.actions.to_stop) \in Nat
    BY CallFields, PlanFields, FiniteParts, ErrorsFinite
<1>3. Response(c) \in Responses
    <2>1. PICK s \in Nat : s = IF c.errors = {} THEN 200 ELSE 207
        OBVIOUS
    <2>2. PICK a \in Int : a = Cardinality(c.actions.to_start) - ErrorCount(c, "start")
        BY <1>2
    <2>3. PICK b \in Int : b = Cardinality(c.actions.to_stop) - ErrorCount(c, "stop")
        BY <1>2
    <2>4. Response(c) = [status |-> s, started |-> a, stopped |-> b]
        BY <2>1, <2>2, <2>3 DEF Response
    <2> QED
        BY <2>4 DEF Responses
<1>4. d \in CallRecs
    BY <1>1, <1>3 DEF CallRecs
<1>5. /\ d.pc = "idle" /\ d.response = Response(c)
      /\ d.desired = c.desired /\ d.actions = c.actions /\ d.left = c.left
      /\ d.errors = c.errors /\ d.created = c.created
      /\ d.disturbed = c.disturbed
    BY DEF CallRecs
<1> QED
    BY <1>4, <1>5

LEMMA AnswerSound ==
    ASSUME NEW c \in CallRecs, NEW d \in CallRecs, NEW R, NEW there, Sound(c, R, there),
           c.pc = "answer", d.pc = "idle", d.response = Response(c),
           d.desired = c.desired, d.actions = c.actions, d.left = c.left,
           d.errors = c.errors, d.created = c.created, d.disturbed = c.disturbed
    PROVE  Sound(d, R, there)
<1>1. /\ Planned(c) /\ Starting(c, FALSE)
      /\ ~c.disturbed => R = c.actions.unchanged \cup NotStopped(c) \cup c.created
    BY LoopFacts
<1>2. c.left = {}
    BY DEF Sound, CallInv
<1>3. Planned(d) /\ Starting(d, FALSE)
    BY <1>1, PlanKept, StartingKept
<1>4. \A k : ErrorCount(d, k) = ErrorCount(c, k)
    BY ErrorsSame
<1>5. /\ d.response.started = Cardinality(c.actions.to_start) - ErrorCount(c, "start")
      /\ d.response.stopped = Cardinality(c.actions.to_stop) - ErrorCount(c, "stop")
    BY DEF Response
<1>6. /\ ErrorCount(c, "start") \in Nat /\ ErrorCount(c, "translate") \in Nat
      /\ ErrorCount(c, "stop") \in Nat /\ Cardinality(c.created) \in Nat
      /\ Cardinality(c.actions.to_stop) \in Nat
    BY CallFields, PlanFields, FiniteParts, ErrorsFinite
<1>7. Cardinality(c.left) = 0
    BY <1>2, FS_EmptySet
<1>8. Cardinality(c.actions.to_start) =
         Cardinality(c.left) + Cardinality(c.created) + ErrorCount(c, "start")
            + ErrorCount(c, "translate") + 0
    BY <1>1 DEF Starting
<1>9. ErrorCount(c, "stop") <= Cardinality(c.actions.to_stop)
    BY <1>1 DEF Starting
<1>10. d.response.started = Cardinality(d.created) + ErrorCount(d, "translate")
    BY <1>4, <1>5, <1>6, <1>7, <1>8
<1>11. d.response.stopped >= 0
    BY <1>5, <1>6, <1>9
<1>12. CallInv(d)
    BY <1>2, <1>3, <1>10, <1>11 DEF CallInv, StartPcs
<1>13. RunInv(d, R)
    <2>1. NotStopped(d) = NotStopped(c)
        BY DEF NotStopped
    <2> QED
        BY <1>1, <2>1 DEF RunInv
<1>14. FetchInv(d, there)
    BY DEF FetchInv
<1> QED
    BY <1>12, <1>13, <1>14 DEF Sound

LEMMA AnswerHolds ==
    ASSUME SchedInv, NEW h \in Tasks, Answer(h)
    PROVE  SchedInv'
<1>0. PICK c \in CallRecs : c = handler[h]
    BY OwnCall
<1>1. PICK R, there : R = ListedVms /\ there = local
    OBVIOUS
<1>2. Sound(c, R, there) /\ c.pc = "answer"
    BY <1>0, <1>1, OwnCall DEF Answer
<1>3. PICK d \in CallRecs :
         /\ d = [c EXCEPT !.pc = "idle", !.response = Response(c)]
         /\ d.pc = "idle" /\ d.response = Response(c)
         /\ d.desired = c.desired /\ d.actions = c.actions /\ d.left = c.left
         /\ d.errors = c.errors /\ d.created = c.created
         /\ d.disturbed = c.disturbed
    BY AnswerSet
<1>4. Sound(d, R, there)
    BY <1>2, <1>3, AnswerSound
<1>5. Set(h, d) /\ Sound(d, ListedVms, local)
    BY <1>0, <1>1, <1>3, <1>4 DEF Answer
<1>6. received' \in 0..MaxAllocations
    BY DEF SchedInv, SchedTyped, Answer
<1> QED
    BY <1>0, <1>2, <1>3, <1>5, <1>6, QuietStep DEF Answer

-----------------------------------------------------------------------------
(* The theorems *)

LEMMA SchedInit == Init => SchedInv
<1> SUFFICES ASSUME Init PROVE SchedInv
    OBVIOUS
<1>1. CacheInv
    BY CacheInitInv DEF Init
<1>2. handler = [h \in Tasks |-> NoCall] /\ handler \in [Tasks -> CallRecs]
    BY NoCallTyped DEF Init
<1>3. SchedTyped
    BY <1>2, SchedulerAssumption DEF Init, RegistryInit, SchedTyped
<1>4. LockInv
    BY <1>2, NoCallTyped, SchedulerAssumption DEF Init, LockInv
<1>5. DownloadInv
    BY DEF Init, CacheInit, DownloadInv, NoDownload
<1>6. ASSUME NEW h \in Tasks PROVE Sound(handler[h], ListedVms, local)
    <2>1. PICK R, there : R = ListedVms /\ there = local
        OBVIOUS
    <2>2. Sound(NoCall, R, there)
        BY NoCallTyped, FreshSound
    <2> QED
        BY <1>2, <2>1, <2>2
<1> QED
    BY <1>1, <1>3, <1>4, <1>5, <1>6 DEF SchedInv

LEMMA SchedStays ==
    ASSUME SchedInv, UNCHANGED vars
    PROVE  SchedInv'
<1>1. UNCHANGED <<registry, cache, known, handler, lock, faults, received>>
    BY DEF vars
<1>2. RegistryTyped' /\ listed' = listed
    BY <1>1, RegistryKept DEF registry
<1>3. known' \subseteq Hashes
    BY <1>1 DEF SchedInv, SchedTyped
<1> QED
    BY <1>1, <1>2, <1>3, IdleStep

LEMMA HandleHolds ==
    ASSUME SchedInv, NEW h \in Tasks, Handle(h)
    PROVE  SchedInv'
BY ListVmsHolds, ListVmsFailsHolds, StopVmHolds, StopVmFailsHolds, LookUpHolds,
   FetchHolds, FetchedHolds, CreateVmHolds, CreateVmFailsHolds, AddPortForwardHolds,
   PortsDoneHolds, AnswerHolds, Zenon DEF Handle

LEMMA SchedStep == SchedInv /\ [Next]_vars => SchedInv'
<1> SUFFICES ASSUME SchedInv, [Next]_vars PROVE SchedInv'
    OBVIOUS
<1>1. CASE UNCHANGED vars
    BY <1>1, SchedStays
<1>2. ASSUME NEW v \in Hashes, PostMessage(v) PROVE SchedInv'
    BY <1>2, PostMessageHolds
<1>3. ASSUME NEW h \in Tasks, NEW b \in Bodies, ReceiveAllocation(h, b) PROVE SchedInv'
    BY <1>3, ReceiveHolds
<1>4. ASSUME NEW h \in Tasks, Handle(h) PROVE SchedInv'
    BY <1>4, HandleHolds
<1>5. ASSUME NEW h \in Tasks, DownloadStep(h) PROVE SchedInv'
    BY <1>5, DownloadStepHolds
<1>6. ASSUME NEW h \in Tasks, ReplyLost(h) PROVE SchedInv'
    BY <1>6, ReplyLostHolds
<1>7. ASSUME NEW v \in Vms, ForeignCall(v) PROVE SchedInv'
    BY <1>7, ForeignCallHolds
<1>8. ASSUME NEW v \in Vms, NodeSaves(v) PROVE SchedInv'
    BY <1>8, NodeSavesHolds
<1>9. CASE AgentRestart \/ NodeRestart \/ NodeRecovers
    BY <1>9, AgentRestartHolds, NodeRestartHolds, NodeRecoversHolds
<1>10. ASSUME NEW v \in Vms, QemuEnds(v) PROVE SchedInv'
    BY <1>10, QemuEndsHolds
<1> QED
    BY <1>1, <1>2, <1>3, <1>4, <1>5, <1>6, <1>7, <1>8, <1>9, <1>10, Zenon DEF Next

-----------------------------------------------------------------------------
(* Stopped VMs *)

\* A call that nobody has disturbed found every stopped VM listed.
Awake(c, asleep) == HasListed(c) /\ ~c.disturbed => asleep \cap c.actions.to_start = {}

AwakeInv ==
    /\ stopped \subseteq ListedVms
    /\ \A h \in Tasks : Awake(handler[h], stopped)

\* A step that moves one call along keeps its plan and what it was told.
Moved(d, c) ==
    /\ HasListed(c) /\ d.actions = c.actions
    /\ d.disturbed = c.disturbed

LEMMA SameListed ==
    ASSUME NEW x, NEW y, SameCall(x, y)
    PROVE  HasListed(x) <=> HasListed(y)
BY DEF SameCall, HasListed

LEMMA AwakeMoved ==
    ASSUME NEW c, NEW d, NEW S, NEW T, Awake(c, S), T \subseteq S,
           Moved(d, c) \/ (HasListed(d) => d.disturbed) \/ d = c
    PROVE  Awake(d, T)
BY DEF Awake, Moved

\* Enough that each call is moved along, disturbed, or back at its beginning.
LEMMA AwakeKept ==
    ASSUME AwakeInv, stopped' \subseteq stopped, stopped' \subseteq ListedVms',
           \A t \in Tasks : \/ Moved(handler'[t], handler[t])
                            \/ (HasListed(handler'[t]) => handler'[t].disturbed)
                            \/ handler'[t] = handler[t]
    PROVE  AwakeInv'
<1>1. ASSUME NEW t \in Tasks PROVE Awake(handler'[t], stopped')
    <2>1. PICK c, d, S, T : c = handler[t] /\ d = handler'[t] /\ S = stopped /\ T = stopped'
        OBVIOUS
    <2>2. Awake(c, S) /\ T \subseteq S
        BY <2>1 DEF AwakeInv
    <2>3. Moved(d, c) \/ (HasListed(d) => d.disturbed) \/ d = c
        BY <2>1
    <2> QED
        BY <2>1, <2>2, <2>3, AwakeMoved
<1> QED
    BY <1>1 DEF AwakeInv

\* Disturb leaves no call that has listed the VMs undisturbed, but its own.
LEMMA AwakeForeign ==
    ASSUME SchedInv, handler' = Disturb(handler, {}), stopped' \subseteq ListedVms'
    PROVE  AwakeInv'
<1>1. PICK hs \in [Tasks -> CallRecs] : hs = handler
    BY DEF SchedInv, SchedTyped
<1>2. PICK who : who = {}
    OBVIOUS
<1>3. \A t \in Tasks : /\ SameCall(handler'[t], hs[t])
                       /\ HasListed(hs[t]) => handler'[t].disturbed
    BY <1>1, <1>2, DisturbDoes
<1>4. ASSUME NEW t \in Tasks PROVE HasListed(handler'[t]) => handler'[t].disturbed
    <2>1. PICK x, y : x = handler'[t] /\ y = hs[t] /\ SameCall(x, y)
        BY <1>3
    <2>2. HasListed(x) <=> HasListed(y)
        BY <2>1, SameListed
    <2> QED
        BY <1>3, <2>1, <2>2
<1> QED
    BY <1>4 DEF AwakeInv, Awake

\* A call's own step, which the others do not see.
LEMMA AwakeQuiet ==
    ASSUME SchedInv, AwakeInv, NEW h \in Tasks, NEW d, Set(h, d),
           Moved(d, handler[h]) \/ ~HasListed(d), UNCHANGED <<registry, stopped>>
    PROVE  AwakeInv'
<1>1. handler'[h] = d /\ \A t \in Tasks : t # h => handler'[t] = handler[t]
    BY DEF Set, SchedInv, SchedTyped
<1>2. ListedVms' = ListedVms
    BY RegistryKept
<1> QED
    BY <1>1, <1>2, AwakeKept DEF AwakeInv

\* A call's own change of the registry, which disturbs the others.
LEMMA AwakeChange ==
    ASSUME SchedInv, AwakeInv, NEW h \in Tasks, NEW d \in CallRecs, NEW who \in SUBSET {h},
           handler' = Disturb([handler EXCEPT ![h] = d], who),
           Moved(d, handler[h]), HasListed(d),
           stopped' \subseteq stopped, stopped' \subseteq ListedVms'
    PROVE  AwakeInv'
<1>1. PICK hs \in [Tasks -> CallRecs] : hs = [handler EXCEPT ![h] = d]
    BY DEF SchedInv, SchedTyped
<1>2. hs[h] = d
    BY <1>1 DEF SchedInv, SchedTyped
<1>3. \A t \in Tasks : /\ SameCall(handler'[t], hs[t])
                       /\ t \in who => handler'[t] = hs[t]
                       /\ t \notin who /\ HasListed(hs[t]) => handler'[t].disturbed
    BY <1>1, DisturbDoes
<1>4. ASSUME NEW t \in Tasks
      PROVE  \/ Moved(handler'[t], handler[t])
             \/ (HasListed(handler'[t]) => handler'[t].disturbed)
    <2>1. CASE t \in who
        <3>1. t = h
            BY <2>1
        <3> QED
            <4>1. handler'[t] = d
                BY <1>2, <1>3, <2>1, <3>1
            <4> QED
                BY <3>1, <4>1
    <2>2. CASE t \notin who
        <3>1. PICK x, y : x = handler'[t] /\ y = hs[t] /\ SameCall(x, y)
            BY <1>3
        <3>2. HasListed(x) <=> HasListed(y)
            BY <3>1, SameListed
        <3> QED
            BY <1>3, <2>2, <3>1, <3>2
    <2> QED
        BY <2>1, <2>2
<1> QED
    BY <1>4, AwakeKept

\* The places of the loops.
LEMMA LoopMoves ==
    ASSUME NEW c \in CallRecs, NEW e \in CallRecs, Moved(e, c)
    PROVE  /\ Moved(StartLoop(e), c) /\ Moved(StopLoop(e), c) /\ Moved(Translated(e), c)
           /\ HasListed(StartLoop(e)) /\ HasListed(StopLoop(e))
           /\ StartLoop(e) \in CallRecs /\ StopLoop(e) \in CallRecs
<1>1. PICK x : x = StartLoop(e) /\ x \in CallRecs /\ SameWork(x, e) /\ x.pc \in {"answer", "start"}
    BY StartLoopDoes
<1>2. PICK y : y = StopLoop(e) /\ y \in CallRecs /\ SameWork(y, e) /\ y.pc \in {"answer", "start", "stop"}
    BY StopLoopDoes
<1>3. PICK z : z = Translated(e) /\ SameWork(z, e)
    BY TranslatedDoes
<1> QED
    BY <1>1, <1>2, <1>3 DEF SameWork, Moved, HasListed

LEMMA ErrorMoves ==
    ASSUME NEW c \in CallRecs, NEW e \in CallRecs, Moved(e, c),
           NEW kind \in {"stop", "start", "translate"}, NEW v \in Vms
    PROVE  Moved(WithError(e, kind, v), c) /\ WithError(e, kind, v) \in CallRecs
<1>1. PICK x : x = WithError(e, kind, v)
    OBVIOUS
<1>2. x \in CallRecs /\ x.actions = e.actions /\ x.disturbed = e.disturbed
    BY <1>1, WithErrorDoes
<1> QED
    BY <1>1, <1>2 DEF Moved

LEMMA AwakeListVms ==
    ASSUME SchedInv, AwakeInv, NEW h \in Tasks, ListVms(h)
    PROVE  AwakeInv'
<1>1. PICK c \in CallRecs : c = handler[h]
    BY OwnCall
<1>2. PICK R, S : R = ListedVms /\ S = stopped
    OBVIOUS
<1> DEFINE a == reconcile(c.desired, R)
           e == [c EXCEPT !.actions = a, !.left = a.to_stop]
<1>3. R \subseteq Vms /\ S \subseteq R /\ c.desired \subseteq Vms
    BY <1>2, CallFields DEF ListedVms, AwakeInv
<1>4. a \in Plans /\ a.to_start = c.desired \ R /\ a.to_stop \in SUBSET Vms
    BY <1>3 DEF reconcile, Plans
<1> HIDE DEF a
<1>5. e \in CallRecs /\ e.actions = a
    BY <1>4 DEF CallRecs
<1> HIDE DEF e
<1>6. PICK d : d = StopLoop(e) /\ SameWork(d, e)
    BY <1>5, StopLoopDoes
<1>7. Awake(d, S)
    BY <1>3, <1>4, <1>5, <1>6 DEF Awake, SameWork
<1>8. Set(h, d) /\ UNCHANGED <<registry, stopped>>
    BY <1>1, <1>2, <1>6 DEF ListVms, a, e
<1>9. handler'[h] = d /\ \A t \in Tasks : t # h => handler'[t] = handler[t]
    BY <1>8 DEF Set, SchedInv, SchedTyped
<1>10. ListedVms' = ListedVms
    BY <1>8, RegistryKept
<1>11. ASSUME NEW t \in Tasks PROVE Awake(handler'[t], stopped')
    BY <1>2, <1>7, <1>8, <1>9 DEF AwakeInv
<1> QED
    BY <1>8, <1>10, <1>11 DEF AwakeInv

LEMMA AwakeRefused ==
    ASSUME SchedInv, AwakeInv, NEW h \in Tasks,
           ListVmsFails(h) \/ \E b \in Bodies : ReceiveAllocation(h, b)
    PROVE  AwakeInv'
<1>1. ASSUME NEW s \in {400, 401, 500} PROVE ~HasListed([NoCall EXCEPT !.response = Refused(s)])
    BY DEF NoCall, Refused, NoResponse, HasListed
<1>2. ASSUME NEW D PROVE ~HasListed([NoCall EXCEPT !.pc = "list", !.desired = D])
    BY DEF NoCall, NoResponse, HasListed
<1>3. CASE ListVmsFails(h)
    <2>1. /\ Set(h, [NoCall EXCEPT !.response = Refused(500)])
          /\ UNCHANGED <<registry, stopped>>
        BY <1>3 DEF ListVmsFails
    <2> QED
        BY <1>1, <2>1, AwakeQuiet
<1>4. ASSUME NEW b \in Bodies, ReceiveAllocation(h, b) PROVE AwakeInv'
    <2>1. UNCHANGED <<registry, stopped>>
        BY <1>4 DEF ReceiveAllocation
    <2>2. PICK x, y, z : /\ x = [NoCall EXCEPT !.response = Refused(401)]
                         /\ y = [NoCall EXCEPT !.response = Refused(400)]
                         /\ z = [NoCall EXCEPT !.pc = "list", !.desired = all_vms(b)]
        OBVIOUS
    <2>3. ~HasListed(x) /\ ~HasListed(y)
        BY <1>1, <2>2
    <2>4. ~HasListed(z)
        BY <1>2, <2>2
    <2>5. Set(h, x) \/ Set(h, y) \/ Set(h, z)
        BY <1>4, <2>2 DEF ReceiveAllocation
    <2> QED
        BY <2>1, <2>3, <2>4, <2>5, AwakeQuiet
<1> QED
    BY <1>3, <1>4

LEMMA AwakeStop ==
    ASSUME SchedInv, AwakeInv, NEW h \in Tasks, StopVm(h) \/ StopVmFails(h)
    PROVE  AwakeInv'
<1>1. PICK c \in CallRecs : c = handler[h]
    BY OwnCall
<1>2. PICK v \in c.left :
         \/ /\ Deregister(v) /\ stopped' = stopped \ {v}
            /\ handler' = Disturb([handler EXCEPT ![h] = StopLoop([c EXCEPT !.left = @ \ {v}])], {h})
         \/ /\ Set(h, StopLoop(WithError([c EXCEPT !.left = @ \ {v}], "stop", v)))
            /\ UNCHANGED <<registry, stopped>>
    BY <1>1 DEF StopVm, StopVmFails
<1>3. c.pc = "stop" /\ HasListed(c) /\ v \in Vms
    BY <1>1, CallFields DEF StopVm, StopVmFails, HasListed
<1>4. PICK e \in CallRecs : e = [c EXCEPT !.left = @ \ {v}] /\ Moved(e, c)
    BY <1>3, LeftTaken DEF SameWork, Moved
<1>5. CASE Deregister(v) /\ stopped' = stopped \ {v} /\
           handler' = Disturb([handler EXCEPT ![h] = StopLoop(e)], {h})
    <2>1. PICK d \in CallRecs : d = StopLoop(e) /\ Moved(d, c) /\ HasListed(d)
        BY <1>4, LoopMoves
    <2>2. stopped' \subseteq stopped /\ stopped' \subseteq ListedVms'
        BY <1>3, <1>5, DeregistersOne DEF AwakeInv
    <2>3. {h} \in SUBSET {h}
        OBVIOUS
    <2> QED
        BY <1>1, <1>5, <2>1, <2>2, <2>3, AwakeChange
<1>6. CASE Set(h, StopLoop(WithError(e, "stop", v))) /\ UNCHANGED <<registry, stopped>>
    <2>1. PICK f \in CallRecs : f = WithError(e, "stop", v) /\ Moved(f, c)
        BY <1>3, <1>4, ErrorMoves
    <2>2. PICK d \in CallRecs : d = StopLoop(f) /\ Moved(d, c)
        BY <2>1, LoopMoves
    <2> QED
        BY <1>1, <1>6, <2>1, <2>2, AwakeQuiet
<1> QED
    BY <1>2, <1>4, <1>5, <1>6

\* The start loop up to create_vm.
LEMMA AwakeStart ==
    ASSUME SchedInv, AwakeInv, NEW h \in Tasks, LookUp(h) \/ Fetch(h) \/ Fetched(h)
    PROVE  AwakeInv'
<1>1. PICK c \in CallRecs : c = handler[h]
    BY OwnCall
<1>2. c.pc \in {"start", "fetch", "await"} /\ HasListed(c) /\ UNCHANGED <<registry, stopped>>
    BY <1>1 DEF LookUp, Fetch, Fetched, HasListed
<1>3. PICK there : Sound(c, ListedVms, there)
    BY <1>1, OwnCall
<1>4. CASE LookUp(h)
    <2>0. PICK v \in c.left :
             LET x == [c EXCEPT !.left = @ \ {v}, !.cur = v]
             IN Set(h, IF v \in known THEN Translated([x EXCEPT !.fetches = Disks(MessageOf(v))])
                       ELSE StartLoop(WithError(x, "start", v)))
        BY <1>1, <1>4 DEF LookUp
    <2>1. PICK e :
             /\ e = [c EXCEPT !.left = @ \ {v}, !.cur = v]
             /\ Set(h, IF v \in known THEN Translated([e EXCEPT !.fetches = Disks(MessageOf(v))])
                       ELSE StartLoop(WithError(e, "start", v)))
        BY <2>0
    <2>2. v \in Vms
        BY CallFields
    <2>3. e \in CallRecs /\ Moved(e, c)
        BY <1>2, <2>1, <2>2, NextTaken DEF SameWork, Moved
    <2>4. CASE v \in known
        <3>1. v \in Hashes
            BY <2>4 DEF SchedInv, SchedTyped
        <3>2. Disks(MessageOf(v)) \in Seq(VolumeDisks)
            BY <3>1, VolumesOf
        <3>3. PICK f \in CallRecs : f = [e EXCEPT !.fetches = Disks(MessageOf(v))] /\ SameWork(f, e)
            BY <2>3, <3>2, FetchesSet
        <3>4. Moved(f, c)
            BY <2>3, <3>3 DEF SameWork, Moved
        <3>5. PICK d : d = Translated(f) /\ Moved(d, c)
            BY <3>4, LoopMoves
        <3> QED
            BY <1>1, <1>2, <2>1, <2>4, <3>3, <3>5, AwakeQuiet
    <2>5. CASE v \notin known
        <3>1. PICK f \in CallRecs : f = WithError(e, "start", v) /\ Moved(f, c)
            BY <2>2, <2>3, ErrorMoves
        <3>2. PICK d : d = StartLoop(f) /\ Moved(d, c)
            BY <3>1, LoopMoves
        <3> QED
            BY <1>1, <1>2, <2>1, <2>5, <3>1, <3>2, AwakeQuiet
    <2> QED
        BY <2>4, <2>5
<1>5. CASE Fetch(h)
    <2>1. PICK d : d = [c EXCEPT !.pc = "await"] /\ Set(h, d)
        BY <1>1, <1>5 DEF Fetch
    <2>2. Moved(d, c)
        BY <1>2, <2>1 DEF CallRecs, Moved
    <2> QED
        BY <1>1, <1>2, <2>1, <2>2, AwakeQuiet
<1>6. CASE Fetched(h)
    <2>1. c.pc = "await" /\ c.pc \in BusyPcs
        BY <1>1, <1>6 DEF Fetched, BusyPcs
    <2>2. c.cur \in Vms
        <3>1. PICK R : Sound(c, R, there)
            BY <1>3
        <3> QED
            BY <2>1, <3>1, BusyFacts
    <2>3. Moved(c, c)
        BY <1>2 DEF Moved
    <2>4. CASE dl[h].pc = "ok"
        <3>1. PICK d : /\ d = Translated([c EXCEPT !.fetches = Tail(@)]) /\ Set(h, d)
            BY <1>1, <1>6, <2>4 DEF Fetched
        <3>2. Moved(d, c)
            BY <1>2, <3>1 DEF CallRecs, Moved, Translated
        <3> QED
            BY <1>1, <1>2, <3>1, <3>2, AwakeQuiet
    <2>5. CASE dl[h].pc # "ok"
        <3>1. PICK f \in CallRecs : f = WithError(c, "translate", c.cur) /\ Moved(f, c)
            BY <2>2, <2>3, ErrorMoves
        <3>2. PICK d : d = StartLoop(f) /\ Moved(d, c)
            BY <3>1, LoopMoves
        <3>3. Set(h, d)
            BY <1>1, <1>6, <2>5, <3>1, <3>2 DEF Fetched
        <3> QED
            BY <1>1, <1>2, <3>2, <3>3, AwakeQuiet
    <2> QED
        BY <2>4, <2>5
<1> QED
    BY <1>4, <1>5, <1>6

\* create_vm and the port forwards.
LEMMA AwakeCreate ==
    ASSUME SchedInv, AwakeInv, NEW h \in Tasks,
           CreateVm(h) \/ CreateVmFails(h) \/ AddPortForward(h) \/ PortsDone(h) \/ Answer(h)
    PROVE  AwakeInv'
<1>1. PICK c \in CallRecs : c = handler[h]
    BY OwnCall
<1>2. c.pc \in {"create", "ports", "answer"} /\ HasListed(c) /\ Moved(c, c)
    BY <1>1 DEF CreateVm, CreateVmFails, AddPortForward, PortsDone, Answer, HasListed, Moved
<1>3. c.pc = "create" => c.cur \in Vms
    <2>1. PICK R, there : R = ListedVms /\ there = local
        OBVIOUS
    <2>2. Sound(c, R, there)
        BY <1>1, <2>1, OwnCall
    <2> QED
        BY <2>2, BusyFacts DEF BusyPcs
<1>4. CASE CreateVm(h)
    <2>0. PICK v \in Vms : v = c.cur
        BY <1>1, <1>3, <1>4 DEF CreateVm
    <2>1. PICK d :
             /\ v = c.cur
             /\ d = [c EXCEPT !.pc = "ports", !.created = @ \cup {v},
                              !.ports = translate_port_forwards(MessageOf(v))]
        BY <2>0
    <2>2. /\ handler' = Disturb([handler EXCEPT ![h] = d], {h}) /\ stopped' = stopped
          /\ \E a \in Addresses : Register(v, a)
        BY <1>1, <1>4, <2>1 DEF CreateVm
    <2>3. c.pc = "create" /\ c.cur \in Hashes
        <3>1. PICK R, there : R = ListedVms /\ there = local
            OBVIOUS
        <3>2. Sound(c, R, there)
            BY <1>1, <3>1, OwnCall
        <3> QED
            BY <1>1, <1>4, <3>2 DEF Sound, FetchInv, CreateVm
    <2>4. PICK p \in Seq(Forwards) : p = translate_port_forwards(MessageOf(v))
        BY <2>1, <2>3, PortsTyped
    <2>5. d = [c EXCEPT !.pc = "ports", !.created = @ \cup {v}, !.ports = p]
        BY <2>1, <2>4
    <2>6. "ports" \in CallPcs /\ c.created \cup {v} \in SUBSET Vms
        BY CallFields DEF CallPcs
    <2>7. d \in CallRecs
        BY <2>4, <2>5, <2>6 DEF CallRecs
    <2>8. d.pc = "ports" /\ d.actions = c.actions /\ d.disturbed = c.disturbed
        BY <2>5 DEF CallRecs
    <2>9. Moved(d, c) /\ HasListed(d)
        BY <1>2, <2>8 DEF Moved, HasListed
    <2>10. ListedVms' = ListedVms \cup {v}
        BY <2>2, RegistersOne
    <2>11. stopped' \subseteq stopped /\ stopped' \subseteq ListedVms'
        BY <2>2, <2>10 DEF AwakeInv
    <2>12. {h} \in SUBSET {h}
        OBVIOUS
    <2> QED
        BY <1>1, <2>2, <2>7, <2>9, <2>11, <2>12, AwakeChange
<1>5. CASE CreateVmFails(h)
    <2>1. c.cur \in Vms
        BY <1>1, <1>3, <1>5 DEF CreateVmFails
    <2>2. PICK f \in CallRecs : f = WithError(c, "start", c.cur) /\ Moved(f, c)
        BY <1>2, <2>1, ErrorMoves
    <2>3. PICK d : d = StartLoop(f) /\ Moved(d, c)
        BY <2>2, LoopMoves
    <2>4. Set(h, d) /\ UNCHANGED <<registry, stopped>>
        BY <1>1, <1>5, <2>2, <2>3 DEF CreateVmFails
    <2> QED
        BY <1>1, <2>3, <2>4, AwakeQuiet
<1>6. CASE AddPortForward(h)
    <2>1. PICK d : d = [c EXCEPT !.ports = Tail(@)]
        OBVIOUS
    <2>2. Set(h, d) /\ UNCHANGED <<registry, stopped>>
        BY <1>1, <1>6, <2>1 DEF AddPortForward
    <2>3. Moved(d, c)
        BY <1>2, <2>1 DEF CallRecs, Moved
    <2> QED
        BY <1>1, <2>2, <2>3, AwakeQuiet
<1>7. CASE PortsDone(h)
    <2>1. PICK d : d = StartLoop(c) /\ Moved(d, c)
        BY <1>2, LoopMoves
    <2>2. Set(h, d) /\ UNCHANGED <<registry, stopped>>
        BY <1>1, <1>7, <2>1 DEF PortsDone
    <2> QED
        BY <1>1, <2>1, <2>2, AwakeQuiet
<1>8. CASE Answer(h)
    <2>1. PICK d : d = [c EXCEPT !.pc = "idle", !.response = Response(c)]
        OBVIOUS
    <2>2. Set(h, d) /\ UNCHANGED <<registry, stopped>>
        BY <1>1, <1>8, <2>1 DEF Answer
    <2>3. d.actions = c.actions /\ d.disturbed = c.disturbed
        BY <2>1, AnswerSet
    <2>4. Moved(d, c)
        BY <1>2, <2>3 DEF Moved
    <2> QED
        BY <1>1, <2>2, <2>4, AwakeQuiet
<1> QED
    BY <1>4, <1>5, <1>6, <1>7, <1>8

LEMMA AwakeLost ==
    ASSUME SchedInv, AwakeInv, NEW h \in Tasks, ReplyLost(h)
    PROVE  AwakeInv'
<1>1. PICK c \in CallRecs : c = handler[h]
    BY OwnCall
<1>2. c.pc \in {"create", "stop"} /\ HasListed(c) /\ Moved(c, c)
    BY <1>1 DEF ReplyLost, HasListed, Moved
<1>3. CASE c.pc = "create"
    <2>1. c.cur \in Vms
        <3>1. PICK R, there : R = ListedVms /\ there = local
            OBVIOUS
        <3>2. Sound(c, R, there)
            BY <1>1, <3>1, OwnCall
        <3> QED
            BY <1>3, <3>2, BusyFacts DEF BusyPcs
    <2>2. /\ handler' = Disturb([handler EXCEPT ![h] = StartLoop(WithError(c, "start", c.cur))], {})
          /\ stopped' = stopped /\ \E a \in Addresses : Register(c.cur, a)
        BY <1>1, <1>3 DEF ReplyLost
    <2>3. PICK f \in CallRecs : f = WithError(c, "start", c.cur) /\ Moved(f, c)
        BY <1>2, <2>1, ErrorMoves
    <2>4. PICK d \in CallRecs : d = StartLoop(f) /\ Moved(d, c) /\ HasListed(d)
        BY <2>3, LoopMoves
    <2>5. stopped' \subseteq stopped /\ stopped' \subseteq ListedVms'
        BY <2>1, <2>2, RegistersOne DEF AwakeInv
    <2>6. {} \in SUBSET {h} /\ handler' = Disturb([handler EXCEPT ![h] = d], {})
        BY <2>2, <2>3, <2>4
    <2> QED
        BY <1>1, <2>4, <2>5, <2>6, AwakeChange
<1>4. CASE c.pc = "stop"
    <2>1. PICK v \in c.left :
             /\ Deregister(v) /\ stopped' = stopped \ {v}
             /\ handler' = Disturb([handler EXCEPT ![h] =
                    StopLoop(WithError([c EXCEPT !.left = @ \ {v}], "stop", v))], {})
        BY <1>1, <1>4 DEF ReplyLost
    <2>2. v \in Vms
        BY CallFields
    <2>3. PICK e \in CallRecs : e = [c EXCEPT !.left = @ \ {v}] /\ Moved(e, c)
        BY <1>2, LeftTaken DEF SameWork, Moved
    <2>4. PICK f \in CallRecs : f = WithError(e, "stop", v) /\ Moved(f, c)
        BY <2>2, <2>3, ErrorMoves
    <2>5. PICK d \in CallRecs : d = StopLoop(f) /\ Moved(d, c) /\ HasListed(d)
        BY <2>4, LoopMoves
    <2>6. stopped' \subseteq stopped /\ stopped' \subseteq ListedVms'
        BY <2>1, <2>2, DeregistersOne DEF AwakeInv
    <2>7. {} \in SUBSET {h} /\ handler' = Disturb([handler EXCEPT ![h] = d], {})
        BY <2>1, <2>3, <2>4, <2>5
    <2> QED
        BY <1>1, <2>5, <2>6, <2>7, AwakeChange
<1> QED
    BY <1>2, <1>3, <1>4

\* What others do to the node, and its restart and recovery.
LEMMA AwakeOthers ==
    ASSUME SchedInv, AwakeInv,
           \/ NodeRestart \/ NodeRecovers \/ \E v \in Vms : ForeignCall(v) \/ QemuEnds(v)
    PROVE  AwakeInv'
<1>1. stopped \subseteq ListedVms
    BY DEF AwakeInv
<1>2. CASE NodeRestart
    BY <1>2, AwakeForeign DEF NodeRestart
<1>3. CASE NodeRecovers
    <2>1. CASE Resume /\ UNCHANGED stopped
        BY <1>1, <2>1 , <1>3, AwakeForeign DEF Resume, ListedVms, Listed, NodeRecovers
    <2>2. ASSUME NEW v \in Vms, NEW a \in Addresses, Reload(v, a),
                 stopped' \in {stopped, stopped \cup {v}}
          PROVE  AwakeInv'
        <3>1. listed \in [Vms -> Addresses \cup {NotListed}] /\ listed' = [listed EXCEPT ![v] = a]
            BY <2>2 DEF SchedInv, SchedTyped, Reload
        <3>2. ListedVms' = ListedVms \cup {v}
            BY <3>1, RegistryAssumption DEF ListedVms, Listed
        <3> QED
            BY <1>1, <1>3, <2>2, <3>2, AwakeForeign DEF NodeRecovers
    <2> QED
        BY <1>3, <2>1, <2>2 DEF NodeRecovers
<1>4. ASSUME NEW v \in Vms, ForeignCall(v) PROVE AwakeInv'
    <2>1. stopped' = stopped \ {v} /\ (ListedVms' = ListedVms \ {v} \/ ListedVms' = ListedVms \cup {v})
        BY <1>4, RegistersOne, DeregistersOne DEF ForeignCall
    <2> QED
        BY <1>1, <1>4, <2>1, AwakeForeign DEF ForeignCall
<1>5. ASSUME NEW v \in Vms, QemuEnds(v) PROVE AwakeInv'
    <2>1. ListedVms' = ListedVms /\ stopped' = stopped \cup {v} /\ v \in ListedVms
        BY <1>5, RegistryKept DEF QemuEnds, Running
    <2> QED
        BY <1>1, <1>5, <2>1, AwakeForeign DEF QemuEnds
<1> QED
    BY <1>2, <1>3, <1>4, <1>5

LEMMA AwakeRestart ==
    ASSUME SchedInv, AwakeInv, AgentRestart
    PROVE  AwakeInv'
<1>1. /\ handler' = [h \in Tasks |-> NoCall] /\ stopped' = stopped /\ ListedVms' = ListedVms
    BY RegistryKept DEF AgentRestart
<1>2. ~HasListed(NoCall)
    BY DEF NoCall, NoResponse, HasListed
<1> QED
    BY <1>1, <1>2, AwakeKept DEF AwakeInv

\* Steps that neither a call nor the list of VMs takes part in.
LEMMA AwakeIdle ==
    ASSUME AwakeInv, UNCHANGED <<listed, stopped, handler>>
    PROVE  AwakeInv'
BY DEF AwakeInv, ListedVms, Listed, Awake, HasListed

LEMMA AwakeStep == SchedInv /\ AwakeInv /\ [Next]_vars => AwakeInv'
<1> SUFFICES ASSUME SchedInv, AwakeInv, [Next]_vars PROVE AwakeInv'
    OBVIOUS
<1>1. CASE UNCHANGED vars
    BY <1>1, AwakeIdle DEF vars, registry
<1>2. ASSUME NEW v \in Hashes, PostMessage(v) PROVE AwakeInv'
    BY <1>2, AwakeIdle DEF PostMessage, registry
<1>3. ASSUME NEW h \in Tasks, NEW b \in Bodies, ReceiveAllocation(h, b) PROVE AwakeInv'
    BY <1>3, AwakeRefused
<1>4. ASSUME NEW h \in Tasks, Handle(h) PROVE AwakeInv'
    BY <1>4, AwakeListVms, AwakeRefused, AwakeStop, AwakeStart, AwakeCreate, Zenon DEF Handle
<1>5. ASSUME NEW h \in Tasks, DownloadStep(h) PROVE AwakeInv'
    BY <1>5, AwakeIdle DEF DownloadStep, registry
<1>6. ASSUME NEW h \in Tasks, ReplyLost(h) PROVE AwakeInv'
    BY <1>6, AwakeLost
<1>7. ASSUME NEW v \in Vms, ForeignCall(v) \/ QemuEnds(v) PROVE AwakeInv'
    BY <1>7, AwakeOthers
<1>8. ASSUME NEW v \in Vms, NodeSaves(v) PROVE AwakeInv'
    BY <1>8, AwakeIdle DEF NodeSaves, Persist, Unpersist
<1>9. CASE AgentRestart \/ NodeRestart \/ NodeRecovers
    BY <1>9, AwakeRestart, AwakeOthers
<1> QED
    BY <1>1, <1>2, <1>3, <1>4, <1>5, <1>6, <1>7, <1>8, <1>9, Zenon DEF Next

LEMMA AwakeInit == Init => AwakeInv
<1>1. ~HasListed(NoCall)
    BY DEF NoCall, NoResponse, HasListed
<1> QED
    BY <1>1 DEF Init, AwakeInv, Awake

LEMMA SchedAlways == Spec => []SchedInv
<1>1. Spec => Init /\ [][Next]_vars
    BY PTL DEF Spec
<1> QED
    BY <1>1, SchedInit, SchedStep, PTL

LEMMA AwakeAlways == Spec => []AwakeInv
<1>1. Spec => Init /\ [][Next]_vars
    BY PTL DEF Spec
<1> QED
    BY <1>1, AwakeInit, AwakeStep, SchedAlways, PTL

\* Every variable of the agent has its type under any interleaving of
\* allocations, restarts, lost replies and foreign calls, and the write lock of
\* compute_client is held exactly by the task that is adding port forwards.
THEOREM SchedTypeCorrect == Spec => []SchedTypeOK
<1>1. SchedInv /\ AwakeInv => SchedTypeOK
    <2> SUFFICES ASSUME SchedInv, AwakeInv PROVE SchedTypeOK
        OBVIOUS
    <2>1. CacheTypeOK
        BY DEF SchedInv, CacheInv
    <2>2. ASSUME NEW h \in Tasks
          PROVE  /\ handler[h].pc \in CallPcs
                 /\ handler[h].left \subseteq handler[h].actions.to_start
                                                \cup handler[h].actions.to_stop
                 /\ dl[h].pc # "idle" => handler[h].pc = "await"
                 /\ lock = h <=> handler[h].pc = "ports"
        <3>1. PICK c \in CallRecs : c = handler[h] /\ CallInv(c)
            BY OwnCall DEF Sound
        <3>2. c.pc \in CallPcs
            BY CallFields
        <3>3. c.left \subseteq c.actions.to_start \cup c.actions.to_stop
            <4>1. CASE c.pc = "stop"
                BY <3>1, <4>1 DEF CallInv, Stopping
            <4>2. CASE c.pc \in StartPcs
                BY <3>1, <4>2 DEF CallInv, Starting
            <4>3. CASE c.pc = "idle"
                BY <3>1, <4>3 DEF CallInv
            <4>4. CASE c.pc = "list"
                BY <3>1, <4>4 DEF CallInv
            <4> QED
                BY <3>2, <4>1, <4>2, <4>3, <4>4 DEF CallPcs, StartPcs
        <3> QED
            BY <3>1, <3>2, <3>3 DEF SchedInv, DownloadInv, LockInv
    <2> QED
        BY <2>1, <2>2 DEF SchedInv, SchedTyped, SchedTypeOK, CallPcs, AwakeInv
<1> QED
    BY <1>1, SchedAlways, AwakeAlways, PTL

\* The answer to an allocation tells the truth about the node, whatever calls
\* failed on the way: unless something else changed the VMs after list_vms, the
\* VMs that are registered are the allocated ones without those reported as not
\* started, and those reported as not stopped; and every VM of these that does
\* not run was already registered when the call listed the VMs, so that it
\* counts as unchanged or could not be stopped.
THEOREM AnswersAreTrue == Spec => []AnswerTellsTruth
<1>1. SchedInv /\ AwakeInv => AnswerTellsTruth
    <2> SUFFICES ASSUME SchedInv, AwakeInv, NEW h \in Tasks,
                        handler[h].response.status \in {200, 207}, ~handler[h].disturbed
                 PROVE  /\ ListedVms =
                              (handler[h].desired \
                                {e[2] : e \in {x \in handler[h].errors : x[1] \in {"start", "translate"}}})
                              \cup {e[2] : e \in {x \in handler[h].errors : x[1] \in {"stop"}}}
                        /\ ListedVms \ Running \subseteq handler[h].actions.unchanged
                              \cup {e[2] : e \in {x \in handler[h].errors : x[1] \in {"stop"}}}
        BY DEF AnswerTellsTruth
    <2>1. PICK c \in CallRecs : c = handler[h]
        BY OwnCall
    <2>2. PICK R, there : R = ListedVms /\ there = local
        OBVIOUS
    <2>3. Sound(c, R, there) /\ Answered(c) /\ ~c.disturbed
        BY <2>1, <2>2, OwnCall DEF Answered
    <2>4. HasListed(c) /\ c.pc = "idle" /\ Starting(c, FALSE) /\ c.left = {} /\ Planned(c)
        BY <2>3 DEF HasListed, Answered, Sound, CallInv
    <2>5. R = c.actions.unchanged \cup NotStopped(c) \cup c.created
        BY <2>3, <2>4 DEF Sound, RunInv
    <2> DEFINE ns == {e[2] : e \in {x \in c.errors : x[1] \in {"start", "translate"}}}
               st == {e[2] : e \in {x \in c.errors : x[1] \in {"stop"}}}
    <2>6. \A e \in c.errors : e = <<e[1], e[2]>> /\ e[1] \in {"stop", "start", "translate"} /\ e[2] \in Vms
        BY CallFields DEF Errors
    <2>7. \A v : v \in ns <=> <<"start", v>> \in c.errors \/ <<"translate", v>> \in c.errors
        <3>1. ASSUME NEW v, v \in ns
              PROVE  <<"start", v>> \in c.errors \/ <<"translate", v>> \in c.errors
            <4>1. PICK e \in c.errors : e[1] \in {"start", "translate"} /\ e[2] = v
                BY <3>1
            <4>2. e = <<e[1], v>>
                BY <2>6, <4>1
            <4> QED
                BY <4>1, <4>2
        <3>2. ASSUME NEW v, NEW k \in {"start", "translate"}, <<k, v>> \in c.errors
              PROVE  v \in ns
            BY <3>2
        <3> QED
            BY <3>1, <3>2
    <2>8. \A v : v \in st <=> <<"stop", v>> \in c.errors
        <3>1. ASSUME NEW v, v \in st
              PROVE  <<"stop", v>> \in c.errors
            <4>1. PICK e \in c.errors : e[1] = "stop" /\ e[2] = v
                BY <3>1
            <4>2. e = <<e[1], v>>
                BY <2>6, <4>1
            <4> QED
                BY <4>1, <4>2
        <3>2. ASSUME NEW v, <<"stop", v>> \in c.errors
              PROVE  v \in st
            BY <3>2
        <3> QED
            BY <3>1, <3>2
    <2>9. ns = {e[2] : e \in {x \in handler[h].errors : x[1] \in {"start", "translate"}}} /\
          st = {e[2] : e \in {x \in handler[h].errors : x[1] \in {"stop"}}}
        BY <2>1
    <2> HIDE DEF ns, st
    <2>10. st = NotStopped(c)
        <3>1. ASSUME NEW v, v \in st PROVE v \in NotStopped(c)
            <4>1. <<"stop", v>> \in c.errors
                BY <2>8, <3>1
            <4>2. v \in Vms
                BY <2>6, <4>1
            <4> QED
                BY <4>1, <4>2 DEF NotStopped
        <3>2. ASSUME NEW v \in NotStopped(c) PROVE v \in st
            BY <2>8, <3>2 DEF NotStopped
        <3> QED
            BY <3>1, <3>2
    <2>11. c.desired \ ns = c.actions.unchanged \cup c.created
        <3>1. ASSUME NEW v \in c.desired, v \notin ns PROVE v \in c.actions.unchanged \cup c.created
            <4>1. <<"start", v>> \notin c.errors /\ <<"translate", v>> \notin c.errors
                BY <2>7, <3>1
            <4>2. v \in c.actions.to_start \cup c.actions.unchanged
                BY <2>4 DEF Planned
            <4> QED
                BY <2>4, <4>1, <4>2 DEF Starting
        <3>2. ASSUME NEW v \in ns PROVE v \notin c.actions.unchanged \cup c.created
            <4>1. PICK k \in {"start", "translate"} : <<k, v>> \in c.errors
                BY <2>7, <3>2
            <4>2. v \in c.actions.to_start \ (c.left \cup c.created)
                BY <2>4, <4>1 DEF Starting
            <4> QED
                BY <2>4, <4>2 DEF Planned
        <3>3. c.actions.unchanged \cup c.created \subseteq c.desired
            BY <2>4 DEF Planned, Starting
        <3> QED
            BY <3>1, <3>2, <3>3
    <2>12. R = (c.desired \ ns) \cup st
        BY <2>5, <2>10, <2>11
    <2>13. PICK S : S = stopped
        OBVIOUS
    <2>14. Awake(c, S) /\ S \subseteq R
        BY <2>1, <2>2, <2>13 DEF AwakeInv
    <2>15. S \cap c.actions.to_start = {}
        BY <2>3, <2>4, <2>14 DEF Awake
    <2>16. c.created \subseteq c.actions.to_start
        BY <2>4 DEF Starting
    <2>17. S \subseteq c.actions.unchanged \cup st
        BY <2>5, <2>10, <2>14, <2>15, <2>16
    <2>18. ListedVms \ Running = S
        BY <2>2, <2>13, <2>14 DEF Running
    <2> QED
        BY <2>1, <2>2, <2>9, <2>12, <2>17, <2>18
<1> QED
    BY <1>1, SchedAlways, AwakeAlways, PTL

\* The counts in the answer of handle_allocation: "started" is what create_vm
\* confirmed and what could not be translated, and "stopped" is never negative.
THEOREM CountsAreRight == Spec => []CountsReported
<1>1. SchedInv => CountsReported
    <2> SUFFICES ASSUME SchedInv, NEW h \in Tasks, Answered(handler[h])
                 PROVE  /\ handler[h].response.started =
                              Cardinality(handler[h].created) + ErrorCount(handler[h], "translate")
                        /\ handler[h].response.stopped >= 0
        BY DEF CountsReported, Answered
    <2>1. CallInv(handler[h])
        BY OwnCall DEF Sound
    <2> QED
        BY <2>1 DEF CallInv
<1> QED
    BY <1>1, SchedAlways, PTL

\* A file of the volume cache that has its final name is complete, unless two
\* tasks downloaded it at once: also when the tasks are handle_allocation calls
\* that restart, fail and overlap as they do in the agent.
THEOREM AgentCacheComplete == Spec => []CachedVolumeComplete
<1>1. SchedInv => CachedVolumeComplete
    BY DEF SchedInv, CacheInv
<1> QED
    BY <1>1, SchedAlways, PTL

\* create_vm is called with files that are all in the cache and, unless two
\* tasks downloaded one at the same time, complete: translate_message goes
\* through all disks of the message, and no later step takes a file away.
THEOREM CreateFindsDisks == Spec => []DisksReady
<1>1. SchedInv => DisksReady
    <2> SUFFICES ASSUME SchedInv, NEW h \in Tasks, handler[h].pc \in {"create", "ports"},
                        NEW i \in 1..Len(Disks(MessageOf(handler[h].cur)))
                 PROVE  LET v == Disks(MessageOf(handler[h].cur))[i].path
                        IN /\ local[v] # NoInode
                           /\ v \notin overlapped => data[v][local[v]] = "full"
        BY DEF DisksReady
    <2>1. PICK c \in CallRecs : c = handler[h]
        BY OwnCall
    <2>2. PICK there : there = local
        OBVIOUS
    <2>3. FetchInv(c, there) /\ c.pc \in {"create", "ports"}
        BY <2>1, <2>2, OwnCall DEF Sound
    <2>4. PICK s : s = Disks(MessageOf(c.cur))
        OBVIOUS
    <2>5. /\ c.cur \in Hashes /\ c.fetches = <<>>
          /\ \A j \in 1..(Len(s) - Len(c.fetches)) : there[s[j].path] # NoInode
        BY <2>3, <2>4 DEF FetchInv
    <2>6. Len(s) \in Nat /\ \A j \in 1..Len(s) : s[j].path \in Volumes
        BY <2>4, <2>5, VolumesOf
    <2>7. Len(s) - Len(c.fetches) = Len(s)
        BY <2>5, <2>6
    <2>8. i \in 1..Len(s)
        BY <2>1, <2>4
    <2>9. PICK v \in Volumes : v = s[i].path
        BY <2>6, <2>8
    <2>10. local[v] # NoInode
        BY <2>2, <2>5, <2>7, <2>8, <2>9
    <2>11. v \notin overlapped => data[v][local[v]] = "full"
        BY <2>10 DEF SchedInv, CacheInv, CachedVolumeComplete
    <2> QED
        BY <2>1, <2>4, <2>9, <2>10, <2>11
<1> QED
    BY <1>1, SchedAlways, PTL

\* The agent and the rest of the world change the files of the cache only as
\* ensure_cached and a restart of the agent do: VolumeCache by itself describes
\* every way in which handle_allocation calls use it.
THEOREM UsesCache == Spec => CacheSpec
<1>1. Init => CacheInit
    BY DEF Init
<1>2. SchedInv /\ [Next]_vars => [CacheNext]_cache
    <2> SUFFICES ASSUME SchedInv, [Next]_vars PROVE CacheNext \/ UNCHANGED cache
        OBVIOUS
    <2>1. ASSUME NEW h \in Tasks, Fetch(h) PROVE CacheNext
        <3>1. PICK c \in CallRecs : c = handler[h]
            BY OwnCall
        <3>2. c.pc = "fetch" /\ FetchInv(c, local)
            BY <2>1, <3>1, OwnCall DEF Fetch, Sound
        <3>3. c.fetches # <<>> /\ c.fetches \in Seq(VolumeDisks)
            BY <3>2, CallFields DEF FetchInv
        <3>4. c.fetches[1] \in VolumeDisks
            BY <3>3
        <3>5. c.fetches[1].path \in Volumes
            BY <3>4 DEF VolumeDisks
        <3>6. EnsureCached(h, c.fetches[1].path)
            BY <2>1, <3>1 DEF Fetch
        <3> QED
            BY <3>5, <3>6 DEF CacheNext
    <2>2. ASSUME NEW h \in Tasks, Fetched(h) PROVE CacheNext
        BY <2>2 DEF Fetched, CacheNext
    <2>3. ASSUME NEW h \in Tasks, DownloadStep(h) PROVE CacheNext
        BY <2>3 DEF DownloadStep, CacheNext
    <2>4. CASE AgentRestart
        BY <2>4 DEF AgentRestart, CacheNext
    <2>5. ASSUME NEW h \in Tasks, Handle(h) PROVE CacheNext \/ UNCHANGED cache
        <3>1. CASE Fetch(h) \/ Fetched(h)
            BY <2>1, <2>2, <3>1
        <3>2. CASE ~(Fetch(h) \/ Fetched(h))
            BY <2>5, <3>2 DEF Handle, ListVms, ListVmsFails, StopVm, StopVmFails, LookUp,
               CreateVm, CreateVmFails, AddPortForward, PortsDone, Answer
        <3> QED
            BY <3>1, <3>2
    <2>6. ASSUME NEW h \in Tasks, ReplyLost(h) PROVE UNCHANGED cache
        BY <2>6 DEF ReplyLost
    <2>7. ASSUME NEW v, PostMessage(v) \/ ForeignCall(v) \/ NodeSaves(v) \/ QemuEnds(v)
          PROVE  UNCHANGED cache
        BY <2>7 DEF PostMessage, ForeignCall, NodeSaves, QemuEnds
    <2>8. ASSUME NEW h, NEW b, ReceiveAllocation(h, b) PROVE UNCHANGED cache
        BY <2>8 DEF ReceiveAllocation
    <2>9. CASE NodeRestart \/ NodeRecovers
        BY <2>9 DEF NodeRestart, NodeRecovers
    <2>10. CASE UNCHANGED vars
        BY <2>10 DEF vars
    <2> QED
        BY <2>3, <2>4, <2>5, <2>6, <2>7, <2>8, <2>9, <2>10, Zenon DEF Next
<1>3. Spec => Init /\ [][Next]_vars
    BY PTL DEF Spec
<1> QED
    BY <1>1, <1>2, <1>3, SchedAlways, PTL DEF CacheSpec

\* All that handle_allocation, other clients, faults and recovery do to the node
\* is a step of the registry that VmManager is shown to implement: a create_vm
\* that is carried out, its reply lost or not, registers one id that was not
\* listed, and a delete_vm removes one that was.
THEOREM UsesRegistry == Spec => RegistrySpec
<1>1. Init => RegistryInit
    BY DEF Init
<1>2. SchedInv /\ [Next]_vars => [RegistryNext]_registry
    <2> SUFFICES ASSUME SchedInv, [Next]_vars PROVE RegistryNext \/ UNCHANGED registry
        OBVIOUS
    <2>1. ASSUME NEW h \in Tasks, handler[h].pc = "create" PROVE handler[h].cur \in Vms
        <3>1. PICK c \in CallRecs : c = handler[h]
            BY OwnCall
        <3>2. c.pc = "create" /\ FetchInv(c, local)
            BY <2>1, <3>1, OwnCall DEF Sound
        <3> QED
            BY <3>1, <3>2, SchedulerAssumption DEF FetchInv
    <2>2. ASSUME NEW h \in Tasks PROVE handler[h].left \subseteq Vms
        BY OwnCall, CallFields
    <2>3. ASSUME NEW h \in Tasks, CreateVm(h) PROVE RegistryNext
        BY <2>1, <2>3 DEF CreateVm, RegistryNext
    <2>4. ASSUME NEW h \in Tasks, StopVm(h) PROVE RegistryNext
        BY <2>2, <2>4 DEF StopVm, RegistryNext
    <2>5. ASSUME NEW h \in Tasks, ReplyLost(h) PROVE RegistryNext
        <3>1. CASE /\ handler[h].pc = "create"
                   /\ \E a \in Addresses : Register(handler[h].cur, a)
            BY <2>1, <3>1 DEF RegistryNext
        <3>2. CASE \E v \in handler[h].left : Deregister(v)
            BY <2>2, <3>2 DEF RegistryNext
        <3> QED
            BY <2>5, <3>1, <3>2 DEF ReplyLost
    <2>6. ASSUME NEW h \in Tasks, Handle(h) PROVE RegistryNext \/ UNCHANGED registry
        <3>1. CASE CreateVm(h) \/ StopVm(h)
            BY <2>3, <2>4, <3>1
        <3>2. CASE ~(CreateVm(h) \/ StopVm(h))
            BY <2>6, <3>2 DEF Handle, ListVms, ListVmsFails, StopVmFails, LookUp, Fetch,
               Fetched, CreateVmFails, AddPortForward, PortsDone, Answer
        <3> QED
            BY <3>1, <3>2
    <2>7. ASSUME NEW h \in Tasks, DownloadStep(h) PROVE UNCHANGED registry
        BY <2>7 DEF DownloadStep
    <2>8. ASSUME NEW v \in Vms, ForeignCall(v) \/ NodeSaves(v) PROVE RegistryNext
        BY <2>8 DEF ForeignCall, NodeSaves, RegistryNext
    <2>9. ASSUME NEW v, PostMessage(v) \/ QemuEnds(v) PROVE UNCHANGED registry
        BY <2>9 DEF PostMessage, QemuEnds
    <2>10. ASSUME NEW h, NEW b, ReceiveAllocation(h, b) PROVE UNCHANGED registry
        BY <2>10 DEF ReceiveAllocation
    <2>11. CASE AgentRestart
        BY <2>11 DEF AgentRestart
    <2>12. CASE NodeRestart \/ NodeRecovers
        BY <2>12 DEF NodeRestart, NodeRecovers, RegistryNext
    <2>13. CASE UNCHANGED vars
        BY <2>13 DEF vars
    <2> QED
        BY <2>5, <2>6, <2>7, <2>8, <2>9, <2>10, <2>11, <2>12, <2>13, Zenon DEF Next
<1>3. Spec => Init /\ [][Next]_vars
    BY PTL DEF Spec
<1> QED
    BY <1>1, <1>2, <1>3, SchedAlways, PTL DEF RegistrySpec

=============================================================================
