-------------------------- MODULE NumaAllocatorProof --------------------------
(***************************************************************************)
(* For every topology and every set of requests, the counters of the NUMA   *)
(* allocator keep their types and never exceed what a node has.  The two    *)
(* facts need each other: a counter within its capacity is what makes the   *)
(* saturating subtraction of allocate() the true amount of room.  Until the *)
(* first restart the counters are also the sums over the VMs on a node.     *)
(***************************************************************************)
EXTENDS NumaAllocator, FiniteSetTheorems, TLAPS

\* A saturating subtraction of naturals is a natural no larger than its first
\* operand, and what fits in it fits next to the second (u32::saturating_sub).
LEMMA SaturatingSubBound ==
    ASSUME NEW a \in Nat, NEW b \in Nat
    PROVE  /\ SaturatingSub(a, b) \in Nat
           /\ SaturatingSub(a, b) <= a
           /\ \A c \in Nat : c <= SaturatingSub(a, b) /\ b <= a => b + c <= a
BY DEF SaturatingSub

\* The number of pages of a request is a natural.
LEMMA PagesNat ==
    ASSUME NEW m \in Nat, NEW size
    PROVE  Pages(m, size) \in Nat
BY DEF Pages, DivCeil

CountersOK == 
    /\ allocated_vcpus \in [Nodes -> Nat]
    /\ allocated_2m_pages \in [Nodes -> Nat]
    /\ allocated_1g_pages \in [Nodes -> Nat]
    /\ WithinCapacity

\* allocate() on a node with room keeps every counter within its capacity.
LEMMA TakeKeepsCapacity ==
    ASSUME CountersOK, NEW r \in RequestSet, NEW n \in Nodes, Fits(r, n), Take(r, n)
    PROVE  CountersOK'
<1> DEFINE size == PageSize(r, n)
           pages == IF r.confidential THEN Pages(r.memory_mb, size) ELSE 0
           big == IF size = "1G" THEN pages ELSE 0
           small == IF size = "2M" THEN pages ELSE 0
<1>1. r.vcpus \in Nat /\ r.memory_mb \in Nat /\ r.confidential \in BOOLEAN
  BY DEF RequestSet
<1>2. Pages(r.memory_mb, "1G") \in Nat /\ Pages(r.memory_mb, "2M") \in Nat
  BY <1>1, PagesNat
<1>3. /\ Cpus[n] \in Nat /\ Total1g[n] \in Nat /\ Total2m[n] \in Nat
      /\ allocated_vcpus[n] \in Nat /\ allocated_1g_pages[n] \in Nat
      /\ allocated_2m_pages[n] \in Nat
      /\ allocated_vcpus[n] <= Cpus[n]
      /\ allocated_1g_pages[n] <= Total1g[n]
      /\ allocated_2m_pages[n] <= Total2m[n]
  BY NumaAssumption DEF CountersOK, WithinCapacity
<1>4. allocated_vcpus[n] + r.vcpus <= Cpus[n]
  BY <1>1, <1>3, SaturatingSubBound DEF Fits, CpusFit
<1>5. big \in Nat /\ small \in Nat
  BY <1>2 DEF PageSize
<1>6. allocated_1g_pages[n] + big <= Total1g[n]
  <2>1. CASE r.confidential /\ Fits1g(r, n)
    <3>1. big = Pages(r.memory_mb, "1G")
      BY <2>1 DEF PageSize
    <3>2. Pages(r.memory_mb, "1G") <= SaturatingSub(Total1g[n], allocated_1g_pages[n])
      BY <2>1 DEF Fits1g
    <3> QED BY <3>1, <3>2, <1>2, <1>3, SaturatingSubBound
  <2>2. CASE ~(r.confidential /\ Fits1g(r, n))
    BY <2>2, <1>3 DEF PageSize
  <2> QED BY <2>1, <2>2
<1>7. allocated_2m_pages[n] + small <= Total2m[n]
  <2>1. CASE r.confidential /\ ~Fits1g(r, n)
    BY <2>1, <1>2, <1>3, SaturatingSubBound DEF PageSize, Fits, Fits2m
  <2>2. CASE ~(r.confidential /\ ~Fits1g(r, n))
    BY <2>2, <1>3 DEF PageSize
  <2> QED BY <2>1, <2>2
<1>8. /\ allocated_vcpus' = [allocated_vcpus EXCEPT ![n] = @ + r.vcpus]
      /\ allocated_1g_pages' = [allocated_1g_pages EXCEPT ![n] = @ + big]
      /\ allocated_2m_pages' = [allocated_2m_pages EXCEPT ![n] = @ + small]
  BY DEF Take
<1> HIDE DEF big, small, pages, size
<1> QED
  BY <1>1, <1>3, <1>4, <1>5, <1>6, <1>7, <1>8 DEF CountersOK, WithinCapacity

\* release() keeps every counter within its capacity, whatever it is given.
LEMMA ReleaseKeepsCapacity ==
    ASSUME CountersOK, NEW r \in RequestSet, NEW n \in Nodes, NEW size,
           Release(r, n, size)
    PROVE  CountersOK'
<1> DEFINE pages == Pages(r.memory_mb, size)
           big == IF size = "1G" THEN pages ELSE 0
           small == IF size = "2M" THEN pages ELSE 0
<1>1. r.vcpus \in Nat /\ pages \in Nat
  BY PagesNat DEF RequestSet
<1>2. big \in Nat /\ small \in Nat
  BY <1>1
<1>3. /\ allocated_vcpus' = [allocated_vcpus EXCEPT ![n] = SaturatingSub(@, r.vcpus)]
      /\ allocated_1g_pages' = [allocated_1g_pages EXCEPT ![n] = SaturatingSub(@, big)]
      /\ allocated_2m_pages' = [allocated_2m_pages EXCEPT ![n] = SaturatingSub(@, small)]
  BY DEF Release
<1>4. /\ Cpus[n] \in Nat /\ Total1g[n] \in Nat /\ Total2m[n] \in Nat
      /\ allocated_vcpus[n] \in Nat /\ allocated_1g_pages[n] \in Nat
      /\ allocated_2m_pages[n] \in Nat
      /\ allocated_vcpus[n] <= Cpus[n]
      /\ allocated_1g_pages[n] <= Total1g[n]
      /\ allocated_2m_pages[n] <= Total2m[n]
  BY NumaAssumption DEF CountersOK, WithinCapacity
<1> HIDE DEF big, small, pages
<1>5. \A a, b, c \in Nat : a <= c => SaturatingSub(a, b) \in Nat /\ SaturatingSub(a, b) <= c
  BY DEF SaturatingSub
<1>6. /\ SaturatingSub(allocated_vcpus[n], r.vcpus) \in Nat
      /\ SaturatingSub(allocated_vcpus[n], r.vcpus) <= Cpus[n]
      /\ SaturatingSub(allocated_1g_pages[n], big) \in Nat
      /\ SaturatingSub(allocated_1g_pages[n], big) <= Total1g[n]
      /\ SaturatingSub(allocated_2m_pages[n], small) \in Nat
      /\ SaturatingSub(allocated_2m_pages[n], small) <= Total2m[n]
  BY <1>1, <1>2, <1>4, <1>5
<1> QED
  BY <1>3, <1>6 DEF CountersOK, WithinCapacity

IInv == TypeOK /\ WithinCapacity

\* The typed state and the bounded counters are preserved by every call.
LEMMA NextKeepsIInv == IInv /\ [Next]_vars => IInv'
<1> SUFFICES ASSUME IInv, [Next]_vars PROVE IInv'
  OBVIOUS
<1>0. CountersOK
  BY DEF IInv, TypeOK, CountersOK
<1>1. ASSUME NEW v \in Vms, NEW r \in Requests, NEW hint \in Nodes \cup {NoHint},
             Place(v, r, hint)
      PROVE  IInv'
  <2>1. r \in RequestSet
    BY NumaAssumption
  <2>2. PICK n \in Nodes :
           /\ IsFirstFit(r, hint, n)
           /\ Take(r, n)
           /\ vm' = [vm EXCEPT ![v] = [status |-> "placed", req |-> r, node |-> n,
                                       size |-> PageSize(r, n), saved |-> FALSE]]
    BY <1>1 DEF Place
  <2>3. Fits(r, n)
    BY <2>2 DEF IsFirstFit, Placeable
  <2>4. CountersOK'
    BY <1>0, <2>1, <2>2, <2>3, TakeKeepsCapacity
  <2>5. PageSize(r, n) \in {"2M", "1G"}
    BY DEF PageSize
  <2> QED
    BY <1>1, <2>1, <2>2, <2>4, <2>5 DEF IInv, TypeOK, CountersOK, Place, Status
<1>2. ASSUME NEW v \in Vms, Start(v) PROVE IInv'
  <2>1. PICK ok \in BOOLEAN :
           vm' = [vm EXCEPT ![v] = [@ EXCEPT !.status = "running", !.saved = ok]]
    BY <1>2 DEF Start
  <2>2. vm[v].node \in Nodes
    BY <1>2 DEF IInv, TypeOK, Start
  <2> QED
    BY <1>2, <2>1, <2>2 DEF IInv, TypeOK, WithinCapacity, Start, counters, Status
<1>3. ASSUME NEW v \in Vms, SpawnFails(v) PROVE IInv'
  <2>1. vm[v].req \in RequestSet /\ vm[v].node \in Nodes
    BY <1>3 DEF IInv, TypeOK, SpawnFails
  <2>2. CountersOK'
    BY <1>0, <1>3, <2>1, ReleaseKeepsCapacity DEF SpawnFails
  <2> QED
    BY <1>3, <2>2 DEF IInv, TypeOK, CountersOK, SpawnFails, NoVm, RequestSet, Status
<1>4. ASSUME NEW v \in Vms, Exit(v) PROVE IInv'
  BY <1>4 DEF IInv, TypeOK, WithinCapacity, Exit, counters
<1>5. ASSUME NEW v \in Vms, Delete(v) PROVE IInv'
  <2>1. vm[v].req \in RequestSet /\ vm[v].node \in Nodes
    BY <1>5 DEF IInv, TypeOK, Delete
  <2>2. CountersOK'
    BY <1>0, <1>5, <2>1, ReleaseKeepsCapacity DEF Delete
  <2> QED
    BY <1>5, <2>2 DEF IInv, TypeOK, CountersOK, Delete, NoVm, RequestSet, Status
<1>6. ASSUME NEW v \in Vms, RecoverRunning(v) PROVE IInv'
  <2>1. vm[v].req \in RequestSet /\ vm[v].node \in Nodes
    BY <1>6 DEF IInv, TypeOK, RecoverRunning
  <2>2. CountersOK'
    <3>1. CASE Fits(vm[v].req, vm[v].node)
      BY <3>1, <1>0, <1>6, <2>1, TakeKeepsCapacity DEF RecoverRunning
    <3>2. CASE ~Fits(vm[v].req, vm[v].node)
      BY <3>2, <1>0, <1>6 DEF RecoverRunning, CountersOK, WithinCapacity, counters
    <3> QED BY <3>1, <3>2
  <2> QED
    BY <1>6, <2>2 DEF IInv, TypeOK, CountersOK, RecoverRunning, Status
<1>7. ASSUME NEW v \in Vms, RecoverStopped(v) PROVE IInv'
  BY <1>7 DEF IInv, TypeOK, WithinCapacity, RecoverStopped, counters, Status
<1>8. CASE Restart
  <2>1. CountersOK'
    BY <1>8, NumaAssumption DEF Restart, CountersOK, WithinCapacity
  <2>2. restarts' \in 0..MaxRestarts
    BY <1>8, NumaAssumption DEF Restart, IInv, TypeOK
  <2>3. ASSUME NEW v \in Vms
        PROVE  LET w == IF vm[v].saved THEN [vm[v] EXCEPT !.status = "saved"] ELSE NoVm
               IN /\ w \in [status : Status, req : RequestSet, node : Nodes \cup {0},
                             size : {"2M", "1G"}, saved : BOOLEAN]
                  /\ w.status # "absent" \/ w.saved => w.node \in Nodes
    BY DEF IInv, TypeOK, NoVm, RequestSet, Status
  <2>4. /\ vm' \in [Vms -> [status : Status, req : RequestSet, node : Nodes \cup {0},
                             size : {"2M", "1G"}, saved : BOOLEAN]]
        /\ \A v \in Vms : vm'[v].status # "absent" \/ vm'[v].saved => vm'[v].node \in Nodes
    BY <1>8, <2>3 DEF Restart
  <2> QED
    BY <1>8, <2>1, <2>2, <2>4 DEF IInv, TypeOK, CountersOK, Restart
<1>9. CASE UNCHANGED vars
  BY <1>9 DEF IInv, TypeOK, WithinCapacity, vars, counters
<1> QED
  BY <1>1, <1>2, <1>3, <1>4, <1>5, <1>6, <1>7, <1>8, <1>9 DEF Next

\* Every reachable state of the allocator and its callers is well typed.
THEOREM TypeCorrect == Spec => []TypeOK
<1>1. Init => IInv
  BY NumaAssumption
  DEF Init, IInv, TypeOK, WithinCapacity, NoVm, RequestSet, Status
<1>2. IInv => TypeOK
  BY DEF IInv
<1> QED
  BY <1>1, <1>2, NextKeepsIInv, PTL DEF Spec

\* No sequence of allocate() and release() calls, restarts included, hands out
\* more vCPUs or pages of a node than the node has.
THEOREM CapacityRespected == Spec => []WithinCapacity
<1>1. Init => IInv
  BY NumaAssumption
  DEF Init, IInv, TypeOK, WithinCapacity, NoVm, RequestSet, Status
<1>2. IInv => WithinCapacity
  BY DEF IInv
<1> QED
  BY <1>1, <1>2, NextKeepsIInv, PTL DEF Spec
-----------------------------------------------------------------------------
(* The counters against the VMs that are there.  A sum is the number of     *)
(* elements of a set of units, so that what a VM adds or takes away is a    *)
(* union or a difference.                                                   *)

\* The units of finitely many VMs are finitely many.
LEMMA UnitsFinite ==
    ASSUME NEW S, IsFiniteSet(S), NEW a, \A v \in S : a[v] \in Nat
    PROVE  IsFiniteSet(Units(S, a)) /\ Cardinality(Units(S, a)) \in Nat
<1> DEFINE f == [v \in S |-> {v} \X (1..a[v])]
           T == {{v} \X (1..a[v]) : v \in S}
<1>1. f \in Surjection(S, T)
  BY DEF Surjection
<1>2. IsFiniteSet(T)
  BY <1>1, FS_Surjection
<1>3. ASSUME NEW v \in S PROVE IsFiniteSet({v} \X (1..a[v]))
  <2>1. 1 \in Int /\ a[v] \in Int
    OBVIOUS
  <2>2. IsFiniteSet(1..a[v])
    BY <2>1, FS_Interval
  <2> QED
    BY <2>2, FS_Singleton, FS_Product
<1>4. IsFiniteSet(UNION T)
  BY <1>2, <1>3, FS_UNION
<1> QED
  BY <1>4, FS_CardinalityType DEF Units

\* One more VM adds its amount.
LEMMA UnitsAdd ==
    ASSUME NEW S, IsFiniteSet(S), NEW a, \A v \in S : a[v] \in Nat,
           NEW u, u \notin S, a[u] \in Nat
    PROVE  Cardinality(Units(S \cup {u}, a)) = Cardinality(Units(S, a)) + a[u]
<1> DEFINE U == {u} \X (1..a[u])
<1>1. IsFiniteSet(U) /\ Cardinality(U) = a[u]
  <2>1. IsFiniteSet({u}) /\ Cardinality({u}) = 1
    BY FS_Singleton
  <2>2. IsFiniteSet(1..a[u]) /\ Cardinality(1..a[u]) = (IF 1 > a[u] THEN 0 ELSE a[u] - 1 + 1)
    BY FS_Interval
  <2>3. Cardinality(U) = 1 * Cardinality(1..a[u]) /\ IsFiniteSet(U)
    BY <2>1, <2>2, FS_Product
  <2> QED
    BY <2>2, <2>3
<1>2. Units(S \cup {u}, a) = Units(S, a) \cup U
  BY DEF Units
<1>3. Units(S, a) \cap U = {}
  BY DEF Units
<1>4. IsFiniteSet(Units(S, a)) /\ Cardinality(Units(S, a)) \in Nat
  BY UnitsFinite
<1>5. Cardinality(Units(S, a) \cup U) =
          Cardinality(Units(S, a)) + Cardinality(U) - Cardinality(Units(S, a) \cap U)
  BY <1>1, <1>4, FS_Union
<1>6. Cardinality(Units(S, a) \cap U) = 0
  BY <1>3, FS_EmptySet
<1>7. Cardinality(Units(S, a) \cup U) = Cardinality(Units(S, a)) + a[u]
  BY <1>1, <1>4, <1>5, <1>6
<1> QED
  BY <1>2, <1>7, Zenon

\* Only the amounts of the VMs that are counted matter.
LEMMA UnitsSame ==
    ASSUME NEW S, NEW a, NEW b, \A v \in S : a[v] = b[v]
    PROVE  Units(S, a) = Units(S, b)
BY DEF Units

\* A VM joins those that are counted; nothing changes for the others.
LEMMA SumAfterAdd ==
    ASSUME NEW S, IsFiniteSet(S), NEW u, u \notin S, NEW a, NEW b,
           \A v \in S : a[v] \in Nat /\ b[v] = a[v], b[u] \in Nat
    PROVE  Cardinality(Units(S \cup {u}, b)) = Cardinality(Units(S, a)) + b[u]
BY UnitsAdd, UnitsSame

\* A VM leaves those that are counted; nothing changes for the others.
LEMMA SumAfterRemove ==
    ASSUME NEW S, IsFiniteSet(S), NEW u \in S, NEW a, NEW b,
           \A v \in S : a[v] \in Nat, \A v \in S \ {u} : b[v] = a[v]
    PROVE  /\ Cardinality(Units(S, a)) = Cardinality(Units(S \ {u}, b)) + a[u]
           /\ Cardinality(Units(S \ {u}, b)) \in Nat
<1>1. IsFiniteSet(S \ {u}) /\ (S \ {u}) \cup {u} = S
  BY FS_RemoveElement
<1>2. Cardinality(Units(S, a)) = Cardinality(Units(S \ {u}, a)) + a[u]
  BY <1>1, UnitsAdd
<1>3. Units(S \ {u}, a) = Units(S \ {u}, b)
  BY UnitsSame
<1>4. Cardinality(Units(S \ {u}, a)) \in Nat
  BY <1>1, UnitsFinite
<1> QED
  BY <1>2, <1>3, <1>4

\* What is counted is finite, and every amount is a number.
LEMMA CountedFinite ==
    ASSUME TypeOK
    PROVE  /\ \A n \in Nodes : OnNode(n) \subseteq Vms /\ IsFiniteSet(OnNode(n))
           /\ \A v \in Vms : /\ VcpusOf[v] \in Nat
                             /\ PagesOf("1G")[v] \in Nat
                             /\ PagesOf("2M")[v] \in Nat
<1>1. \A n \in Nodes : OnNode(n) \subseteq Vms /\ IsFiniteSet(OnNode(n))
  BY NumaAssumption, FS_Subset DEF OnNode
<1>2. \A v \in Vms : vm[v].req.vcpus \in Nat /\ vm[v].req.memory_mb \in Nat
  BY DEF TypeOK, RequestSet
<1> QED
  BY <1>1, <1>2, PagesNat DEF VcpusOf, PagesOf

\* The amounts of a VM depend on that VM only.
LEMMA AmountsSame ==
    ASSUME NEW u \in Vms, vm'[u] = vm[u]
    PROVE  /\ VcpusOf'[u] = VcpusOf[u]
           /\ PagesOf("1G")'[u] = PagesOf("1G")[u]
           /\ PagesOf("2M")'[u] = PagesOf("2M")[u]
BY DEF VcpusOf, PagesOf

\* A node whose VMs stay as they are: no sum changes.
LEMMA NodeStays ==
    ASSUME TypeOK, NEW n \in Nodes, OnNode(n)' = OnNode(n), \A u \in OnNode(n) : vm'[u].req = vm[u].req /\ vm'[u].size = vm[u].size
    PROVE  /\ Vcpus(OnNode(n))' = Vcpus(OnNode(n))
           /\ UsedPages(OnNode(n), "1G")' = UsedPages(OnNode(n), "1G")
           /\ UsedPages(OnNode(n), "2M")' = UsedPages(OnNode(n), "2M")
<1>1. \A u \in OnNode(n) : u \in Vms
  BY CountedFinite
<1>2. \A u \in OnNode(n) : /\ VcpusOf'[u] = VcpusOf[u]
                           /\ PagesOf("1G")'[u] = PagesOf("1G")[u]
                           /\ PagesOf("2M")'[u] = PagesOf("2M")[u]
  BY <1>1 DEF VcpusOf, PagesOf
<1>3. /\ Units(OnNode(n), VcpusOf') = Units(OnNode(n), VcpusOf)
      /\ Units(OnNode(n), PagesOf("1G")') = Units(OnNode(n), PagesOf("1G"))
      /\ Units(OnNode(n), PagesOf("2M")') = Units(OnNode(n), PagesOf("2M"))
  BY <1>2, UnitsSame
<1> QED
  BY <1>3 DEF Vcpus, UsedPages

\* A VM comes to a node: the sums grow by its amounts.
LEMMA NodeGrows ==
    ASSUME TypeOK, TypeOK', NEW n \in Nodes, NEW v \in Vms, v \notin OnNode(n),
           OnNode(n)' = OnNode(n) \cup {v}, \A u \in Vms \ {v} : vm'[u] = vm[u]
    PROVE  /\ Vcpus(OnNode(n))' = Vcpus(OnNode(n)) + VcpusOf'[v]
           /\ UsedPages(OnNode(n), "1G")' = UsedPages(OnNode(n), "1G") + PagesOf("1G")'[v]
           /\ UsedPages(OnNode(n), "2M")' = UsedPages(OnNode(n), "2M") + PagesOf("2M")'[v]
<1>1. /\ IsFiniteSet(OnNode(n)) /\ OnNode(n) \subseteq Vms
      /\ \A u \in Vms : VcpusOf[u] \in Nat /\ PagesOf("1G")[u] \in Nat /\ PagesOf("2M")[u] \in Nat
  BY CountedFinite
<1>2. VcpusOf'[v] \in Nat /\ PagesOf("1G")'[v] \in Nat /\ PagesOf("2M")'[v] \in Nat
  <2>1. vm'[v].req.vcpus \in Nat /\ vm'[v].req.memory_mb \in Nat
    BY DEF TypeOK, RequestSet
  <2> QED
    BY <2>1, PagesNat DEF VcpusOf, PagesOf
<1>3. \A u \in OnNode(n) : /\ VcpusOf'[u] = VcpusOf[u]
                           /\ PagesOf("1G")'[u] = PagesOf("1G")[u]
                           /\ PagesOf("2M")'[u] = PagesOf("2M")[u]
  BY <1>1, AmountsSame
<1>5. Cardinality(Units(OnNode(n) \cup {v}, VcpusOf')) =
          Cardinality(Units(OnNode(n), VcpusOf)) + VcpusOf'[v]
  <2>1. \A u \in OnNode(n) : VcpusOf[u] \in Nat /\ VcpusOf'[u] = VcpusOf[u]
    BY <1>1, <1>3
  <2>2. IsFiniteSet(OnNode(n)) /\ v \notin OnNode(n) /\ VcpusOf'[v] \in Nat
    BY <1>1, <1>2
  <2> QED
    BY <2>1, <2>2, SumAfterAdd
<1>6. Cardinality(Units(OnNode(n) \cup {v}, PagesOf("1G")')) =
          Cardinality(Units(OnNode(n), PagesOf("1G"))) + PagesOf("1G")'[v]
  <2>1. \A u \in OnNode(n) : PagesOf("1G")[u] \in Nat /\ PagesOf("1G")'[u] = PagesOf("1G")[u]
    BY <1>1, <1>3
  <2>2. IsFiniteSet(OnNode(n)) /\ v \notin OnNode(n) /\ PagesOf("1G")'[v] \in Nat
    BY <1>1, <1>2
  <2> QED
    BY <2>1, <2>2, SumAfterAdd
<1>7. Cardinality(Units(OnNode(n) \cup {v}, PagesOf("2M")')) =
          Cardinality(Units(OnNode(n), PagesOf("2M"))) + PagesOf("2M")'[v]
  <2>1. \A u \in OnNode(n) : PagesOf("2M")[u] \in Nat /\ PagesOf("2M")'[u] = PagesOf("2M")[u]
    BY <1>1, <1>3
  <2>2. IsFiniteSet(OnNode(n)) /\ v \notin OnNode(n) /\ PagesOf("2M")'[v] \in Nat
    BY <1>1, <1>2
  <2> QED
    BY <2>1, <2>2, SumAfterAdd
<1> QED
  BY <1>5, <1>6, <1>7 DEF Vcpus, UsedPages

\* A VM leaves a node: the sums shrink by its amounts.
LEMMA NodeShrinks ==
    ASSUME TypeOK, NEW n \in Nodes, NEW v \in OnNode(n),
           OnNode(n)' = OnNode(n) \ {v}, \A u \in Vms \ {v} : vm'[u] = vm[u]
    PROVE  /\ Vcpus(OnNode(n)) = Vcpus(OnNode(n))' + VcpusOf[v]
           /\ UsedPages(OnNode(n), "1G") = UsedPages(OnNode(n), "1G")' + PagesOf("1G")[v]
           /\ UsedPages(OnNode(n), "2M") = UsedPages(OnNode(n), "2M")' + PagesOf("2M")[v]
           /\ Vcpus(OnNode(n))' \in Nat
           /\ UsedPages(OnNode(n), "1G")' \in Nat
           /\ UsedPages(OnNode(n), "2M")' \in Nat
<1>1. /\ IsFiniteSet(OnNode(n)) /\ OnNode(n) \subseteq Vms
      /\ \A u \in OnNode(n) : VcpusOf[u] \in Nat /\ PagesOf("1G")[u] \in Nat /\ PagesOf("2M")[u] \in Nat
  BY CountedFinite
<1>3. \A u \in OnNode(n) \ {v} : /\ VcpusOf'[u] = VcpusOf[u]
                                 /\ PagesOf("1G")'[u] = PagesOf("1G")[u]
                                 /\ PagesOf("2M")'[u] = PagesOf("2M")[u]
  BY <1>1, AmountsSame
<1>5. /\ Cardinality(Units(OnNode(n), VcpusOf)) =
            Cardinality(Units(OnNode(n) \ {v}, VcpusOf')) + VcpusOf[v]
      /\ Cardinality(Units(OnNode(n) \ {v}, VcpusOf')) \in Nat
  BY <1>1, <1>3, SumAfterRemove
<1>6. /\ Cardinality(Units(OnNode(n), PagesOf("1G"))) =
            Cardinality(Units(OnNode(n) \ {v}, PagesOf("1G")')) + PagesOf("1G")[v]
      /\ Cardinality(Units(OnNode(n) \ {v}, PagesOf("1G")')) \in Nat
  BY <1>1, <1>3, SumAfterRemove
<1>7. /\ Cardinality(Units(OnNode(n), PagesOf("2M"))) =
            Cardinality(Units(OnNode(n) \ {v}, PagesOf("2M")')) + PagesOf("2M")[v]
      /\ Cardinality(Units(OnNode(n) \ {v}, PagesOf("2M")')) \in Nat
  BY <1>1, <1>3, SumAfterRemove
<1> QED
  BY <1>5, <1>6, <1>7 DEF Vcpus, UsedPages

\* Before the first restart nobody is recovered, only confidential VMs have 1G
\* pages, and the counters are the sums over the VMs that are there; of the 2M
\* pages, which release() also takes off for VMs that had none, at most that.
CountsExact(n) ==
    /\ allocated_vcpus[n] = Vcpus(OnNode(n))
    /\ allocated_1g_pages[n] = UsedPages(OnNode(n), "1G")
    /\ allocated_2m_pages[n] <= UsedPages(OnNode(n), "2M")

ExactInv ==
    restarts = 0 =>
        /\ \A v \in Vms : vm[v].status \in {"absent", "placed", "running"}
        /\ \A v \in Vms : vm[v].size = "1G" => vm[v].req.confidential
        /\ \A n \in Nodes : CountsExact(n)

\* allocate() for a VM that was not there.
LEMMA PlaceExact ==
    ASSUME IInv, IInv', ExactInv, NEW v \in Vms, NEW r \in Requests,
           NEW hint \in Nodes \cup {NoHint}, Place(v, r, hint)
    PROVE  ExactInv'
<1> SUFFICES ASSUME restarts = 0
             PROVE  /\ \A u \in Vms : vm'[u].status \in {"absent", "placed", "running"}
                    /\ \A u \in Vms : vm'[u].size = "1G" => vm'[u].req.confidential
                    /\ \A m \in Nodes : CountsExact(m)'
  BY DEF ExactInv, Place
<1>1. vm[v].status = "absent" /\ TypeOK /\ TypeOK'
  BY DEF Place, IInv
<1>2. PICK n \in Nodes :
         /\ Take(r, n)
         /\ vm' = [vm EXCEPT ![v] = [status |-> "placed", req |-> r, node |-> n,
                                     size |-> PageSize(r, n), saved |-> FALSE]]
  BY DEF Place
<1> DEFINE one == IF PageSize(r, n) = "1G" THEN Pages(r.memory_mb, "1G") ELSE 0
           two == IF PageSize(r, n) = "2M" /\ r.confidential THEN Pages(r.memory_mb, "2M") ELSE 0
<1>3. r \in RequestSet /\ r.vcpus \in Nat /\ r.memory_mb \in Nat /\ r.confidential \in BOOLEAN
  BY NumaAssumption DEF RequestSet
<1>4. PageSize(r, n) \in {"1G", "2M"} /\ (PageSize(r, n) = "1G" => r.confidential)
  BY DEF PageSize
<1>5. /\ vm'[v].status = "placed" /\ vm'[v].req = r /\ vm'[v].node = n
      /\ vm'[v].size = PageSize(r, n)
      /\ \A u \in Vms \ {v} : vm'[u] = vm[u]
  BY <1>1, <1>2 DEF TypeOK
<1>6. one \in Nat /\ two \in Nat
  BY <1>3, PagesNat
<1>7. /\ allocated_vcpus' = [allocated_vcpus EXCEPT ![n] = @ + r.vcpus]
      /\ allocated_1g_pages' = [allocated_1g_pages EXCEPT ![n] = @ + one]
      /\ allocated_2m_pages' = [allocated_2m_pages EXCEPT ![n] = @ + two]
  BY <1>2, <1>4 DEF Take
<1>8. /\ OnNode(n)' = OnNode(n) \cup {v}
      /\ v \notin OnNode(n)
      /\ \A m \in Nodes \ {n} : OnNode(m)' = OnNode(m) /\ v \notin OnNode(m)
  BY <1>1, <1>5 DEF OnNode
<1>9. VcpusOf'[v] = r.vcpus /\ PagesOf("1G")'[v] = one /\ PagesOf("2M")'[v] = two
  BY <1>3, <1>4, <1>5 DEF VcpusOf, PagesOf
<1> HIDE DEF one, two
<1>10. ASSUME NEW m \in Nodes \ {n} PROVE CountsExact(m)'
  <2>1. \A u \in OnNode(m) : vm'[u].req = vm[u].req /\ vm'[u].size = vm[u].size
    BY <1>5, <1>8 DEF OnNode
  <2>2. /\ Vcpus(OnNode(m))' = Vcpus(OnNode(m))
        /\ UsedPages(OnNode(m), "1G")' = UsedPages(OnNode(m), "1G")
        /\ UsedPages(OnNode(m), "2M")' = UsedPages(OnNode(m), "2M")
    BY <1>1, <1>8, <2>1, NodeStays
  <2>3. /\ allocated_vcpus'[m] = allocated_vcpus[m]
        /\ allocated_1g_pages'[m] = allocated_1g_pages[m]
        /\ allocated_2m_pages'[m] = allocated_2m_pages[m]
    BY <1>1, <1>7 DEF TypeOK
  <2> QED
    BY <2>2, <2>3 DEF ExactInv, CountsExact
<1>11. CountsExact(n)'
  <2>1. /\ Vcpus(OnNode(n))' = Vcpus(OnNode(n)) + r.vcpus
        /\ UsedPages(OnNode(n), "1G")' = UsedPages(OnNode(n), "1G") + one
        /\ UsedPages(OnNode(n), "2M")' = UsedPages(OnNode(n), "2M") + two
    BY <1>1, <1>5, <1>8, <1>9, NodeGrows
  <2>2. UsedPages(OnNode(n), "2M") \in Nat
    <3>1. IsFiniteSet(OnNode(n)) /\ \A u \in OnNode(n) : PagesOf("2M")[u] \in Nat
      BY <1>1, CountedFinite
    <3> QED
      BY <3>1, UnitsFinite DEF UsedPages
  <2>3. /\ allocated_vcpus'[n] = allocated_vcpus[n] + r.vcpus
        /\ allocated_1g_pages'[n] = allocated_1g_pages[n] + one
        /\ allocated_2m_pages'[n] = allocated_2m_pages[n] + two
        /\ allocated_2m_pages[n] \in Nat
    BY <1>1, <1>7 DEF TypeOK
  <2>4. CountsExact(n)
    BY DEF ExactInv
  <2> QED
    BY <1>6, <2>1, <2>2, <2>3, <2>4 DEF CountsExact
<1>12. \A u \in Vms : /\ vm'[u].status \in {"absent", "placed", "running"}
                      /\ vm'[u].size = "1G" => vm'[u].req.confidential
  BY <1>4, <1>5 DEF ExactInv
<1> QED
  BY <1>10, <1>11, <1>12

\* release() for a VM that was placed and is no more.
LEMMA ReleaseExact ==
    ASSUME IInv, ExactInv, NEW v \in Vms, vm[v].status \in {"placed", "running"},
           Release(vm[v].req, vm[v].node, vm[v].size), vm' = [vm EXCEPT ![v] = NoVm],
           UNCHANGED restarts
    PROVE  ExactInv'
<1> SUFFICES ASSUME restarts = 0
             PROVE  /\ \A u \in Vms : vm'[u].status \in {"absent", "placed", "running"}
                    /\ \A u \in Vms : vm'[u].size = "1G" => vm'[u].req.confidential
                    /\ \A m \in Nodes : CountsExact(m)'
  BY DEF ExactInv
<1> DEFINE r == vm[v].req
           pages == Pages(r.memory_mb, vm[v].size)
           big == IF vm[v].size = "1G" THEN pages ELSE 0
           small == IF vm[v].size = "2M" THEN pages ELSE 0
<1>0. PICK n \in Nodes : n = vm[v].node
  BY DEF IInv, TypeOK
<1>1. TypeOK /\ r \in RequestSet /\ vm[v].size \in {"1G", "2M"}
  BY DEF IInv, TypeOK
<1>2. r.vcpus \in Nat /\ r.memory_mb \in Nat /\ r.confidential \in BOOLEAN
  BY <1>1 DEF RequestSet
<1>3. pages \in Nat /\ big \in Nat /\ small \in Nat
  BY <1>2, PagesNat
<1>4. vm'[v] = NoVm /\ \A u \in Vms \ {v} : vm'[u] = vm[u]
  BY <1>1 DEF TypeOK
<1>5. /\ OnNode(n)' = OnNode(n) \ {v}
      /\ v \in OnNode(n)
      /\ \A m \in Nodes \ {n} : OnNode(m)' = OnNode(m) /\ v \notin OnNode(m)
  BY <1>0, <1>4 DEF OnNode, NoVm
<1>6. /\ allocated_vcpus' = [allocated_vcpus EXCEPT ![n] = SaturatingSub(@, r.vcpus)]
      /\ allocated_1g_pages' = [allocated_1g_pages EXCEPT ![n] = SaturatingSub(@, big)]
      /\ allocated_2m_pages' = [allocated_2m_pages EXCEPT ![n] = SaturatingSub(@, small)]
  BY <1>0 DEF Release
<1>7. /\ VcpusOf[v] = r.vcpus
      /\ PagesOf("1G")[v] = big
      /\ PagesOf("2M")[v] \in {0, small}
  BY <1>1 DEF VcpusOf, PagesOf, ExactInv
<1> HIDE DEF r, pages, big, small
<1>8. ASSUME NEW m \in Nodes \ {n} PROVE CountsExact(m)'
  <2>1. \A u \in OnNode(m) : vm'[u].req = vm[u].req /\ vm'[u].size = vm[u].size
    BY <1>4, <1>5 DEF OnNode
  <2>2. /\ Vcpus(OnNode(m))' = Vcpus(OnNode(m))
        /\ UsedPages(OnNode(m), "1G")' = UsedPages(OnNode(m), "1G")
        /\ UsedPages(OnNode(m), "2M")' = UsedPages(OnNode(m), "2M")
    BY <1>1, <1>5, <2>1, NodeStays
  <2>3. /\ allocated_vcpus'[m] = allocated_vcpus[m]
        /\ allocated_1g_pages'[m] = allocated_1g_pages[m]
        /\ allocated_2m_pages'[m] = allocated_2m_pages[m]
    BY <1>1, <1>6 DEF TypeOK
  <2> QED
    BY <2>2, <2>3 DEF ExactInv, CountsExact
<1>9. CountsExact(n)'
  <2>1. /\ Vcpus(OnNode(n)) = Vcpus(OnNode(n))' + r.vcpus
        /\ UsedPages(OnNode(n), "1G") = UsedPages(OnNode(n), "1G")' + big
        /\ UsedPages(OnNode(n), "2M") = UsedPages(OnNode(n), "2M")' + PagesOf("2M")[v]
        /\ Vcpus(OnNode(n))' \in Nat
        /\ UsedPages(OnNode(n), "1G")' \in Nat
        /\ UsedPages(OnNode(n), "2M")' \in Nat
    BY <1>1, <1>4, <1>5, <1>7, NodeShrinks
  <2>2. /\ allocated_vcpus'[n] = SaturatingSub(allocated_vcpus[n], r.vcpus)
        /\ allocated_1g_pages'[n] = SaturatingSub(allocated_1g_pages[n], big)
        /\ allocated_2m_pages'[n] = SaturatingSub(allocated_2m_pages[n], small)
        /\ allocated_2m_pages[n] \in Nat
    BY <1>1, <1>6 DEF TypeOK
  <2>3. CountsExact(n)
    BY <1>1 DEF ExactInv
  <2>4. \A a, b \in Nat : SaturatingSub(a + b, b) = a
    BY DEF SaturatingSub
  <2>5. allocated_vcpus'[n] = Vcpus(OnNode(n))'
    <3>1. allocated_vcpus[n] = Vcpus(OnNode(n))' + r.vcpus
      BY <2>1, <2>3 DEF CountsExact
    <3>2. Vcpus(OnNode(n))' \in Nat /\ r.vcpus \in Nat
      BY <1>2, <2>1
    <3>3. SaturatingSub(Vcpus(OnNode(n))' + r.vcpus, r.vcpus) = Vcpus(OnNode(n))'
      BY <2>4, <3>2
    <3> QED
      BY <2>2, <3>1, <3>3
  <2>6. allocated_1g_pages'[n] = UsedPages(OnNode(n), "1G")'
    BY <1>3, <2>1, <2>2, <2>3, <2>4 DEF CountsExact
  <2>7. allocated_2m_pages'[n] <= UsedPages(OnNode(n), "2M")'
    BY <1>3, <1>7, <2>1, <2>2, <2>3 DEF CountsExact, SaturatingSub
  <2> QED
    BY <2>5, <2>6, <2>7 DEF CountsExact
<1>10. \A u \in Vms : /\ vm'[u].status \in {"absent", "placed", "running"}
                      /\ vm'[u].size = "1G" => vm'[u].req.confidential
  BY <1>4 DEF ExactInv, NoVm
<1> QED
  BY <1>8, <1>9, <1>10

\* A step that charges nobody and moves nobody.
LEMMA NobodyMoves ==
    ASSUME IInv, ExactInv, UNCHANGED <<counters, restarts>>,
           \A u \in Vms : /\ vm'[u].req = vm[u].req /\ vm'[u].size = vm[u].size
                          /\ vm'[u].node = vm[u].node
                          /\ \/ vm'[u].status = vm[u].status
                             \/ vm[u].status = "placed" /\ vm'[u].status = "running"
    PROVE  ExactInv'
<1> SUFFICES ASSUME restarts = 0
             PROVE  /\ \A u \in Vms : vm'[u].status \in {"absent", "placed", "running"}
                    /\ \A u \in Vms : vm'[u].size = "1G" => vm'[u].req.confidential
                    /\ \A m \in Nodes : CountsExact(m)'
  BY DEF ExactInv
<1>1. \A m \in Nodes : OnNode(m)' = OnNode(m) /\ OnNode(m) \subseteq Vms
  BY DEF OnNode
<1>2. ASSUME NEW m \in Nodes PROVE CountsExact(m)'
  <2>1. /\ Vcpus(OnNode(m))' = Vcpus(OnNode(m))
        /\ UsedPages(OnNode(m), "1G")' = UsedPages(OnNode(m), "1G")
        /\ UsedPages(OnNode(m), "2M")' = UsedPages(OnNode(m), "2M")
    BY <1>1, NodeStays DEF IInv
  <2> QED
    BY <2>1 DEF ExactInv, CountsExact, counters
<1> QED
  BY <1>2 DEF ExactInv

LEMMA InitExact == Init => ExactInv
<1> SUFFICES ASSUME Init PROVE ExactInv
  OBVIOUS
<1>1. \A n \in Nodes : OnNode(n) = {}
  BY DEF Init, OnNode, NoVm
<1>2. \A a : Units({}, a) = {}
  BY DEF Units
<1>3. \A n \in Nodes : CountsExact(n)
  BY <1>1, <1>2, FS_EmptySet DEF Init, CountsExact, Vcpus, UsedPages
<1> QED
  BY <1>3 DEF Init, ExactInv, NoVm

LEMMA NextExact == IInv /\ ExactInv /\ [Next]_vars => ExactInv'
<1> SUFFICES ASSUME IInv, ExactInv, [Next]_vars PROVE ExactInv'
  OBVIOUS
<1>0. IInv' /\ TypeOK
  BY NextKeepsIInv DEF IInv
<1>1. ASSUME NEW v \in Vms, NEW r \in Requests, NEW hint \in Nodes \cup {NoHint},
             Place(v, r, hint)
      PROVE  ExactInv'
  BY <1>0, <1>1, PlaceExact
<1>2. ASSUME NEW v \in Vms, Start(v) PROVE ExactInv'
  <2>1. PICK ok \in BOOLEAN :
           vm' = [vm EXCEPT ![v] = [@ EXCEPT !.status = "running", !.saved = ok]]
    BY <1>2 DEF Start
  <2>2. \A u \in Vms : /\ vm'[u].req = vm[u].req /\ vm'[u].size = vm[u].size
                       /\ vm'[u].node = vm[u].node
                       /\ \/ vm'[u].status = vm[u].status
                          \/ vm[u].status = "placed" /\ vm'[u].status = "running"
    BY <1>0, <1>2, <2>1 DEF Start, TypeOK
  <2> QED
    BY <1>2, <2>2, NobodyMoves DEF Start
<1>3. ASSUME NEW v \in Vms, SpawnFails(v) PROVE ExactInv'
  BY <1>3, ReleaseExact DEF SpawnFails
<1>4. ASSUME NEW v \in Vms, Exit(v) PROVE ExactInv'
  BY <1>4, NobodyMoves DEF Exit
<1>5. ASSUME NEW v \in Vms, Delete(v) PROVE ExactInv'
  <2>1. CASE restarts = 0
    BY <1>5, <2>1, ReleaseExact DEF Delete, ExactInv
  <2>2. CASE restarts # 0
    BY <1>5, <2>2 DEF Delete, ExactInv
  <2> QED
    BY <2>1, <2>2
<1>6. ASSUME NEW v \in Vms, RecoverRunning(v) PROVE ExactInv'
  BY <1>6 DEF RecoverRunning, ExactInv
<1>7. ASSUME NEW v \in Vms, RecoverStopped(v) PROVE ExactInv'
  BY <1>7 DEF RecoverStopped, ExactInv
<1>8. CASE Restart
  BY <1>0, <1>8 DEF Restart, ExactInv, TypeOK
<1>9. CASE UNCHANGED vars
  BY <1>9, NobodyMoves DEF vars
<1> QED
  BY <1>1, <1>2, <1>3, <1>4, <1>5, <1>6, <1>7, <1>8, <1>9 DEF Next

LEMMA ExactAlways == Spec => [](IInv /\ ExactInv)
<1>1. Init => IInv
  BY NumaAssumption
  DEF Init, IInv, TypeOK, WithinCapacity, NoVm, RequestSet, Status
<1> QED
  BY <1>1, InitExact, NextKeepsIInv, NextExact, PTL DEF Spec

\* Until the first restart the vCPU counter of a node is exactly the sum over
\* the VMs placed there, and they fit its CPUs: allocate(), release() and the
\* failure path of create_vm balance, on every topology (numa.rs, manager.rs).
THEOREM VcpusBalance == Spec => []VcpusExact
<1>1. IInv /\ ExactInv => VcpusExact
  BY DEF IInv, ExactInv, CountsExact, VcpusExact, WithinCapacity
<1> QED
  BY <1>1, ExactAlways, PTL

\* The same for the 1G pages, whichever pool a VM's pages came from.
THEOREM GigapagesBalance == Spec => []GigapagesExact
<1>1. IInv /\ ExactInv => GigapagesExact
  BY DEF IInv, ExactInv, CountsExact, GigapagesExact, WithinCapacity
<1> QED
  BY <1>1, ExactAlways, PTL

\* Until the first restart the 2M pages that count as taken are no more than
\* those that VMs use: release() never forgets one.
THEOREM SmallPagesReturn == Spec => []NoSmallPageLost
<1>1. ExactInv => NoSmallPageLost
  BY DEF ExactInv, CountsExact, NoSmallPageLost
<1> QED
  BY <1>1, ExactAlways, PTL
=============================================================================
