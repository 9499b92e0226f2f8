------------------------------ MODULE Hugepages ------------------------------
(***************************************************************************)
(* allocate_hugepages at the start of the compute node: 2 MiB pages for     *)
(* each NUMA node, out of what the headroom and the 1 GiB pages leave of    *)
(* its memory.  NumaTopology::detect has read the pool of 2 MiB pages that  *)
(* the host already has, which the program changes only where it has a      *)
(* budget.  Amounts are u32 in MB: a sum or product wraps at Word, and      *)
(* saturating_sub stops at 0.                                               *)
(***************************************************************************)
EXTENDS Integers, Sequences, FiniteSets

CONSTANTS
    Hosts,       \* the hosts looked at: sequences of NUMA nodes [ram, gpages, spages]
    Headrooms,   \* values of the headroom option, in MB
    Limits,      \* values of the limit option, in MB
    NoLimit,     \* the option was not given
    Word,        \* 2^32
    MbPerGb      \* 1024

\* What detect reads of a node: its memory, and its pages of 1 GiB and 2 MiB.
NumaNodes == [ram : 0..Word - 1, gpages : Nat, spages : Nat]

\* A node's 1 GiB pages are part of its memory, and its memory fits a u32.
ASSUME HugepagesAssumption ==
    /\ Word \in Nat \ {0} /\ MbPerGb \in Nat \ {0}
    /\ Headrooms \subseteq Nat /\ Limits \subseteq Nat
    /\ Hosts \subseteq Seq(NumaNodes)
    /\ \A h \in Hosts : \A i \in 1..Len(h) : h[i].gpages * MbPerGb <= h[i].ram

VARIABLES
    host,       \* the topology
    headroom,
    limit,
    next,       \* the node the loop is at
    pool,       \* the kernel's nr_hugepages of each node
    pages,      \* total_2m_hugepages of each node
    tried,      \* nodes with a budget, and those of them that failed
    failed

pageVars == <<host, headroom, limit, next, pool, pages, tried, failed>>

PagesInit ==
    /\ host \in Hosts
    /\ headroom \in Headrooms
    /\ limit \in Limits \cup {NoLimit}
    /\ next = 1
    /\ pool = [i \in 1..Len(host) |-> host[i].spages]
    /\ pages = [i \in 1..Len(host) |-> host[i].spages]
    /\ tried = {}
    /\ failed = {}

saturating_sub(a, b) == IF a >= b THEN a - b ELSE 0
Least(a, b) == IF a <= b THEN a ELSE b
Most(a, b) == IF a <= b THEN b ELSE a

\* The memory of all nodes, megabyte by megabyte; its size is the sum.
AllRam == {m \in (1..Len(host)) \X (1..Word) : m[2] <= host[m[1]].ram}

\* The cap per node, from the limit or from the sum of the nodes' memory.
PerNodeCap ==
    (IF limit = NoLimit THEN Cardinality(AllRam) % Word ELSE limit) \div Len(host)

\* Mutant: the pages of 1 GiB are left out.
BudgetIgnoring1g(ram, gpages, cap) ==
    Least(cap, saturating_sub(ram, headroom)) \div 2

compute_2m_budget(ram, gpages, cap) ==
    saturating_sub(Least(cap, saturating_sub(ram, headroom)), (gpages * MbPerGb) % Word) \div 2

Desired(i) == compute_2m_budget(host[i].ram, host[i].gpages, PerNodeCap)

\* A node without a budget keeps the pool it has.
NoBudget ==
    /\ next <= Len(host)
    /\ Desired(next) = 0
    /\ next' = next + 1
    /\ UNCHANGED <<host, headroom, limit, pool, pages, tried, failed>>

\* What the kernel makes of the count it is asked for: it adds as many pages
\* as it finds memory for, and gives back those that no VM uses.
Granted(i) == Least(Desired(i), pool[i])..Most(Desired(i), pool[i])

\* The count is written and read back.
AllocateOnNode ==
    /\ next <= Len(host)
    /\ Desired(next) > 0
    /\ \E actual \in Granted(next) :
          /\ pool' = [pool EXCEPT ![next] = actual]
          /\ pages' = [pages EXCEPT ![next] = actual]
    /\ tried' = tried \cup {next}
    /\ next' = next + 1
    /\ UNCHANGED <<host, headroom, limit, failed>>

\* The write fails, or it works and the count cannot be read back: the
\* topology keeps what was detected.
AllocateFails ==
    /\ next <= Len(host)
    /\ Desired(next) > 0
    /\ \E actual \in {pool[next]} \cup Granted(next) : pool' = [pool EXCEPT ![next] = actual]
    /\ tried' = tried \cup {next}
    /\ failed' = failed \cup {next}
    /\ next' = next + 1
    /\ UNCHANGED <<host, headroom, limit, pages>>

PagesNext == NoBudget \/ AllocateOnNode \/ AllocateFails

-----------------------------------------------------------------------------
(* Properties *)

\* A pool that the program has made larger leaves the headroom of its node free
\* beside the pages of both sizes, and stays within the node's share of the
\* limit, for every topology; a pool that was there before, with or without
\* room for the headroom, is only ever made smaller or left alone.  And the
\* NUMA allocator is told of the pool as it is, but for the nodes that failed.
PagesLeaveHeadroom ==
    \A i \in 1..Len(host) :
        /\ pool[i] > host[i].spages =>
              /\ 2 * pool[i] + host[i].gpages * MbPerGb + headroom <= host[i].ram
              /\ limit # NoLimit =>
                    2 * pool[i] + host[i].gpages * MbPerGb <= limit \div Len(host)
        /\ i \notin failed => pages[i] = pool[i]

=============================================================================
