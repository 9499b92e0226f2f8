--------------------------- MODULE MCNodeServices ---------------------------
(* An instance of NodeServices for TLC. *)
EXTENDS NodeServices, TLC

\* Nothing orders the processes that verify reports.
Symmetry == Permutations(Verifiers)

\* Another node's registration and an operation of another kind are there;
\* this node's registration and a second one of the same URL may follow.
Post(h, action, at) == [hash |-> h, action |-> action, address |-> [host |-> at, text |-> h]]
MCPublished == {Post("elsewhere", "create-resource-node", "other"),
                Post("amended", "create-node", "node")}
MCPosts == {Post("found", "create-resource-node", "node"),
            Post("second", "create-resource-node", "node")}

\* A word of 5 bits, and 4 MB to the GB.  Of the pages of 2 MB that a host has
\* already there may be none, some, or as many as its memory holds.
NumaNode(ram, gpages, spages) == [ram |-> ram, gpages |-> gpages, spages |-> spages]
MCNode  == {n \in {NumaNode(r, g, s) : r \in {0, 4, 7, 15, 20, 31}, g \in 0..2, s \in {0, 3, 9}} :
               n.gpages * 4 + n.spages * 2 <= n.ram}
MCHosts == {<<n>> : n \in MCNode} \cup
           {<<n, m>> : n \in {NumaNode(31, 1, 9), NumaNode(7, 0, 0)}, m \in MCNode}

\* A chain of certificates that are not AMD's, under AMD's names and under
\* others, and a VCEK below both.
MCNamedRoot  == Cert("fARK", "fARK", TRUE)
MCOtherRoot  == Cert("oARK", "oARK", FALSE)
MCForeignAsk(root) == Cert("fASK", root.key, FALSE)
MCForeignVcek == Cert("fchip", "fASK", FALSE)
MCForeign == {MCNamedRoot, MCOtherRoot, MCForeignVcek} \cup
             {MCForeignAsk(r) : r \in {MCNamedRoot, MCOtherRoot}}
MCChains == {<<ASK, ARK>>, <<ASK>>} \cup
            {<<MCForeignAsk(r), r>> : r \in {MCNamedRoot, MCOtherRoot}}
MCVceks == {VCEK("chip1"), VCEK("chip2"), MCForeignVcek}

\* A genuine report, one that another chip signed at an unprivileged level, and
\* one that a foreign key signed.
Report(id, signer, vmpl) == [id |-> id, signer |-> signer, vmpl |-> vmpl]
MCReports == {Report("chip1", "chip1", 1), Report("chip1", "chip2", 2), Report("chip1", "fchip", 0)}

\* Addresses of 5 bits and a pool of the upper half; offsets are drawn from its
\* first half.  Ranges of every size are asked for, with and without host bits,
\* some of them wider than the pool or outside.
Net(addr, len) == [addr |-> addr, len |-> len]
MCPool == Net(18, 1)
MCRequested == {Net(a, 5) : a \in {15, 16, 20, 31}} \cup {Net(a, 3) : a \in {8, 21, 28}} \cup
               {Net(24, 2), Net(16, 1), Net(0, 0)}
=============================================================================
