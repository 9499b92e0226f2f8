------------------------------ MODULE KdsCache ------------------------------
(***************************************************************************)
(* Verification of SEV-SNP reports: verify_sev_snp_report fetches the VCEK  *)
(* of the report's chip and TCB version and the ASK and ARK of the product, *)
(* from files or from AMD's key distribution service, and checks the chain  *)
(* and the report's signature.  What the service answers goes into the      *)
(* files before it is checked.  Several clients share the files; each       *)
(* file is truncated and then written.                                      *)
(*                                                                          *)
(* A certificate is its key, the key it is signed with, and whether it has  *)
(* the names of an AMD root.  Signatures are taken as unforgeable: verifying *)
(* one compares keys.  Names are not: anybody can make a root with AMD's.   *)
(***************************************************************************)
EXTENDS Integers, Sequences

CONSTANTS
    Verifiers,   \* processes that verify reports
    Reports,     \* the reports they may be given
    VcekIds,     \* chips and TCB versions, and AMD's keys for them
    Foreign,     \* certificates that AMD did not make, and answers that are none
    Vceks,       \* what the service may answer for a VCEK
    Chains,      \* what it may answer for the CA chain
    NoCert       \* an empty or missing file; also: no certificate yet

VARIABLES
    kdsFile,   \* the cached certificates
    check,     \* the verify_sev_snp_report call of each process
    spoiled    \* history: something that is not the right certificate was cached

kdsVars == <<kdsFile, check, spoiled>>

Cert(key, by, named) == [key |-> key, by |-> by, named |-> named]
ARK      == Cert("ARK", "ARK", TRUE)
ASK      == Cert("ASK", "ARK", FALSE)
VCEK(id) == Cert(id, "ASK", FALSE)
Page     == Cert("none", "none", FALSE)   \* an answer that is no certificate

\* Nobody but AMD signs with its keys; a foreign certificate may have any key
\* and any names.
ASSUME KdsAssumption ==
    /\ \A r \in Reports : r.id \in VcekIds /\ r.vmpl \in 0..3
    /\ VcekIds \cap {"ask", "ark", "ARK", "ASK"} = {}
    /\ \A cert \in Foreign : cert.by \notin {"ARK", "ASK"}
    /\ Vceks \subseteq {VCEK(id) : id \in VcekIds} \cup Foreign
    /\ Chains \subseteq Seq({ASK, ARK} \cup Foreign)
    /\ NoCert \notin {ASK, ARK} \cup Foreign \cup {VCEK(id) : id \in VcekIds} \cup Reports

KdsFiles == VcekIds \cup {"ask", "ark"}

NoCheck == [pc |-> "idle", report |-> NoCert, vcek |-> NoCert, ask |-> NoCert, ark |-> NoCert,
            todo |-> <<>>, open |-> FALSE, unanswered |-> FALSE]

KdsInit ==
    /\ kdsFile = [f \in KdsFiles |-> NoCert]
    /\ check = [c \in Verifiers |-> NoCheck]
    /\ spoiled = FALSE

SetCheck(c, r) == check' = [check EXCEPT ![c] = r]

BeginVerify(c, r) ==
    /\ check[c].pc \in {"idle", "accepted", "refused"}
    /\ SetCheck(c, [NoCheck EXCEPT !.pc = "vcek", !.report = r])
    /\ UNCHANGED <<kdsFile, spoiled>>

\* Mutant: an empty file is taken for a certificate.
ReadEmptyToo(f) == IF kdsFile[f] = NoCert THEN {Page} ELSE {kdsFile[f]}

\* What read_cached returns, if anything: an empty file is no certificate.
read_cached(f) == {kdsFile[f]} \ {NoCert}

\* fetch_vcek: the file, or the service's answer, whatever it is.
FetchVcek(c) ==
    LET id == check[c].report.id
        hit == read_cached(id)
    IN /\ check[c].pc = "vcek"
       /\ \/ /\ hit # {}
             /\ \E cert \in hit : SetCheck(c, [check[c] EXCEPT !.vcek = cert, !.pc = "ca"])
             /\ UNCHANGED spoiled
          \/ /\ hit = {}
             /\ \E cert \in Vceks :
                   /\ SetCheck(c, [check[c] EXCEPT !.vcek = cert, !.todo = <<id>>, !.pc = "write"])
                   /\ spoiled' = (spoiled \/ cert # VCEK(id))
       /\ UNCHANGED kdsFile

\* fetch_ca_chain: both files, or the service's answer, of which the first
\* two certificates are taken.
FetchCaChain(c) ==
    LET asks == read_cached("ask")
        arks == read_cached("ark")
    IN /\ check[c].pc = "ca"
       /\ \/ /\ asks # {} /\ arks # {}
             /\ \E ask \in asks, ark \in arks :
                   SetCheck(c, [check[c] EXCEPT !.ask = ask, !.ark = ark, !.pc = "check"])
             /\ UNCHANGED spoiled
          \/ /\ asks = {} \/ arks = {}
             /\ \E chain \in Chains :
                   /\ Len(chain) >= 2
                   /\ SetCheck(c, [check[c] EXCEPT !.ask = chain[1], !.ark = chain[2],
                                                   !.todo = <<"ask", "ark">>, !.pc = "write"])
                   /\ spoiled' = (spoiled \/ chain[1] # ASK \/ chain[2] # ARK)
       /\ UNCHANGED kdsFile

\* No answer, an HTTP error, or fewer than two certificates: the call fails.
KdsFails(c) ==
    /\ \/ check[c].pc = "vcek" /\ read_cached(check[c].report.id) = {}
       \/ check[c].pc = "ca" /\ (read_cached("ask") = {} \/ read_cached("ark") = {})
    /\ SetCheck(c, [check[c] EXCEPT !.pc = "refused", !.unanswered = TRUE])
    /\ UNCHANGED <<kdsFile, spoiled>>

\* The certificate that goes into file f.
ToWrite(c, f) ==
    CASE f = "ask" -> check[c].ask [] f = "ark" -> check[c].ark [] OTHER -> check[c].vcek

AfterWrite(r) ==
    IF r.todo # <<>> THEN [r EXCEPT !.open = FALSE]
    ELSE [r EXCEPT !.open = FALSE, !.pc = IF r.ask = NoCert THEN "ca" ELSE "check"]

\* write_cache: truncate, then fill.
TruncateCert(c) ==
    /\ check[c].pc = "write"
    /\ ~check[c].open
    /\ kdsFile' = [kdsFile EXCEPT ![check[c].todo[1]] = NoCert]
    /\ SetCheck(c, [check[c] EXCEPT !.open = TRUE])
    /\ UNCHANGED spoiled

FillCert(c) ==
    /\ check[c].pc = "write"
    /\ check[c].open
    /\ kdsFile' = [kdsFile EXCEPT ![check[c].todo[1]] = ToWrite(c, check[c].todo[1])]
    /\ SetCheck(c, AfterWrite([check[c] EXCEPT !.todo = Tail(@)]))
    /\ UNCHANGED spoiled

\* The directory or the file cannot be written: only logged.
WriteCacheFails(c) ==
    /\ check[c].pc = "write"
    /\ SetCheck(c, AfterWrite([check[c] EXCEPT !.todo = Tail(@)]))
    /\ UNCHANGED <<kdsFile, spoiled>>

\* Only the names are looked at: CN "ARK-...", AMD's O, and issuer = subject.
verify_ark_identity(ark) == ark.named

verify_cert_chain(r) ==
    /\ verify_ark_identity(r.ark)
    /\ r.ark.by = r.ark.key
    /\ r.ask.by = r.ark.key
    /\ r.vcek.by = r.ask.key

verify_report_signature(r) == r.report.signer = r.vcek.key

Verdict(r) == r.report.vmpl <= 1 /\ verify_cert_chain(r) /\ verify_report_signature(r)

VerifyReport(c) ==
    /\ check[c].pc = "check"
    /\ SetCheck(c, [check[c] EXCEPT !.pc = IF Verdict(check[c]) THEN "accepted" ELSE "refused"])
    /\ UNCHANGED <<kdsFile, spoiled>>

\* The process ends in the middle of anything.
VerifierCrash(c) ==
    /\ SetCheck(c, NoCheck)
    /\ UNCHANGED <<kdsFile, spoiled>>

KdsNext ==
    \E c \in Verifiers :
        \/ \E r \in Reports : BeginVerify(c, r)
        \/ FetchVcek(c) \/ FetchCaChain(c) \/ KdsFails(c)
        \/ TruncateCert(c) \/ FillCert(c) \/ WriteCacheFails(c)
        \/ VerifyReport(c) \/ VerifierCrash(c)

-----------------------------------------------------------------------------
(* Properties *)

\* A report that the chip of its id signed, at a privileged level.
Genuine(r) == r.signer = r.id /\ r.vmpl <= 1

\* A verdict is as good as its root.  An accepted report is of a privileged
\* level and its chain ends in a root with AMD's names; if that root is AMD's
\* own, a chip of AMD's signed the report, whatever foreign certificates the
\* service answered or the files held; and if nothing but the right certificates
\* was ever answered, the report is genuine.  (A foreign root with AMD's names
\* is accepted: verify_ark_identity has no key to compare it with.)  A genuine
\* report is refused only when the service did not answer this call or once
\* answered something else, which stays cached.  Processes that read the files
\* while another one writes them, and crashes half way through a write, never
\* change a verdict.
VerdictIsRight ==
    \A c \in Verifiers :
        /\ check[c].pc = "accepted" =>
              /\ check[c].report.vmpl <= 1 /\ check[c].ark.named
              /\ check[c].ark = ARK => check[c].report.signer \in VcekIds
              /\ ~spoiled => Genuine(check[c].report)
        /\ check[c].pc = "refused" =>
              ~Genuine(check[c].report) \/ check[c].unanswered \/ spoiled

=============================================================================
