--------------------------- MODULE MCCertificates ---------------------------
(* Three parts side by side: what the orchestrator keeps of the             *)
(* certificates (Certs), one cert.ensure from inside (CertIssue), and the   *)
(* address table of the provider plugin (Ipam).  They share no state; one   *)
(* of them moves, the others stay as they began.                            *)
EXTENDS MCCerts, MCCertIssue, MCIpam

VARIABLE part
certificateVars == <<part, vars, issueVars, ipamVars>>

(* At rest no name is wanted, no issuance has begun and the operator has    *)
(* set no range.                                                            *)
CertificatesInit ==
    /\ part \in {"store", "issue", "ipam"}
    /\ Init /\ IssueInit /\ IpamInit
    /\ part # "store" => names = None
    /\ part # "ipam" => doc = NoDoc

StoreMoves(A) == part = "store" /\ A /\ UNCHANGED <<part, issueVars, ipamVars>>
IssueMoves(A) == part = "issue" /\ A /\ UNCHANGED <<part, vars, ipamVars>>
IpamMoves(A) == part = "ipam" /\ A /\ UNCHANGED <<part, vars, issueVars>>

CertificatesNext == StoreMoves(Next) \/ IssueMoves(IssueNext) \/ IpamMoves(IpamNext)

(* The fairness of Certs and of CertIssue, for the one that moves.          *)
CertificatesSpec ==
    /\ CertificatesInit
    /\ [][CertificatesNext]_certificateVars
    /\ WF_certificateVars(StoreMoves(Run))
    /\ WF_certificateVars(IssueMoves(IssueStep))
    /\ \A n \in Issues : WF_certificateVars(IssueMoves(ApplyStep(n)))
=============================================================================
