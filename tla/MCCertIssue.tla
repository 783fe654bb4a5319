---------------------------- MODULE MCCertIssue -----------------------------
(* The domain and its wildcard, an address record and a DKIM key.          *)
EXTENDS CertIssue

CONSTANTS www, dkim
MCForeign == {www, dkim}
MCOpaque == {dkim}
=============================================================================
