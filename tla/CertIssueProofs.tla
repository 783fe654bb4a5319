--------------------------- MODULE CertIssueProofs ---------------------------
(***************************************************************************)
(* Proofs about CertIssue, for any number of issuances, authorizations,    *)
(* edits and records: the steps of the ACME protocol come in their order,  *)
(* a challenge record left behind is accounted for, and the owner's        *)
(* records survive the rewriting of the zone.                              *)
(***************************************************************************)
EXTENDS CertIssue, TLAPS

AcmeInv == AcmeTypeOK /\ KeyIInv /\ AuthIInv

(* The fields of an issuance that ended.                                   *)
LEMMA IdleFields ==
    /\ IdleIssue \in IssueRecords /\ IdleIssue.pc = "idle" /\ IdleIssue.n = 0
    /\ IdleIssue.a = 0 /\ IdleIssue.key = 0 /\ IdleIssue.err = "no"
BY CertIssueAssumption DEF IdleIssue, IssueRecords

(* An issuance that ends, with or without its certificate.                 *)
LEMMA EndsWell ==
    ASSUME AcmeInv, iss' = IdleIssue, UNCHANGED <<key, accounts, authz, order, issues>>,
           stored' \in 0..MaxIssues
    PROVE  AcmeInv'
<1>1. issues \in Nat
  BY CertIssueAssumption DEF AcmeInv, AcmeTypeOK
<1>2. AcmeTypeOK'
  BY IdleFields DEF AcmeInv, AcmeTypeOK
<1>3. KeyIInv'
  BY <1>1, IdleFields DEF AcmeInv, KeyIInv, InLoop, Published
<1>4. AuthIInv'
  BY IdleFields DEF AuthIInv, FinalizedWhenReady, At, InLoop, Published
<1>5. QED
  BY <1>2, <1>3, <1>4 DEF AcmeInv

(* The fields of an issuance that goes on at pc.                           *)
LEMMA GoesFields ==
    ASSUME AcmeInv, NEW pc, Goes(pc),
           pc \in {"key", "account", "order", "fetch", "set", "finalize", "pollOrder", "store"}
                    \cup Published
    PROVE  /\ iss' \in IssueRecords /\ iss'.pc = pc /\ iss'.n = iss.n /\ iss'.a = iss.a
           /\ iss'.key = iss.key /\ iss'.err = iss.err
BY DEF AcmeInv, AcmeTypeOK, IssueRecords, Goes

(* An error, in the try block or outside of it.                            *)
LEMMA ThrowsWell ==
    ASSUME AcmeInv, Throws, UNCHANGED acmeVars
    PROVE  AcmeInv'
<1>1. CASE iss.pc \notin InTry
  BY <1>1, EndsWell DEF Throws, acmeVars, AcmeInv, AcmeTypeOK
<1>2. CASE iss.pc \in InTry
  <2>1. /\ iss' \in IssueRecords /\ iss'.pc = "delete" /\ iss'.n = iss.n /\ iss'.a = iss.a
        /\ iss'.key = iss.key /\ iss'.err = "yes"
    BY <1>2 DEF Throws, AcmeInv, AcmeTypeOK, IssueRecords, Published
  <2>2. iss.pc \in InLoop /\ iss.pc \notin {"idle", "key"}
    BY <1>2 DEF InTry, InLoop, Published
  <2>3. AcmeTypeOK'
    BY <2>1, <2>2 DEF AcmeInv, AcmeTypeOK, acmeVars
  <2>4. KeyIInv'
    BY <2>1, <2>2 DEF AcmeInv, KeyIInv, acmeVars
  <2>5. AuthIInv'
    BY <2>1, <2>2 DEF AcmeInv, AuthIInv, acmeVars, FinalizedWhenReady, At
  <2>6. QED
    BY <2>3, <2>4, <2>5 DEF AcmeInv
<1>3. QED
  BY <1>1, <1>2

(* The end of an authorization's turn.                                     *)
LEMMA NextAuthWell ==
    ASSUME AcmeInv, NextAuth, UNCHANGED acmeVars, iss.pc \in {"fetch", "deleting"},
           iss.err = "no" => authz[iss.a] = "valid"
    PROVE  AcmeInv'
<1>t. /\ iss \in IssueRecords /\ iss.a \in 0..Auths /\ iss.a # 0 /\ Auths \in Nat
      /\ iss.pc \in InLoop
  BY CertIssueAssumption DEF AcmeInv, AcmeTypeOK, KeyIInv, IssueRecords, InLoop, Published
<1>1. CASE iss.err = "yes"
  BY <1>1, EndsWell DEF NextAuth, acmeVars, AcmeInv, AcmeTypeOK
<1>2. CASE iss.err = "no" /\ iss.a = Auths
  <2>1. Goes("finalize")
    BY <1>2 DEF NextAuth, Goes
  <2>2. /\ iss' \in IssueRecords /\ iss'.pc = "finalize" /\ iss'.n = iss.n
        /\ iss'.key = iss.key
    BY <2>1, GoesFields
  <2>3. \A a \in 1..Auths : authz[a] = "valid"
    BY <1>t, <1>2 DEF AcmeInv, AuthIInv
  <2>4. AcmeTypeOK' /\ KeyIInv'
    <3>1. iss.pc \notin {"idle", "key"}
      BY DEF InLoop
    <3>2. AcmeTypeOK'
      BY <2>2 DEF AcmeInv, AcmeTypeOK, acmeVars
    <3>3. KeyIInv'
      BY <2>2, <3>1 DEF AcmeInv, KeyIInv, acmeVars, InLoop, Published
    <3>4. QED
      BY <3>2, <3>3
  <2>5. AuthIInv'
    BY <2>2, <2>3 DEF AuthIInv, acmeVars, FinalizedWhenReady, At, InLoop, Published
  <2>6. QED
    BY <2>4, <2>5 DEF AcmeInv
<1>3. CASE iss.err = "no" /\ iss.a # Auths
  <2>1. iss' = [iss EXCEPT !.pc = "fetch", !.a = @ + 1]
    BY <1>3 DEF NextAuth
  <2>2. iss.a + 1 \in 1..Auths /\ iss.a + 1 \in 0..Auths
    BY <1>t, <1>3
  <2>3. /\ iss' \in IssueRecords /\ iss'.pc = "fetch" /\ iss'.n = iss.n
        /\ iss'.key = iss.key /\ iss'.a = iss.a + 1
    BY <1>t, <2>1, <2>2 DEF IssueRecords
  <2>4. AcmeTypeOK' /\ KeyIInv'
    BY <1>t, <2>2, <2>3 DEF AcmeInv, AcmeTypeOK, KeyIInv, acmeVars, InLoop, Published
  <2>5. /\ \A a \in 1..Auths : /\ a < iss.a + 1 => authz[a] = "valid"
                               /\ a > iss.a + 1 => authz[a] \in {"pending", "valid"}
        /\ authz[iss.a + 1] \in {"pending", "valid"}
    BY <1>t, <1>3, <2>2 DEF AcmeInv, AuthIInv
  <2>6. AuthIInv'
    BY <2>3, <2>5 DEF AuthIInv, acmeVars, FinalizedWhenReady, At
  <2>7. QED
    BY <2>4, <2>6 DEF AcmeInv
<1>4. QED
  BY <1>t, <1>1, <1>2, <1>3 DEF IssueRecords

(* An issuance that moves on inside or outside of the loop.                *)
LEMMA MovesWell ==
    ASSUME AcmeInv, NEW pc, Goes(pc), UNCHANGED acmeVars, iss.pc \notin {"idle", "key"},
           pc \in {"set", "store"} \cup Published,
           pc # "store" => iss.pc \in InLoop,
           pc \in {"set", "setting", "wait", "respond"} => authz[iss.a] = "pending",
           pc \in {"delete", "deleting"} /\ iss.err = "no" => authz[iss.a] = "valid",
           pc = "store" => \A a \in 1..Auths : authz[a] = "valid"
    PROVE  AcmeInv'
<1>1. /\ iss' \in IssueRecords /\ iss'.pc = pc /\ iss'.n = iss.n /\ iss'.a = iss.a
      /\ iss'.key = iss.key /\ iss'.err = iss.err
  BY GoesFields
<1>2. AcmeTypeOK'
  BY <1>1 DEF AcmeInv, AcmeTypeOK, acmeVars, Published
<1>3. KeyIInv'
  BY <1>1 DEF AcmeInv, KeyIInv, acmeVars, InLoop, Published
<1>4. AuthIInv'
  BY <1>1 DEF AcmeInv, AuthIInv, acmeVars, FinalizedWhenReady, At, InLoop, Published
<1>5. QED
  BY <1>2, <1>3, <1>4 DEF AcmeInv

(* What the server's answers change.                                       *)
LEMMA AuthzChanged ==
    ASSUME AcmeInv, UNCHANGED <<iss, key, accounts, order, stored, issues>>,
           NEW b \in 1..Auths, NEW status \in {"valid", "invalid"},
           authz[b] = "processing", authz' = [authz EXCEPT ![b] = status]
    PROVE  AcmeInv'
<1>1. /\ authz' \in [1..Auths -> {"none", "pending", "processing", "valid", "invalid"}]
      /\ \A a \in 1..Auths : authz[a] \in {"pending", "valid"} => authz'[a] = authz[a]
  BY DEF AcmeInv, AcmeTypeOK
<1>2. AcmeTypeOK' /\ KeyIInv'
  BY <1>1 DEF AcmeInv, AcmeTypeOK, KeyIInv
<1>3. iss.pc \in InLoop => iss.a \in 1..Auths
  BY CertIssueAssumption DEF AcmeInv, AcmeTypeOK, KeyIInv, IssueRecords
<1>4. AuthIInv'
  BY <1>1, <1>3 DEF AcmeInv, AuthIInv, FinalizedWhenReady, At, InLoop, Published
<1>5. QED
  BY <1>2, <1>4 DEF AcmeInv

(* Every step keeps the order of the protocol.                             *)
LEMMA AcmeStep ==
    ASSUME AcmeInv, [IssueNext]_issueVars
    PROVE  AcmeInv'
<1>t. /\ iss \in IssueRecords /\ (iss.pc = "idle" <=> iss.n = 0)
      /\ iss.n \in 0..MaxIssues /\ iss.key \in 0..MaxIssues
      /\ (iss.pc \in InLoop => iss.a \in 1..Auths)
      /\ MaxIssues \in Nat \ {0} /\ Auths \in Nat \ {0} /\ issues \in 0..MaxIssues
  BY CertIssueAssumption DEF AcmeInv, AcmeTypeOK, KeyIInv, IssueRecords
<1>0. ASSUME UNCHANGED <<iss, acmeVars>> PROVE AcmeInv'
  BY <1>0 DEF AcmeInv, AcmeTypeOK, KeyIInv, AuthIInv, FinalizedWhenReady, At, acmeVars
<1>1. ASSUME NEW n \in Issues, ApplyStep(n) PROVE AcmeInv'
  BY <1>0, <1>1 DEF ApplyStep, GetHosts, SetHosts, SetHostsSwallowed, LoadConfigFails, CheckErrors, ApplyBreaks,
                    ApplyFails, ApplyUnchanged
<1>2. ASSUME NEW f \in Foreign, OwnerEdits(f) PROVE AcmeInv'
  BY <1>0, <1>2 DEF OwnerEdits
<1>3. CASE Start
  <2>1. /\ iss' \in IssueRecords /\ iss'.pc = "key" /\ iss'.n = issues + 1 /\ iss'.err = "no"
    <3>1. issues + 1 \in 0..MaxIssues
      BY <1>3, <1>t DEF Start
    <3>2. QED
      BY <1>3, <3>1, IdleFields DEF Start, IssueRecords
  <2>2. /\ issues' = issues + 1 /\ issues' \in 0..MaxIssues
        /\ authz' \in [1..Auths -> {"none"}] /\ order' = "none"
        /\ UNCHANGED <<key, accounts, stored>>
    BY <1>3, <1>t DEF Start
  <2>3. AcmeTypeOK'
    BY <1>t, <2>1, <2>2 DEF AcmeInv, AcmeTypeOK
  <2>4. KeyIInv'
    BY <1>t, <2>1, <2>2 DEF AcmeInv, KeyIInv, InLoop, Published
  <2>5. AuthIInv'
    BY <2>1 DEF AuthIInv, FinalizedWhenReady, At, InLoop, Published
  <2>6. QED
    BY <2>3, <2>4, <2>5 DEF AcmeInv
<1>4. CASE LoadOrCreateKey
  <2>1. /\ key' = IF key # 0 THEN key ELSE iss.n
        /\ iss' = [iss EXCEPT !.pc = "account", !.key = key'] /\ iss.pc = "key"
        /\ UNCHANGED <<accounts, authz, order, stored, issues>>
    BY <1>4 DEF LoadOrCreateKey, At
  <2>2. key' \in 0..MaxIssues /\ key' # 0
    BY <1>t, <2>1 DEF AcmeInv, AcmeTypeOK
  <2>3. iss' \in IssueRecords /\ iss'.pc = "account" /\ iss'.n = iss.n /\ iss'.key = key'
    BY <1>t, <2>1, <2>2 DEF IssueRecords
  <2>4. accounts \subseteq {key'}
    <3>1. accounts \subseteq {key} /\ 0 \notin accounts
      BY <1>t DEF AcmeInv, KeyIInv, AcmeTypeOK, Issues
    <3>2. QED
      BY <2>1, <3>1
  <2>5. AcmeTypeOK'
    BY <2>1, <2>2, <2>3 DEF AcmeInv, AcmeTypeOK
  <2>6. KeyIInv'
    BY <2>1, <2>2, <2>3, <2>4 DEF AcmeInv, KeyIInv, InLoop, Published
  <2>7. AuthIInv'
    BY <2>3 DEF AuthIInv, FinalizedWhenReady, At, InLoop, Published
  <2>8. QED
    BY <2>5, <2>6, <2>7 DEF AcmeInv
<1>5. CASE CreateAccount
  <2>1. /\ iss' \in IssueRecords /\ iss'.pc = "order" /\ iss'.n = iss.n /\ iss'.key = iss.key
    BY <1>5, GoesFields DEF CreateAccount
  <2>2. iss.key = key /\ key # 0 /\ iss.pc = "account"
    BY <1>5 DEF CreateAccount, At, AcmeInv, KeyIInv
  <2>3. accounts' = accounts \cup {key} /\ UNCHANGED <<key, authz, order, stored, issues>>
    BY <1>5, <2>2 DEF CreateAccount
  <2>4. AcmeTypeOK'
    BY <1>t, <2>1, <2>2, <2>3 DEF AcmeInv, AcmeTypeOK, Issues
  <2>5. KeyIInv'
    BY <2>1, <2>2, <2>3 DEF AcmeInv, KeyIInv, InLoop, Published
  <2>6. AuthIInv'
    BY <2>1 DEF AuthIInv, FinalizedWhenReady, At, InLoop, Published
  <2>7. QED
    BY <2>4, <2>5, <2>6 DEF AcmeInv
<1>6. CASE CreateOrder
  <2>1. /\ iss' \in IssueRecords /\ iss'.pc = "fetch" /\ iss'.n = iss.n /\ iss'.key = iss.key
        /\ iss'.a = 1 /\ iss.pc = "order"
    <3>1. iss' = [iss EXCEPT !.pc = "fetch", !.a = 1] /\ iss.pc = "order" /\ 1 \in 0..Auths
      BY <1>6, <1>t DEF CreateOrder, At
    <3>2. QED
      BY <1>t, <3>1 DEF IssueRecords
  <2>2. /\ order' = "pending" /\ authz' \in [1..Auths -> {"pending", "valid"}]
        /\ UNCHANGED <<key, accounts, stored, issues>>
    BY <1>6 DEF CreateOrder
  <2>3. AcmeTypeOK'
    <3>1. authz' \in [1..Auths -> {"none", "pending", "processing", "valid", "invalid"}]
      BY <2>2
    <3>2. QED
      BY <2>1, <2>2, <3>1 DEF AcmeInv, AcmeTypeOK
  <2>4. KeyIInv'
    BY <2>1, <2>2 DEF AcmeInv, KeyIInv
  <2>5. AuthIInv'
    BY <1>t, <2>1, <2>2 DEF AuthIInv, FinalizedWhenReady, At
  <2>6. QED
    BY <2>3, <2>4, <2>5 DEF AcmeInv
<1>7. CASE FetchAuthorization
  <2>1. /\ iss.pc = "fetch" /\ UNCHANGED acmeVars /\ authz[iss.a] \in {"pending", "valid"}
    BY <1>7 DEF FetchAuthorization, At, AcmeInv, AuthIInv
  <2>2. CASE authz[iss.a] = "valid"
    BY <1>7, <2>1, <2>2, NextAuthWell DEF FetchAuthorization
  <2>3. CASE authz[iss.a] = "pending"
    <3>1. Goes("set") /\ iss.pc \in InLoop
      BY <1>7, <2>1, <2>3 DEF FetchAuthorization, InLoop
    <3>2. QED
      BY <2>1, <2>3, <3>1, MovesWell
  <2>4. QED
    BY <2>1, <2>2, <2>3
<1>8. CASE SetRecord
  <2>1. iss.pc = "set" /\ UNCHANGED acmeVars /\ (Goes("setting") \/ iss' = IdleIssue)
    BY <1>8 DEF SetRecord, AskApply, At
  <2>2. authz[iss.a] = "pending" /\ iss.pc \in InLoop
    BY <2>1 DEF AcmeInv, AuthIInv, InLoop
  <2>3. CASE Goes("setting")
    BY <2>1, <2>2, <2>3, MovesWell DEF Published
  <2>4. CASE iss' = IdleIssue
    BY <2>1, <2>4, EndsWell DEF acmeVars, AcmeInv, AcmeTypeOK
  <2>5. QED
    BY <2>1, <2>3, <2>4
<1>9. CASE DeleteRecord
  <2>1. iss.pc = "delete" /\ UNCHANGED acmeVars /\ (Goes("deleting") \/ iss' = IdleIssue)
    BY <1>9 DEF DeleteRecord, AskApply, At
  <2>2. (iss.err = "no" => authz[iss.a] = "valid") /\ iss.pc \in InLoop
    BY <2>1 DEF AcmeInv, AuthIInv, InLoop, Published
  <2>3. CASE Goes("deleting")
    BY <2>1, <2>2, <2>3, MovesWell DEF Published
  <2>4. CASE iss' = IdleIssue
    BY <2>1, <2>4, EndsWell DEF acmeVars, AcmeInv, AcmeTypeOK
  <2>5. QED
    BY <2>1, <2>3, <2>4
<1>10. CASE ApplyAnswered
  <2>1. /\ UNCHANGED acmeVars /\ iss.pc \in {"setting", "deleting"} /\ iss.pc \in InLoop
        /\ \/ iss.pc = "setting" /\ Goes("wait")
           \/ iss.pc = "deleting" /\ NextAuth
           \/ iss' = IdleIssue
    BY <1>10 DEF ApplyAnswered, At, InLoop, Published
  <2>2. CASE iss.pc = "setting" /\ Goes("wait")
    <3>1. authz[iss.a] = "pending"
      BY <2>2 DEF AcmeInv, AuthIInv
    <3>2. QED
      BY <2>1, <2>2, <3>1, MovesWell DEF Published
  <2>3. CASE iss.pc = "deleting" /\ NextAuth
    <3>1. iss.err = "no" => authz[iss.a] = "valid"
      BY <2>3 DEF AcmeInv, AuthIInv
    <3>2. QED
      BY <2>1, <2>3, <3>1, NextAuthWell
  <2>4. CASE iss' = IdleIssue
    BY <2>1, <2>4, EndsWell DEF acmeVars, AcmeInv, AcmeTypeOK
  <2>5. QED
    BY <2>1, <2>2, <2>3, <2>4
<1>11. CASE WaitForPropagation
  <2>1. iss.pc = "wait" /\ UNCHANGED acmeVars /\ (Goes("respond") \/ Throws)
    BY <1>11 DEF WaitForPropagation, At
  <2>2. authz[iss.a] = "pending" /\ iss.pc \in InLoop
    BY <2>1 DEF AcmeInv, AuthIInv, InLoop, Published
  <2>3. CASE Goes("respond")
    BY <2>1, <2>2, <2>3, MovesWell DEF Published
  <2>4. QED
    BY <2>1, <2>3, ThrowsWell
<1>12. CASE RespondToChallenge
  <2>1. /\ iss' \in IssueRecords /\ iss'.pc = "poll" /\ iss'.n = iss.n /\ iss'.key = iss.key
        /\ iss'.a = iss.a
    BY <1>12, GoesFields DEF RespondToChallenge, Published
  <2>2. /\ iss.pc = "respond" /\ authz' = [authz EXCEPT ![iss.a] = "processing"]
        /\ UNCHANGED <<key, accounts, order, stored, issues>> /\ iss.pc \in InLoop
    BY <1>12 DEF RespondToChallenge, At, InLoop, Published
  <2>3. /\ authz' \in [1..Auths -> {"none", "pending", "processing", "valid", "invalid"}]
        /\ \A a \in 1..Auths : a # iss.a => authz'[a] = authz[a]
    BY <1>t, <2>2 DEF AcmeInv, AcmeTypeOK
  <2>4. AcmeTypeOK'
    BY <2>1, <2>2, <2>3 DEF AcmeInv, AcmeTypeOK
  <2>5. KeyIInv'
    BY <2>1, <2>2 DEF AcmeInv, KeyIInv
  <2>6. AuthIInv'
    BY <1>t, <2>1, <2>2, <2>3 DEF AcmeInv, AuthIInv, FinalizedWhenReady, At
  <2>7. QED
    BY <2>4, <2>5, <2>6 DEF AcmeInv
<1>13. CASE PollAuthorization
  <2>1. /\ iss.pc = "poll" /\ UNCHANGED acmeVars /\ iss.pc \in InLoop
        /\ ((authz[iss.a] = "valid" /\ Goes("delete")) \/ Throws)
    BY <1>13 DEF PollAuthorization, PollUntilDone, At, InLoop, Published
  <2>2. CASE authz[iss.a] = "valid" /\ Goes("delete")
    BY <2>1, <2>2, MovesWell DEF Published
  <2>3. QED
    BY <2>1, <2>2, ThrowsWell
<1>14. CASE FinalizeOrder
  <2>1. /\ iss' \in IssueRecords /\ iss'.pc = "pollOrder" /\ iss'.n = iss.n
        /\ iss'.key = iss.key
    BY <1>14, GoesFields DEF FinalizeOrder
  <2>2. /\ iss.pc = "finalize" /\ order' = "processing" /\ \A a \in 1..Auths : authz[a] = "valid"
        /\ UNCHANGED <<key, accounts, authz, stored, issues>>
    BY <1>14 DEF FinalizeOrder, At
  <2>3. AcmeTypeOK'
    BY <2>1, <2>2 DEF AcmeInv, AcmeTypeOK
  <2>4. KeyIInv'
    BY <2>1, <2>2 DEF AcmeInv, KeyIInv, InLoop, Published
  <2>5. AuthIInv'
    BY <2>1, <2>2 DEF AuthIInv, FinalizedWhenReady, At, InLoop, Published
  <2>6. QED
    BY <2>3, <2>4, <2>5 DEF AcmeInv
<1>15. CASE PollOrder
  <2>1. /\ iss.pc = "pollOrder" /\ UNCHANGED acmeVars /\ (Goes("store") \/ Throws)
    BY <1>15 DEF PollOrder, PollUntilDone, At
  <2>2. \A a \in 1..Auths : authz[a] = "valid"
    BY <2>1 DEF AcmeInv, AuthIInv, FinalizedWhenReady
  <2>3. CASE Goes("store")
    BY <2>1, <2>2, <2>3, MovesWell
  <2>4. QED
    BY <2>1, <2>3, ThrowsWell
<1>16. CASE StoreCert
  BY <1>16, <1>t, EndsWell DEF StoreCert
<1>17. CASE Fails
  BY <1>17, ThrowsWell DEF Fails, HostCallDenied, RequestFails, Refused
<1>18. CASE ServerValidates
  <2>1. PICK b \in 1..Auths :
          authz[b] = "processing"
          /\ authz' = [authz EXCEPT ![b] = IF Resolves(b) THEN "valid" ELSE "invalid"]
    BY <1>18 DEF ServerValidates
  <2>2. UNCHANGED <<iss, key, accounts, order, stored, issues>>
    BY <1>18 DEF ServerValidates
  <2>3. QED
    BY <2>1, <2>2, AuthzChanged
<1>19. CASE ServerIssues
  <2>1. order' \in {"valid", "invalid"} /\ UNCHANGED <<iss, key, accounts, authz, stored, issues>>
    BY <1>19 DEF ServerIssues
  <2>2. QED
    BY <2>1 DEF AcmeInv, AcmeTypeOK, KeyIInv, AuthIInv, FinalizedWhenReady, At
<1>20. CASE Killed
  BY <1>20, EndsWell DEF Killed, acmeVars, AcmeInv, AcmeTypeOK
<1>21. CASE UNCHANGED issueVars
  BY <1>0, <1>21 DEF issueVars, acmeVars
<1>22. QED
  BY <1>1, <1>2, <1>3, <1>4, <1>5, <1>6, <1>7, <1>8, <1>9, <1>10, <1>11, <1>12, <1>13, <1>14,
     <1>15, <1>16, <1>17, <1>18, <1>19, <1>20, <1>21
  DEF IssueNext, IssueStep
-----------------------------------------------------------------------------
ApplyInv == ZoneTypeOK /\ ApplyIInv /\ CleanIInv

(* Where a record may be out.                                              *)
Outside == {"wait", "respond", "poll", "delete"}

(* The fields of a dns.apply that nobody asked for, and of one that begins. *)
LEMMA ApplyFields ==
    /\ IdleApply \in ApplyRecords /\ IdleApply.pc = "idle"
    /\ \A pc \in {"done", "failed"} : [IdleApply EXCEPT !.pc = pc] \in ApplyRecords
    /\ \A act \in {"set", "delete"}, val \in Values :
         [IdleApply EXCEPT !.pc = "get", !.act = act, !.val = val] \in ApplyRecords
<1>1. NoZone \in Zones
  BY DEF NoZone, Zones
<1>2. IdleApply \in ApplyRecords /\ IdleApply.pc = "idle"
  BY <1>1 DEF IdleApply, ApplyRecords
<1>3. QED
  BY <1>2 DEF ApplyRecords

(* The issuance that runs is one of Issues.                                *)
LEMMA RunningIssue ==
    ASSUME AcmeInv
    PROVE  /\ iss.pc # "idle" => iss.n \in Issues
           /\ iss.pc = "idle" <=> iss.n = 0
           /\ \A n \in Issues : n \in Nat /\ n # 0
           /\ iss.n <= issues /\ iss.n \in Nat /\ issues \in Nat
           /\ iss.pc \in InLoop => <<iss.n, iss.a>> \in Values
<1>1. /\ iss.n \in 0..MaxIssues /\ iss.a \in 0..Auths /\ MaxIssues \in Nat /\ Auths \in Nat
      /\ (iss.pc = "idle" <=> iss.n = 0) /\ issues \in 0..MaxIssues /\ iss.n <= issues
  BY CertIssueAssumption DEF AcmeInv, AcmeTypeOK, KeyIInv, IssueRecords
<1>2. iss.pc \in InLoop => iss.pc # "idle" /\ iss.a # 0
  BY DEF AcmeInv, KeyIInv, InLoop, Published
<1>3. QED
  BY <1>1, <1>2 DEF Issues, Values

(* The issuance moves or ends, and waits for no dns.apply before or after. *)
LEMMA QuietMove ==
    ASSUME AcmeInv, ApplyInv, UNCHANGED <<apply, zone, faults, issues, edits, blanks, wanted, raced>>,
           iss.pc \notin {"setting", "deleting"}, iss'.pc \notin {"setting", "deleting"},
           iss'.n \in {iss.n, 0}, iss.pc \in Outside => iss'.pc \in Outside
    PROVE  ApplyInv'
<1>1. ZoneTypeOK'
  BY DEF ApplyInv, ZoneTypeOK
<1>2. \A n \in Issues : n = iss.n => apply[n].pc = "idle"
  BY DEF ApplyInv, ApplyIInv
<1>3. \A n \in Issues : /\ apply[n].pc \notin {"done", "failed"}
                        /\ n > issues => apply[n] = IdleApply
                        /\ n = iss'.n => apply[n].pc = "idle"
  BY <1>2, RunningIssue DEF ApplyInv, ApplyIInv
<1>4. ApplyIInv'
  BY <1>3 DEF ApplyIInv, InFlight
<1>5. CleanIInv'
  BY <1>2 DEF ApplyInv, CleanIInv, Outside, InFlight, At
<1>6. QED
  BY <1>1, <1>4, <1>5 DEF ApplyInv

(* An error keeps or ends the issuance, and is inside the try block while  *)
(* the record may be out.                                                  *)
LEMMA ThrowsQuiet ==
    ASSUME AcmeInv, Throws, iss.pc # "delete"
    PROVE  /\ iss'.pc \notin {"setting", "deleting"} /\ iss'.n \in {iss.n, 0}
           /\ iss.pc \in Outside => iss'.pc \in Outside
BY IdleFields DEF Throws, AcmeInv, AcmeTypeOK, IssueRecords, InTry, Outside

(* A dns.apply of which something is reported to the issuance that waits.  *)
LEMMA ReportFields ==
    ASSUME AcmeInv, ApplyInv, NEW n \in Issues, NEW pc \in {"done", "failed"}, Reports(n, pc)
    PROVE  /\ apply' \in [Issues -> ApplyRecords]
           /\ \A m \in Issues \ {n} : apply'[m] = apply[m]
           /\ apply'[n].pc = IF iss.n = n THEN pc ELSE "idle"
           /\ iss.n # n => apply'[n] = IdleApply
<1>1. apply \in [Issues -> ApplyRecords]
  BY DEF ApplyInv, ZoneTypeOK
<1>2. [IdleApply EXCEPT !.pc = pc] \in ApplyRecords /\ [IdleApply EXCEPT !.pc = pc].pc = pc
  BY ApplyFields DEF IdleApply
<1>3. QED
  BY <1>1, <1>2, ApplyFields DEF Reports

(* A report keeps what is known of the applies.                            *)
LEMMA ReportWell ==
    ASSUME AcmeInv, ApplyInv, NEW n \in Issues, NEW pc \in {"done", "failed"}, Reports(n, pc),
           InFlight(n), UNCHANGED <<iss, issues>>
    PROVE  ApplyIInv'
<1>1. /\ \A m \in Issues \ {n} : apply'[m] = apply[m]
      /\ apply'[n].pc = IF iss.n = n THEN pc ELSE "idle"
      /\ iss.n # n => apply'[n] = IdleApply
  BY ReportFields
<1>2. n > issues => apply[n] = IdleApply
  BY DEF ApplyInv, ApplyIInv
<1>3. ~(n > issues)
  BY <1>2, ApplyFields DEF InFlight
<1>4. n = iss.n => iss.pc \in {"setting", "deleting"}
  BY ApplyFields DEF ApplyInv, ApplyIInv, InFlight
<1>5. QED
  BY <1>1, <1>3, <1>4 DEF ApplyInv, ApplyIInv, InFlight, At

(* A dns.apply that ends before setHosts was carried out.                  *)
LEMMA ApplyFailsWell ==
    ASSUME AcmeInv, ApplyInv, NEW n \in Issues, InFlight(n), ApplyFails(n)
    PROVE  ApplyInv'
<1>1. /\ Reports(n, "failed") /\ UNCHANGED <<iss, issues, zone, blanks, raced, edits, wanted>>
      /\ faults' = faults \cup (IF apply[n].act = "delete" THEN {"kept"} ELSE {})
  BY DEF ApplyFails, NotDeleted, ApplyUnchanged, acmeVars
<1>2. /\ apply' \in [Issues -> ApplyRecords]
      /\ \A m \in Issues \ {n} : apply'[m] = apply[m]
      /\ apply'[n].pc = IF iss.n = n THEN "failed" ELSE "idle"
  BY <1>1, ReportFields
<1>3. ZoneTypeOK' /\ ApplyIInv'
  BY <1>1, <1>2, ReportWell DEF ApplyInv, ZoneTypeOK
<1>4. CleanIInv'
  <2>1. SUFFICES ASSUME faults' = {} PROVE CleanIInv'
    BY DEF CleanIInv
  <2>2. faults = {} /\ apply[n].act # "delete"
    BY <1>1, <2>1
  <2>3. n = iss.n
    BY <2>2 DEF ApplyInv, CleanIInv
  <2>4. iss.pc = "setting"
    BY <2>2, <2>3 DEF ApplyInv, ApplyIInv, At
  <2>5. zone.txt = NoValue
    BY <2>2, <2>3, <2>4 DEF ApplyInv, CleanIInv, At, InFlight
  <2>6. \A m \in Issues : InFlight(m)' => m = iss.n
    BY <1>2, <2>2, <2>3 DEF ApplyInv, CleanIInv, InFlight
  <2>7. QED
    BY <1>1, <2>5, <2>6 DEF CleanIInv
<1>5. QED
  BY <1>3, <1>4 DEF ApplyInv

(* Every step keeps what is known of the record.                           *)
LEMMA ApplyStepWell ==
    ASSUME AcmeInv, ApplyInv, [IssueNext]_issueVars
    PROVE  ApplyInv'
<1>t. /\ apply \in [Issues -> ApplyRecords] /\ zone \in Zones /\ blanks \in 0..MaxBlanks
      /\ edits \in 0..MaxEdits /\ MaxBlanks \in Nat /\ MaxEdits \in Nat
      /\ wanted \subseteq Foreign /\ Opaque \subseteq Foreign
  BY CertIssueAssumption DEF ApplyInv, ZoneTypeOK
<1>r. /\ iss.pc # "idle" => iss.n \in Issues
      /\ iss.pc = "idle" <=> iss.n = 0
      /\ \A n \in Issues : n \in Nat /\ n # 0
      /\ iss.n <= issues /\ iss.n \in Nat /\ issues \in Nat
  BY RunningIssue
<1>i. IdleApply.pc = "idle"
  BY ApplyFields
<1>0. ASSUME UNCHANGED <<iss, apply, zone, faults, issues, edits, blanks, wanted, raced>>
      PROVE  ApplyInv'
  BY <1>0 DEF ApplyInv, ZoneTypeOK, ApplyIInv, CleanIInv, InFlight, At
<1>1. ASSUME NEW n \in Issues, GetHosts(n) PROVE ApplyInv'
  <2>1. PICK z \in Zones : apply' = [apply EXCEPT ![n].pc = "put", ![n].read = z]
    <3>1. ParseHosts(zone) \in Zones /\ NoZone \in Zones
      BY <1>t DEF ParseHosts, Zones, NoZone
    <3>2. QED
      BY <1>1, <3>1 DEF GetHosts
  <2>2. /\ UNCHANGED <<iss, issues, zone, faults, edits, wanted>> /\ apply[n].pc = "get"
        /\ blanks' \in 0..MaxBlanks /\ raced' \in {"no", "yes"}
    BY <1>1, <1>t DEF GetHosts, ApplyUnchanged, acmeVars, ApplyInv, ZoneTypeOK
  <2>3. /\ apply' \in [Issues -> ApplyRecords]
        /\ \A m \in Issues \ {n} : apply'[m] = apply[m]
        /\ apply'[n].pc = "put" /\ apply'[n].act = apply[n].act
    BY <1>t, <2>1 DEF ApplyRecords
  <2>4. n <= issues
    <3>1. n > issues => apply[n] = IdleApply
      BY DEF ApplyInv, ApplyIInv
    <3>2. QED
      BY <1>r, <1>i, <2>2, <3>1
  <2>5. ZoneTypeOK'
    BY <2>2, <2>3 DEF ApplyInv, ZoneTypeOK
  <2>6. ApplyIInv'
    BY <1>r, <2>2, <2>3, <2>4 DEF ApplyInv, ApplyIInv, InFlight, At
  <2>7. CleanIInv'
    BY <2>2, <2>3 DEF ApplyInv, CleanIInv, InFlight, At
  <2>8. QED
    BY <2>5, <2>6, <2>7 DEF ApplyInv
<1>2. ASSUME NEW n \in Issues, SetHosts(n) PROVE ApplyInv'
  <2>1. PICK pc \in {"done", "failed"} :
          /\ Reports(n, pc)
          /\ faults' = IF apply[n].act = "set" /\ pc = "failed" THEN faults \cup {"unheard"}
                       ELSE IF /\ apply[n].act = "delete" /\ pc = "done" /\ iss.n = n
                               /\ \A m \in Issues \ {n} : ~InFlight(m)
                       THEN {} ELSE faults
    BY <1>2 DEF SetHosts
  <2>2. /\ UNCHANGED <<iss, issues, edits, wanted, blanks, raced>> /\ apply[n].pc = "put"
        /\ zone' = Merged(apply[n]) /\ InFlight(n)
    BY <1>2 DEF SetHosts, ApplyUnchanged, acmeVars, InFlight
  <2>3. /\ apply' \in [Issues -> ApplyRecords]
        /\ \A m \in Issues \ {n} : apply'[m] = apply[m]
        /\ apply'[n].pc = IF iss.n = n THEN pc ELSE "idle"
    BY <2>1, ReportFields
  <2>4. /\ zone' \in Zones
        /\ apply[n].act # "set" => zone'.txt = NoValue
    BY <1>t, <2>2 DEF Merged, Zones, ApplyRecords
  <2>5. ZoneTypeOK'
    BY <2>1, <2>2, <2>3, <2>4 DEF ApplyInv, ZoneTypeOK
  <2>6. ApplyIInv'
    BY <2>1, <2>2, ReportWell
  <2>7. CleanIInv'
    <3> SUFFICES ASSUME faults' = {}
                 PROVE  /\ \A m \in Issues : InFlight(m)' => m = iss.n
                        /\ zone'.txt # NoValue =>
                              /\ iss.pc = "setting"
                              /\ apply'[iss.n].pc = "done"
      BY <2>2 DEF CleanIInv, At
    <3>1. CASE faults = {}
      <4>1. n = iss.n /\ \A m \in Issues : InFlight(m) => m = iss.n
        BY <2>2, <3>1 DEF ApplyInv, CleanIInv
      <4>2. apply[n].act = "set" => iss.pc = "setting" /\ pc = "done"
        BY <2>1, <2>2, <4>1 DEF ApplyInv, ApplyIInv, At
      <4>3. QED
        BY <2>3, <2>4, <4>1, <4>2 DEF InFlight
    <3>2. CASE faults # {}
      <4>1. /\ apply[n].act = "delete" /\ iss.n = n /\ \A m \in Issues \ {n} : ~InFlight(m)
        BY <2>1, <3>2
      <4>2. QED
        BY <2>3, <2>4, <4>1 DEF InFlight
    <3>3. QED
      BY <3>1, <3>2
  <2>8. QED
    BY <2>5, <2>6, <2>7 DEF ApplyInv
<1>3. ASSUME NEW n \in Issues, LoadConfigFails(n) \/ CheckErrors(n) \/ ApplyBreaks(n)
      PROVE  ApplyInv'
  BY <1>3, ApplyFailsWell DEF LoadConfigFails, CheckErrors, ApplyBreaks, InFlight
<1>s. ASSUME NEW n \in Issues, SetHostsSwallowed(n) PROVE ApplyInv'
  <2>1. /\ UNCHANGED <<iss, issues, edits, wanted, raced, zone>> /\ Reports(n, "done")
        /\ blanks' \in 0..MaxBlanks /\ InFlight(n)
        /\ faults' = faults \cup (IF apply[n].act = "delete" THEN {"kept"} ELSE {})
    BY <1>s, <1>t DEF SetHostsSwallowed, NotDeleted, ApplyUnchanged, acmeVars, InFlight
  <2>2. /\ apply' \in [Issues -> ApplyRecords]
        /\ \A m \in Issues \ {n} : apply'[m] = apply[m]
        /\ apply'[n].pc = IF iss.n = n THEN "done" ELSE "idle"
    BY <2>1, ReportFields
  <2>3. ZoneTypeOK' /\ ApplyIInv'
    BY <2>1, <2>2, ReportWell DEF ApplyInv, ZoneTypeOK
  <2>4. CleanIInv'
    <3> SUFFICES ASSUME faults' = {} PROVE CleanIInv'
      BY DEF CleanIInv
    <3>1. faults = {} /\ apply[n].act # "delete"
      BY <2>1
    <3>2. n = iss.n
      BY <2>1, <3>1 DEF ApplyInv, CleanIInv
    <3>3. iss.pc = "setting"
      BY <2>1, <3>1, <3>2 DEF ApplyInv, ApplyIInv, At
    <3>4. zone.txt = NoValue
      BY <2>1, <3>1, <3>2, <3>3 DEF ApplyInv, CleanIInv, At, InFlight
    <3>5. \A m \in Issues : InFlight(m)' => m = iss.n
      BY <2>2, <3>1, <3>2 DEF ApplyInv, CleanIInv, InFlight
    <3>6. QED
      BY <2>1, <3>4, <3>5 DEF CleanIInv
  <2>5. QED
    BY <2>3, <2>4 DEF ApplyInv
<1>4. ASSUME NEW f \in Foreign, OwnerEdits(f) PROVE ApplyInv'
  <2>1. /\ UNCHANGED <<iss, issues, apply, blanks, faults>> /\ edits' \in 0..MaxEdits
        /\ raced' \in {"no", "yes"}
    BY <1>4, <1>t DEF OwnerEdits, acmeVars, ApplyInv, ZoneTypeOK
  <2>2. zone' \in Zones /\ zone'.txt = zone.txt /\ wanted' \subseteq Foreign
    BY <1>4, <1>t DEF OwnerEdits, Zones
  <2>3. QED
    BY <2>1, <2>2 DEF ApplyInv, ZoneTypeOK, ApplyIInv, CleanIInv, InFlight, At
<1>5. CASE Start /\ UNCHANGED zoneVars
  <2>1. /\ UNCHANGED <<apply, zone, faults, edits, blanks, wanted, raced>>
        /\ iss.pc = "idle" /\ issues' = issues + 1
        /\ iss' = [IdleIssue EXCEPT !.pc = "key", !.n = issues + 1]
    BY <1>5 DEF Start, At, zoneVars
  <2>2. iss'.pc = "key" /\ iss'.n = issues + 1
    BY <2>1 DEF IdleIssue
  <2>3. ZoneTypeOK'
    BY <2>1 DEF ApplyInv, ZoneTypeOK
  <2>4. \A n \in Issues : /\ apply[n].pc \notin {"done", "failed"}
                          /\ n > issues => apply[n] = IdleApply
    BY <1>r, <2>1 DEF ApplyInv, ApplyIInv
  <2>5. ApplyIInv'
    <3>1. \A n \in Issues : /\ n = iss'.n => apply[n].pc = "idle"
                            /\ n > issues' => apply[n] = IdleApply
      BY <1>r, <1>i, <2>1, <2>2, <2>4
    <3>2. QED
      BY <2>1, <2>4, <3>1 DEF ApplyIInv, InFlight, At
  <2>6. CleanIInv'
    BY <1>r, <2>1 DEF ApplyInv, CleanIInv, InFlight, At
  <2>7. QED
    BY <2>3, <2>5, <2>6 DEF ApplyInv
<1>6. ASSUME NEW act \in {"set", "delete"}, iss.pc = act, UNCHANGED <<zoneVars, issues>>,
             AskApply(act, IF act = "set" THEN "setting" ELSE "deleting")
      PROVE  ApplyInv'
  <2> DEFINE pc == IF act = "set" THEN "setting" ELSE "deleting"
             ap == [IdleApply EXCEPT !.pc = "get", !.act = act, !.val = <<iss.n, iss.a>>]
  <2>0. /\ iss.n \in Issues /\ <<iss.n, iss.a>> \in Values /\ pc \in Published
        /\ UNCHANGED <<zone, edits, blanks, wanted, raced, issues>>
    BY <1>6, RunningIssue DEF InLoop, Published, zoneVars
  <2>1. CASE Goes(pc) /\ faults' = faults /\ apply' = [apply EXCEPT ![iss.n] = ap]
    <3>1. iss'.pc = pc /\ iss'.n = iss.n
      BY <2>0, <2>1, GoesFields
    <3>2. ap \in ApplyRecords /\ ap.pc = "get" /\ ap.act = act
      BY <2>0, ApplyFields DEF IdleApply
    <3> HIDE DEF ap
    <3>3. /\ apply' \in [Issues -> ApplyRecords] /\ apply'[iss.n] = ap
          /\ \A m \in Issues \ {iss.n} : apply'[m] = apply[m]
      BY <1>t, <2>0, <2>1, <3>2
    <3>4. ZoneTypeOK'
      BY <2>0, <2>1, <3>3 DEF ApplyInv, ZoneTypeOK
    <3>5. ApplyIInv'
      BY <1>r, <2>0, <3>1, <3>2, <3>3 DEF ApplyInv, ApplyIInv, InFlight, At
    <3>6. CleanIInv'
      <4> SUFFICES ASSUME faults = {} PROVE CleanIInv'
        BY <2>1 DEF CleanIInv
      <4>1. /\ zone.txt # NoValue => act = "delete"
            /\ \A m \in Issues : InFlight(m) => m = iss.n
        BY <1>6 DEF ApplyInv, CleanIInv, At
      <4>2. QED
        BY <2>0, <3>1, <3>2, <3>3, <4>1 DEF CleanIInv, InFlight, At
    <3>7. QED
      BY <3>4, <3>5, <3>6 DEF ApplyInv
  <2>2. CASE /\ iss' = IdleIssue /\ apply' = apply
             /\ faults' = faults \cup (IF act = "delete" THEN {"kept"} ELSE {})
    <3>1. /\ \A n \in Issues : n = iss.n => apply[n].pc = "idle"
          /\ iss'.pc = "idle" /\ iss'.n = 0
      BY <1>6, <2>2, IdleFields DEF ApplyInv, ApplyIInv
    <3>2. ZoneTypeOK'
      BY <2>0, <2>2 DEF ApplyInv, ZoneTypeOK
    <3>3. ApplyIInv'
      BY <1>r, <2>0, <2>2, <3>1 DEF ApplyInv, ApplyIInv, InFlight, At
    <3>4. CleanIInv'
      BY <1>6, <2>0, <2>2, <3>1 DEF ApplyInv, CleanIInv, InFlight, At
    <3>5. QED
      BY <3>2, <3>3, <3>4 DEF ApplyInv
  <2>3. QED
    BY <1>6, <2>1, <2>2 DEF AskApply
<1>7. CASE ApplyAnswered /\ UNCHANGED zoneVars
  <2>1. /\ iss.pc \in {"setting", "deleting"} /\ apply[iss.n].pc \in {"done", "failed"}
        /\ apply' = [apply EXCEPT ![iss.n] = IdleApply] /\ iss.n \in Issues
        /\ UNCHANGED <<zone, edits, blanks, wanted, raced, issues, faults>>
    BY <1>7, <1>r DEF ApplyAnswered, zoneVars, acmeVars
  <2>2. /\ iss'.n \in {iss.n, 0} /\ iss'.pc \notin {"setting", "deleting"}
        /\ iss'.pc = "wait" \/ iss.pc # "setting" \/ apply[iss.n].pc = "failed"
    BY <1>7, IdleFields DEF ApplyAnswered, NextAuth, Goes, At, AcmeInv, AcmeTypeOK, IssueRecords
  <2>3. /\ apply' \in [Issues -> ApplyRecords] /\ apply'[iss.n] = IdleApply
        /\ \A m \in Issues \ {iss.n} : apply'[m] = apply[m]
    BY <1>t, <2>1, ApplyFields
  <2>4. ZoneTypeOK'
    BY <2>1, <2>3 DEF ApplyInv, ZoneTypeOK
  <2>5. ApplyIInv'
    BY <1>r, <2>1, <2>2, <2>3, ApplyFields DEF ApplyInv, ApplyIInv, InFlight, At
  <2>6. CleanIInv'
    <3> SUFFICES ASSUME faults = {} PROVE CleanIInv'
      BY <2>1 DEF CleanIInv
    <3>1. /\ \A m \in Issues : InFlight(m) => m = iss.n
          /\ zone.txt # NoValue => iss.pc = "setting" /\ apply[iss.n].pc = "done"
      BY <2>1 DEF ApplyInv, CleanIInv, InFlight, At
    <3>2. \A m \in Issues : ~InFlight(m)'
      BY <2>3, <3>1, ApplyFields DEF InFlight
    <3>3. QED
      BY <2>1, <2>2, <3>1, <3>2 DEF CleanIInv, At
  <2>7. QED
    BY <2>4, <2>5, <2>6 DEF ApplyInv
<1>8. CASE Killed /\ UNCHANGED zoneVars
  <2>1. /\ iss.pc # "idle" /\ iss.n \in Issues /\ iss' = IdleIssue
        /\ faults' = faults \cup (IF iss.pc \in Published THEN {"cut"} ELSE {})
        /\ apply' = [apply EXCEPT ![iss.n] = IF InFlight(iss.n) THEN apply[iss.n] ELSE IdleApply]
        /\ UNCHANGED <<zone, edits, blanks, wanted, raced, issues>>
    BY <1>8, <1>r DEF Killed, At, zoneVars, acmeVars
  <2>2. /\ apply' \in [Issues -> ApplyRecords] /\ iss'.pc = "idle" /\ iss'.n = 0
        /\ apply'[iss.n] = IF InFlight(iss.n) THEN apply[iss.n] ELSE IdleApply
        /\ \A m \in Issues \ {iss.n} : apply'[m] = apply[m]
    BY <1>t, <2>1, ApplyFields, IdleFields
  <2>3. ZoneTypeOK'
    BY <2>1, <2>2 DEF ApplyInv, ZoneTypeOK
  <2>4. ApplyIInv'
    BY <1>r, <2>1, <2>2, ApplyFields DEF ApplyInv, ApplyIInv, InFlight, At
  <2>5. CleanIInv'
    <3> SUFFICES ASSUME faults' = {} PROVE CleanIInv'
      BY DEF CleanIInv
    <3>1. faults = {} /\ iss.pc \notin Published
      BY <2>1
    <3>2. zone.txt = NoValue /\ \A m \in Issues : InFlight(m) => m = iss.n
      BY <3>1 DEF ApplyInv, CleanIInv, Published, At
    <3>3. ~InFlight(iss.n)
      BY <2>1, <3>1 DEF ApplyInv, ApplyIInv, Published, InFlight
    <3>4. \A m \in Issues : ~InFlight(m)'
      BY <2>2, <3>2, <3>3, ApplyFields DEF InFlight
    <3>5. QED
      BY <2>1, <3>2, <3>4 DEF CleanIInv
  <2>6. QED
    BY <2>3, <2>4, <2>5 DEF ApplyInv
<1>9. CASE /\ ServerValidates \/ ServerIssues
           /\ UNCHANGED zoneVars
  BY <1>0, <1>9 DEF ServerValidates, ServerIssues, zoneVars
<1>q. ASSUME UNCHANGED <<apply, faults, issues, zoneVars>>,
             iss.pc \notin {"setting", "deleting"}, iss'.pc \notin {"setting", "deleting"},
             iss'.n \in {iss.n, 0}, iss.pc \in Outside => iss'.pc \in Outside
      PROVE  ApplyInv'
  BY <1>q, QuietMove DEF zoneVars
<1>f. iss \in IssueRecords
  BY DEF AcmeInv, AcmeTypeOK
<1>10. ASSUME UNCHANGED zoneVars,
              LoadOrCreateKey \/ CreateAccount \/ CreateOrder \/ FetchAuthorization
                \/ RespondToChallenge \/ FinalizeOrder \/ StoreCert
       PROVE  ApplyInv'
  <2>1. /\ UNCHANGED <<apply, faults, issues>>
        /\ iss.pc \in {"key", "account", "order", "fetch", "respond", "finalize", "store"}
        /\ iss.pc = "respond" => iss'.pc = "poll"
    BY <1>10, <1>f DEF LoadOrCreateKey, CreateAccount, CreateOrder, FetchAuthorization,
                       RespondToChallenge, FinalizeOrder, StoreCert, At, Goes, acmeVars,
                       IssueRecords
  <2>2. iss'.pc \notin {"setting", "deleting"} /\ iss'.n \in {iss.n, 0}
    BY <1>10, <1>f, IdleFields
    DEF LoadOrCreateKey, CreateAccount, CreateOrder, FetchAuthorization, RespondToChallenge,
        FinalizeOrder, StoreCert, NextAuth, Goes, IssueRecords
  <2>3. QED
    BY <1>10, <1>q, <2>1, <2>2 DEF Outside
<1>11. ASSUME UNCHANGED zoneVars,
              WaitForPropagation \/ PollAuthorization \/ PollOrder \/ Fails
       PROVE  ApplyInv'
  <2>1. /\ UNCHANGED <<apply, faults, issues>> /\ iss.pc # "delete"
        /\ iss.pc \notin {"setting", "deleting"}
        /\ \/ Throws
           \/ iss.pc = "wait" /\ Goes("respond")
           \/ iss.pc = "poll" /\ Goes("delete")
           \/ iss.pc = "pollOrder" /\ Goes("store")
    BY <1>11 DEF WaitForPropagation, PollAuthorization, PollOrder, PollUntilDone, Fails,
                 HostCallDenied, RequestFails, Refused, At, acmeVars
  <2>2. CASE Throws
    BY <1>11, <1>q, <2>1, <2>2, ThrowsQuiet
  <2>3. CASE ~Throws
    <3>1. /\ iss'.pc \notin {"setting", "deleting"} /\ iss'.n = iss.n
          /\ iss.pc \in Outside => iss'.pc \in Outside
      BY <1>f, <2>1, <2>3 DEF Goes, IssueRecords, Outside
    <3>2. QED
      BY <1>11, <1>q, <2>1, <3>1
  <2>4. QED
    BY <2>2, <2>3
<1>12. ASSUME UNCHANGED zoneVars, SetRecord \/ DeleteRecord PROVE ApplyInv'
  <2>1. CASE SetRecord
    BY <1>6, <1>12, <2>1 DEF SetRecord, At, acmeVars
  <2>2. CASE DeleteRecord
    BY <1>6, <1>12, <2>2 DEF DeleteRecord, At, acmeVars
  <2>3. QED
    BY <1>12, <2>1, <2>2
<1>13. CASE UNCHANGED issueVars
  BY <1>0, <1>13 DEF issueVars
<1>14. QED
  BY <1>1, <1>2, <1>3, <1>s, <1>4, <1>5, <1>7, <1>8, <1>9, <1>10, <1>11, <1>12, <1>13
  DEF IssueNext, IssueStep, ApplyStep

-----------------------------------------------------------------------------
(* The owner's records.                                                    *)

(* A step that starts no write, on its way to the zone, changes nothing of *)
(* what the owner sees.                                                    *)
LEMMA PictureKept ==
    ASSUME ZoneIInv, UNCHANGED <<zone, wanted, raced>>,
           \A n \in Issues : apply'[n].pc = "put" => apply'[n] = apply[n]
    PROVE  ZoneIInv'
BY DEF ZoneIInv

(* Every step keeps the owner's records, in the zone and in what the writes *)
(* on their way put back.                                                  *)
LEMMA ZoneStep ==
    ASSUME AcmeInv, ApplyInv, ZoneIInv, [IssueNext]_issueVars
    PROVE  ZoneIInv'
<1>t. apply \in [Issues -> ApplyRecords] /\ zone \in Zones
  BY DEF ApplyInv, ZoneTypeOK
<1>r. iss.pc # "idle" => iss.n \in Issues
  BY RunningIssue
<1>i. IdleApply.pc = "idle"
  BY ApplyFields
<1>0. ASSUME UNCHANGED <<zone, wanted, raced, apply>> PROVE ZoneIInv'
  BY <1>0, PictureKept
<1>1. ASSUME NEW n \in Issues, GetHosts(n) PROVE ZoneIInv'
  <2>1. CASE raced' = "yes"
    BY <2>1 DEF ZoneIInv
  <2>2. CASE raced' # "yes"
    <3>1. /\ apply' = [apply EXCEPT ![n].pc = "put", ![n].read = ParseHosts(zone)]
          /\ UNCHANGED <<zone, wanted, raced>>
      BY <1>1, <2>2 DEF GetHosts, ApplyUnchanged
    <3>2. /\ apply'[n].read.hosts = zone.hosts \ Opaque
          /\ \A m \in Issues \ {n} : apply'[m] = apply[m]
      BY <1>t, <3>1 DEF ApplyRecords, ParseHosts
    <3>3. QED
      BY <3>1, <3>2 DEF ZoneIInv
  <2>3. QED
    BY <2>1, <2>2
<1>2. ASSUME NEW n \in Issues, NEW pc \in {"done", "failed"}, Reports(n, pc)
      PROVE  \A m \in Issues : apply'[m].pc = "put" => apply'[m] = apply[m] /\ m # n
  <2>1. /\ \A m \in Issues \ {n} : apply'[m] = apply[m]
        /\ apply'[n].pc = IF iss.n = n THEN pc ELSE "idle"
    BY <1>2, ReportFields
  <2>2. QED
    BY <2>1
<1>3. ASSUME NEW n \in Issues, SetHosts(n) PROVE ZoneIInv'
  <2>1. /\ apply[n].pc = "put" /\ UNCHANGED <<wanted, raced>> /\ zone' = Merged(apply[n])
    BY <1>3 DEF SetHosts, ApplyUnchanged
  <2>2. \A m \in Issues : apply'[m].pc = "put" => apply'[m] = apply[m]
    BY <1>2, <1>3 DEF SetHosts
  <2>3. zone'.hosts = apply[n].read.hosts
    BY <2>1 DEF Merged
  <2>4. QED
    BY <2>1, <2>2, <2>3 DEF ZoneIInv
<1>4. ASSUME NEW n \in Issues, LoadConfigFails(n) \/ CheckErrors(n) \/ ApplyBreaks(n)
      PROVE  ZoneIInv'
  <2>1. Reports(n, "failed") /\ UNCHANGED <<zone, wanted, raced>>
    BY <1>4 DEF LoadConfigFails, CheckErrors, ApplyBreaks, ApplyFails, ApplyUnchanged
  <2>2. QED
    BY <1>2, <2>1, PictureKept
<1>s. ASSUME NEW n \in Issues, SetHostsSwallowed(n) PROVE ZoneIInv'
  <2>1. Reports(n, "done") /\ UNCHANGED <<zone, wanted, raced>>
    BY <1>s DEF SetHostsSwallowed, ApplyUnchanged
  <2>2. QED
    BY <1>2, <2>1, PictureKept
<1>5. ASSUME NEW f \in Foreign, OwnerEdits(f) PROVE ZoneIInv'
  <2>1. /\ apply' = apply
        /\ raced' = IF \E n \in Issues : apply[n].pc = "put" THEN "yes" ELSE raced
        /\ \/ zone'.hosts = zone.hosts \ {f} /\ wanted' = wanted \ {f}
           \/ zone'.hosts = zone.hosts \cup {f} /\ wanted' = wanted \cup {f}
    BY <1>5, <1>t DEF OwnerEdits, Zones
  <2>2. CASE raced' = "no"
    <3>1. raced = "no" /\ \A n \in Issues : apply[n].pc # "put"
      BY <2>1, <2>2
    <3>2. wanted \ Opaque \subseteq zone.hosts /\ zone.hosts \subseteq wanted
      BY <3>1 DEF ZoneIInv
    <3>3. QED
      BY <2>1, <3>1, <3>2 DEF ZoneIInv
  <2>3. QED
    BY <2>2 DEF ZoneIInv
<1>6. ASSUME NEW act, NEW pc, iss.n \in Issues, AskApply(act, pc)
      PROVE  \A m \in Issues : apply'[m].pc = "put" => apply'[m] = apply[m]
  <2> DEFINE ap == [IdleApply EXCEPT !.pc = "get", !.act = act, !.val = <<iss.n, iss.a>>]
  <2>1. CASE apply' = [apply EXCEPT ![iss.n] = ap]
    <3>1. ap.pc = "get"
      BY DEF IdleApply
    <3> HIDE DEF ap
    <3>2. QED
      BY <1>t, <1>6, <2>1, <3>1
  <2>2. CASE apply' = apply
    BY <2>2
  <2>3. QED
    BY <1>6, <2>1, <2>2 DEF AskApply
<1>7. ASSUME NEW n \in Issues, NEW ap, apply' = [apply EXCEPT ![n] = ap],
             ap = IdleApply \/ ap = apply[n]
      PROVE  \A m \in Issues : apply'[m].pc = "put" => apply'[m] = apply[m]
  BY <1>t, <1>i, <1>7
<1>8. ASSUME ApplyAnswered \/ Killed
      PROVE  \A m \in Issues : apply'[m].pc = "put" => apply'[m] = apply[m]
  <2>1. iss.n \in Issues
    BY <1>8, <1>r DEF ApplyAnswered, Killed, At
  <2>2. \/ apply' = [apply EXCEPT ![iss.n] = IdleApply]
        \/ apply' = [apply EXCEPT ![iss.n] = apply[iss.n]]
    BY <1>8 DEF ApplyAnswered, Killed
  <2>3. QED
    BY <1>7, <2>1, <2>2
<1>9. ASSUME SetRecord \/ DeleteRecord
      PROVE  \A m \in Issues : apply'[m].pc = "put" => apply'[m] = apply[m]
  <2>1. iss.n \in Issues
    BY <1>9, <1>r DEF SetRecord, DeleteRecord, At
  <2>2. QED
    BY <1>6, <1>9, <2>1 DEF SetRecord, DeleteRecord
<1>10. CASE IssueStep
  <2>1. UNCHANGED <<zone, wanted, raced>>
    BY <1>10 DEF IssueStep, zoneVars
  <2>2. CASE SetRecord \/ DeleteRecord \/ ApplyAnswered
    BY <1>8, <1>9, <2>1, <2>2, PictureKept
  <2>3. CASE ~(SetRecord \/ DeleteRecord \/ ApplyAnswered)
    <3>1. apply' = apply
      BY <1>10, <2>3
      DEF IssueStep, LoadOrCreateKey, CreateAccount, CreateOrder, FetchAuthorization,
          WaitForPropagation, RespondToChallenge, PollAuthorization, FinalizeOrder, PollOrder,
          StoreCert, Fails
    <3>2. QED
      BY <1>0, <2>1, <3>1
  <2>4. QED
    BY <2>2, <2>3
<1>11. CASE (Start \/ ServerValidates \/ ServerIssues \/ Killed) /\ UNCHANGED zoneVars
  <2>1. UNCHANGED <<zone, wanted, raced>>
    BY <1>11 DEF zoneVars
  <2>2. CASE Killed
    BY <1>8, <2>1, <2>2, PictureKept
  <2>3. CASE Start \/ ServerValidates \/ ServerIssues
    BY <1>0, <2>1, <2>3 DEF Start, ServerValidates, ServerIssues
  <2>4. QED
    BY <1>11, <2>2, <2>3
<1>12. CASE UNCHANGED issueVars
  BY <1>0, <1>12 DEF issueVars
<1>13. QED
  BY <1>1, <1>3, <1>s, <1>4, <1>5, <1>10, <1>11, <1>12 DEF IssueNext, ApplyStep

-----------------------------------------------------------------------------
(* The theorems.                                                           *)

IssueInv == AcmeInv /\ ApplyInv /\ ZoneIInv

(* Nothing has been issued and the zone is the owner's.                    *)
LEMMA InitWell == IssueInit => IssueInv
<1> SUFFICES ASSUME IssueInit PROVE IssueInv
  OBVIOUS
<1>1. AcmeInv
  BY CertIssueAssumption, IdleFields
  DEF IssueInit, AcmeInv, AcmeTypeOK, KeyIInv, AuthIInv, FinalizedWhenReady, At, InLoop, Published
<1>2. zone \in Zones /\ zone.txt = NoValue /\ zone.hosts = Foreign
  BY DEF IssueInit, Zones
<1>3. \A n \in Issues : apply[n] = IdleApply /\ apply[n].pc = "idle"
  BY ApplyFields DEF IssueInit
<1>4. ZoneTypeOK
  <2>1. IdleApply \in ApplyRecords
    BY ApplyFields
  <2>2. apply \in [Issues -> ApplyRecords]
    BY <2>1 DEF IssueInit
  <2>3. QED
    BY CertIssueAssumption, <1>2, <2>2 DEF IssueInit, ZoneTypeOK
<1>5. ApplyIInv
  BY <1>3 DEF ApplyIInv, InFlight
<1>6. CleanIInv
  BY <1>2, <1>3 DEF CleanIInv, InFlight
<1>7. ZoneIInv
  BY <1>2, <1>3 DEF IssueInit, ZoneIInv
<1>8. QED
  BY <1>1, <1>4, <1>5, <1>6, <1>7 DEF IssueInv, ApplyInv

(* The invariant of every run of cert.ensure and dns.apply.                *)
LEMMA IssueInvariant == IssueSafety => []IssueInv
<1>1. IssueInv /\ [IssueNext]_issueVars => IssueInv'
  BY AcmeStep, ApplyStepWell, ZoneStep DEF IssueInv
<1>2. QED
  BY InitWell, <1>1, PTL DEF IssueSafety

(* The protocol's order of steps, for any number of issuances and          *)
(* authorizations: cert.ensure answers a challenge only while it is        *)
(* pending, finalizes the order and stores a certificate only when every   *)
(* authorization is valid, and the server knows at most the stored account *)
(* key however often the child is killed.                                  *)
THEOREM ProtocolInOrder == IssueSafety => []IssueOrder
<1>1. IssueInv => IssueOrder
  BY DEF IssueInv, AcmeInv, ApplyInv, IssueOrder, IssueTypeOK, KeyIInv, AuthIInv, AnswersPending,
         AccountKept, At
<1>2. QED
  BY <1>1, IssueInvariant, PTL

(* A challenge record outlives its issuance only through a kill, a set     *)
(* whose answer was lost or a delete that was not carried out, a write the *)
(* provider swallowed included; no throw of the try block, deadline or     *)
(* overlap leaves one, whatever the order in which the child, the          *)
(* dns.apply it asked for and the wall timer run.                          *)
THEOREM RecordsCleanedUp == IssueSafety => []CleanedUp
<1>1. IssueInv => CleanedUp
  <2> SUFFICES ASSUME IssueInv, iss.pc = "idle", zone.txt # NoValue, faults = {}
               PROVE  FALSE
    BY DEF CleanedUp, LeftBehind, At
  <2> QED
    BY DEF IssueInv, ApplyInv, CleanIInv, At
<1>2. QED
  BY <1>1, IssueInvariant, PTL

(* The owner's records survive the rewriting of the zone by any number of  *)
(* overlapping dns.apply tasks, save those the reader cannot parse, and    *)
(* none that the owner removed comes back, unless a write was raced.       *)
THEOREM ForeignRecordsSafe == IssueSafety => []ForeignSafe
<1>1. IssueInv => ForeignSafe
  BY DEF IssueInv, ZoneIInv, ForeignSafe
<1>2. QED
  BY <1>1, IssueInvariant, PTL
=============================================================================
