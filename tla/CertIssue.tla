----------------------------- MODULE CertIssue ------------------------------
(***************************************************************************)
(* Issuing a certificate by DNS-01: the cert.ensure task of                *)
(* cert-letsencrypt-dns01, the ACME server it talks to, the DNS broker of  *)
(* the host API and the dns.apply task of dns-namecheap.                   *)
(*                                                                         *)
(* RENEW runs one cert.ensure at a time.  Each runs in a child process the *)
(* wall timer may kill; a dns.apply it asked for runs in a child of its    *)
(* own, which the kill does not reach.  Issuance n asks for one dns.apply  *)
(* at a time, so apply[n] is the one it last asked for.  The names on the  *)
(* certificate (the domain and its wildcard) share one challenge record,   *)
(* whose value is the pair of issuance and authorization.                  *)
(***************************************************************************)
EXTENDS Integers, FiniteSets

CONSTANTS MaxIssues,   \* bound: issuances
          Auths,       \* authorizations of an order, 1..Auths
          Foreign,     \* the operator's own records in the zone
          Opaque,      \* those with a "/" or ">" in an attribute
          MaxEdits,    \* bound: edits of the zone by its owner
          MaxBlanks    \* bound: HTTP errors without an <Errors> block

ASSUME CertIssueAssumption ==
    /\ {MaxIssues, Auths} \subseteq Nat \ {0}
    /\ {MaxEdits, MaxBlanks} \subseteq Nat
    /\ Opaque \subseteq Foreign /\ IsFiniteSet(Foreign)

VARIABLES iss,      \* the issuance that runs
          key,      \* the stored ACME account key: the issuance that made it, or 0
          authz,    \* the server's authorizations of the current order
          order,    \* the server's order
          apply,    \* the dns.apply of each issuance
          zone,     \* the records at Namecheap
          accounts, \* the keys the server has an account for
          stored,   \* the issuance whose certificate was stored last, or 0
          issues, edits, blanks,
          wanted,   \* history: the records the zone's owner last left in it
          raced,    \* history: a write went out on a wrong picture of the zone
          faults    \* history: what may have left a challenge record behind

issueVars == <<iss, key, accounts, authz, order, apply, zone, stored, issues, edits, blanks, wanted,
               raced, faults>>
zoneVars == <<zone, edits, blanks, wanted, raced>>
acmeVars == <<key, accounts, authz, order, stored, issues>>

Issues == 1..MaxIssues
NoValue == <<0, 0>>
Values == Issues \X (1..Auths)
NoZone == [txt |-> NoValue, hosts |-> {}]
IdleIssue == [pc |-> "idle", n |-> 0, a |-> 0, key |-> 0, err |-> "no"]
IdleApply == [pc |-> "idle", act |-> "none", val |-> NoValue, read |-> NoZone]

IssueInit ==
    /\ iss = IdleIssue /\ accounts = {}
    /\ key = 0 /\ stored = 0 /\ issues = 0 /\ edits = 0 /\ blanks = 0
    /\ wanted = Foreign /\ raced = "no" /\ faults = {}
    /\ authz = [a \in 1..Auths |-> "none"] /\ order = "none"
    /\ apply = [n \in Issues |-> IdleApply]
    /\ zone = [txt |-> NoValue, hosts |-> Foreign]

-----------------------------------------------------------------------------
(* dns.apply: read every record, merge, write every record.                *)

\* What the reader of getHosts' answer finds: a host whose attributes hold a
\* slash or an angle bracket does not match its pattern.  A host that matches is
\* one record here; its text is left out (the code neither decodes XML entities
\* nor carries MXPref over).
ParseHosts(z) == [txt |-> z.txt, hosts |-> z.hosts \ Opaque]

\* Wrong on purpose: the record is sent as if setHosts added to the zone.
MergedAlone(ap) == [txt |-> IF ap.act = "set" THEN ap.val ELSE NoValue, hosts |-> {}]

Merged(ap) == [txt |-> IF ap.act = "set" THEN ap.val ELSE NoValue, hosts |-> ap.read.hosts]

InFlight(n) == apply[n].pc \in {"get", "put"}

\* The result goes to the issuance that asked, if it still runs.
Reports(n, pc) ==
    apply' = [apply EXCEPT ![n] = IF iss.n = n THEN [IdleApply EXCEPT !.pc = pc] ELSE IdleApply]

ApplyUnchanged == UNCHANGED <<iss, acmeVars, edits, wanted>>

\* A delete of dns.apply n that was not carried out.
NotDeleted(n) == faults \cup (IF apply[n].act = "delete" THEN {"kept"} ELSE {})

\* The credentials were read and getHosts answered; an answer that is neither
\* a host list nor an <Errors> block is read as a zone without records.
GetHosts(n) ==
    /\ apply[n].pc = "get"
    /\ \/ /\ apply' = [apply EXCEPT ![n].pc = "put", ![n].read = ParseHosts(zone)]
          /\ UNCHANGED <<blanks, raced>>
       \/ /\ blanks < MaxBlanks
          /\ blanks' = blanks + 1
          /\ apply' = [apply EXCEPT ![n].pc = "put", ![n].read = NoZone]
          /\ raced' = "yes"
    /\ ApplyUnchanged /\ UNCHANGED <<zone, faults>>

\* setHosts replaces every record.  Its answer may be lost.
SetHosts(n) ==
    /\ apply[n].pc = "put"
    /\ zone' = Merged(apply[n])
    /\ \E pc \in {"done", "failed"} :
          /\ Reports(n, pc)
          /\ faults' = IF apply[n].act = "set" /\ pc = "failed" THEN faults \cup {"unheard"}
                       ELSE IF /\ apply[n].act = "delete" /\ pc = "done" /\ iss.n = n
                               /\ \A m \in Issues \ {n} : ~InFlight(m)
                       THEN {} ELSE faults
    /\ ApplyUnchanged /\ UNCHANGED <<blanks, raced>>

\* setHosts was answered with an HTTP error that holds no <Errors> block: the
\* status is not looked at, and the task reports done with nothing written.
SetHostsSwallowed(n) ==
    /\ apply[n].pc = "put" /\ blanks < MaxBlanks
    /\ blanks' = blanks + 1
    /\ Reports(n, "done")
    /\ faults' = NotDeleted(n)
    /\ ApplyUnchanged /\ UNCHANGED <<zone, raced>>

\* The task ends with an error before setHosts was carried out.
ApplyFails(n) ==
    /\ Reports(n, "failed")
    /\ faults' = NotDeleted(n)
    /\ ApplyUnchanged /\ UNCHANGED <<zone, blanks, raced>>

\* A credential is missing, denied or empty, or the address lookup fails.
LoadConfigFails(n) == apply[n].pc = "get" /\ ApplyFails(n)

\* Either request is answered with an <Errors> block.
CheckErrors(n) == InFlight(n) /\ ApplyFails(n)

\* Either request fails on the way, or the wall timer kills this child.
ApplyBreaks(n) == InFlight(n) /\ ApplyFails(n)

\* The owner edits the zone at the provider: a record goes or comes back.
OwnerEdits(f) ==
    /\ edits < MaxEdits
    /\ edits' = edits + 1
    /\ \/ zone' = [zone EXCEPT !.hosts = @ \ {f}] /\ wanted' = wanted \ {f}
       \/ zone' = [zone EXCEPT !.hosts = @ \cup {f}] /\ wanted' = wanted \cup {f}
    /\ raced' = IF \E n \in Issues : apply[n].pc = "put" THEN "yes" ELSE raced
    /\ UNCHANGED <<iss, acmeVars, apply, blanks, faults>>

-----------------------------------------------------------------------------
(* cert.ensure.                                                            *)

At(pc) == iss.pc = pc
Goes(pc) == iss' = [iss EXCEPT !.pc = pc]

InTry == {"wait", "respond", "poll"}
Published == {"setting", "wait", "respond", "poll", "delete", "deleting"}

\* Wrong on purpose: only the happy path cleans up.
ThrowsPlainly == iss' = IdleIssue

\* A throw inside the try block goes through its finally.
Throws == iss' = IF iss.pc \in InTry THEN [iss EXCEPT !.pc = "delete", !.err = "yes"]
                                     ELSE IdleIssue

Start ==
    /\ At("idle") /\ issues < MaxIssues
    /\ issues' = issues + 1
    /\ iss' = [IdleIssue EXCEPT !.pc = "key", !.n = issues + 1]
    /\ authz' = [a \in 1..Auths |-> "none"] /\ order' = "none"
    /\ UNCHANGED <<key, accounts, stored, apply, faults>>

\* loadOrCreateAccountKey: a new key is stored before it is used.
LoadOrCreateKey ==
    /\ At("key")
    /\ key' = IF key # 0 THEN key ELSE iss.n
    /\ iss' = [iss EXCEPT !.pc = "account", !.key = key']
    /\ UNCHANGED <<accounts, authz, order, stored, issues, apply, faults>>

\* fetchDirectory, fetchNonce, createAccount.
CreateAccount ==
    /\ At("account")
    /\ accounts' = accounts \cup {iss.key}
    /\ Goes("order")
    /\ UNCHANGED <<key, authz, order, stored, issues, apply, faults>>

\* createOrder: the server may reuse an authorization that is valid already.
CreateOrder ==
    /\ At("order")
    /\ iss' = [iss EXCEPT !.pc = "fetch", !.a = 1]
    /\ order' = "pending"
    /\ authz' \in [1..Auths -> {"pending", "valid"}]
    /\ UNCHANGED <<key, accounts, stored, issues, apply, faults>>

\* The end of an authorization's turn in the loop.
NextAuth == iss' = IF iss.err = "yes" THEN IdleIssue
                   ELSE IF iss.a = Auths THEN [iss EXCEPT !.pc = "finalize"]
                   ELSE [iss EXCEPT !.pc = "fetch", !.a = @ + 1]

\* fetchAuthorization: a valid one needs nothing.
FetchAuthorization ==
    /\ At("fetch")
    /\ IF authz[iss.a] = "valid" THEN NextAuth ELSE Goes("set")
    /\ UNCHANGED <<acmeVars, apply, faults>>

\* dns.setRecord and dns.deleteRecord through the broker, which denies the
\* call without a grant or a bound dnsProvider.
AskApply(act, pc) ==
    \/ /\ apply' = [apply EXCEPT ![iss.n] =
                      [IdleApply EXCEPT !.pc = "get", !.act = act, !.val = <<iss.n, iss.a>>]]
       /\ Goes(pc)
       /\ UNCHANGED faults
    \/ /\ iss' = IdleIssue
       /\ faults' = faults \cup (IF act = "delete" THEN {"kept"} ELSE {})
       /\ UNCHANGED apply

SetRecord == At("set") /\ AskApply("set", "setting") /\ UNCHANGED acmeVars

DeleteRecord == At("delete") /\ AskApply("delete", "deleting") /\ UNCHANGED acmeVars

\* The broker's answer to the pending call.
ApplyAnswered ==
    /\ iss.pc \in {"setting", "deleting"}
    /\ \/ /\ apply[iss.n].pc = "done"
          /\ IF At("setting") THEN Goes("wait") ELSE NextAuth
       \/ apply[iss.n].pc = "failed" /\ iss' = IdleIssue
    /\ apply' = [apply EXCEPT ![iss.n] = IdleApply]
    /\ UNCHANGED <<acmeVars, faults>>

\* resolveTxt finds the value of this issuance's challenge.
Resolves(a) == zone.txt = <<iss.n, a>>

\* Wrong on purpose: no deadline.
WaitForPropagationForever ==
    /\ At("wait")
    /\ Resolves(iss.a) /\ Goes("respond")
    /\ UNCHANGED <<acmeVars, apply, faults>>

\* waitForPropagation: the value is seen in the zone, or the deadline passes.
WaitForPropagation ==
    /\ At("wait")
    /\ \/ Resolves(iss.a) /\ Goes("respond")
       \/ Throws
    /\ UNCHANGED <<acmeVars, apply, faults>>

RespondToChallenge ==
    /\ At("respond")
    /\ authz' = [authz EXCEPT ![iss.a] = "processing"]
    /\ Goes("poll")
    /\ UNCHANGED <<key, accounts, order, stored, issues, apply, faults>>

\* External: the ACME server looks the record up.
ServerValidates ==
    /\ iss.pc # "idle"
    /\ \E a \in 1..Auths :
          /\ authz[a] = "processing"
          /\ authz' = [authz EXCEPT ![a] = IF Resolves(a) THEN "valid" ELSE "invalid"]
    /\ UNCHANGED <<iss, key, accounts, order, stored, issues, apply, faults>>

\* Wrong on purpose: any final status is good enough.
PollUntilDoneAny(status, pc) == (status \in {"valid", "invalid"} /\ Goes(pc)) \/ Throws

\* pollUntilDone and the check after it: valid goes on; invalid, the deadline
\* and an error throw.
PollUntilDone(status, pc) == (status = "valid" /\ Goes(pc)) \/ Throws

PollAuthorization ==
    /\ At("poll")
    /\ PollUntilDone(authz[iss.a], "delete")
    /\ UNCHANGED <<acmeVars, apply, faults>>

\* External: the server accepts the request only when the order is ready.
FinalizeOrder ==
    /\ At("finalize")
    /\ \A a \in 1..Auths : authz[a] = "valid"
    /\ order' = "processing"
    /\ Goes("pollOrder")
    /\ UNCHANGED <<key, accounts, authz, stored, issues, apply, faults>>

ServerIssues ==
    /\ order = "processing"
    /\ order' \in {"valid", "invalid"}
    /\ UNCHANGED <<iss, key, accounts, authz, stored, issues, apply, faults>>

\* The order, then downloadCertificate.
PollOrder ==
    /\ At("pollOrder")
    /\ PollUntilDone(order, "store")
    /\ UNCHANGED <<acmeVars, apply, faults>>

\* certs.store.
StoreCert ==
    /\ At("store")
    /\ stored' = iss.n
    /\ iss' = IdleIssue
    /\ UNCHANGED <<key, accounts, authz, order, issues, apply, faults>>

\* secrets.get, secrets.put or certs.store is denied.
HostCallDenied == iss.pc \in {"key", "store"} /\ Throws

\* The request does not reach the server, or its answer does not come back.
RequestFails == iss.pc \in {"account", "order", "fetch", "respond", "finalize"} /\ Throws

\* The server refuses it, or offers no dns-01 challenge.
Refused == iss.pc \in {"account", "order", "fetch", "respond", "finalize"} /\ Throws

Fails ==
    /\ HostCallDenied \/ RequestFails \/ Refused
    /\ UNCHANGED <<acmeVars, apply, faults>>

\* The wall timer kills the child; a dns.apply it waits for goes on.
Killed ==
    /\ ~At("idle")
    /\ faults' = faults \cup (IF iss.pc \in Published THEN {"cut"} ELSE {})
    /\ iss' = IdleIssue
    /\ apply' = [apply EXCEPT ![iss.n] = IF InFlight(iss.n) THEN @ ELSE IdleApply]
    /\ UNCHANGED acmeVars

-----------------------------------------------------------------------------

IssueStep ==
    /\ \/ LoadOrCreateKey \/ CreateAccount \/ CreateOrder \/ FetchAuthorization
       \/ SetRecord \/ ApplyAnswered \/ WaitForPropagation \/ RespondToChallenge
       \/ PollAuthorization \/ DeleteRecord \/ FinalizeOrder \/ PollOrder \/ StoreCert
       \/ Fails
    /\ UNCHANGED zoneVars

ApplyStep(n) ==
    \/ GetHosts(n) \/ SetHosts(n) \/ SetHostsSwallowed(n)
    \/ LoadConfigFails(n) \/ CheckErrors(n) \/ ApplyBreaks(n)

IssueNext ==
    \/ IssueStep
    \/ \E n \in Issues : ApplyStep(n)
    \/ (Start \/ ServerValidates \/ ServerIssues \/ Killed) /\ UNCHANGED zoneVars
    \/ \E f \in Foreign : OwnerEdits(f)

IssueSafety == IssueInit /\ [][IssueNext]_issueVars

Fairness == WF_issueVars(IssueStep) /\ \A n \in Issues : WF_issueVars(ApplyStep(n))

IssueSpec == IssueSafety /\ Fairness

-----------------------------------------------------------------------------
(* Properties.                                                             *)

Zones == [txt : Values \cup {NoValue}, hosts : SUBSET Foreign]
IssueRecords ==
    [pc : {"idle", "key", "account", "order", "fetch", "set", "finalize", "pollOrder", "store"}
            \cup Published,
     n : 0..MaxIssues, a : 0..Auths, key : 0..MaxIssues, err : {"no", "yes"}]
ApplyRecords ==
    [pc : {"idle", "get", "put", "done", "failed"}, act : {"none", "set", "delete"},
     val : Values \cup {NoValue}, read : Zones]

AcmeTypeOK ==
    /\ iss \in IssueRecords /\ (iss.pc = "idle" <=> iss.n = 0)
    /\ key \in 0..MaxIssues /\ stored \in 0..MaxIssues /\ issues \in 0..MaxIssues
    /\ accounts \subseteq Issues
    /\ authz \in [1..Auths -> {"none", "pending", "processing", "valid", "invalid"}]
    /\ order \in {"none", "pending", "processing", "valid", "invalid"}

ZoneTypeOK ==
    /\ apply \in [Issues -> ApplyRecords]
    /\ zone \in Zones
    /\ wanted \subseteq Foreign
    /\ edits \in 0..MaxEdits /\ blanks \in 0..MaxBlanks
    /\ raced \in {"no", "yes"} /\ faults \subseteq {"cut", "unheard", "kept"}

\* Types of the variables.
IssueTypeOK == AcmeTypeOK /\ ZoneTypeOK

\* Nothing runs, and a challenge record is in the zone.
LeftBehind == At("idle") /\ (\A n \in Issues : ~InFlight(n)) /\ zone.txt # NoValue

\* A challenge record outlives its issuance only through one of three causes:
\* the child was killed while the record could be out ("cut"), a set was carried
\* out although it was reported as failed ("unheard"), or a delete was not
\* carried out, be it reported as failed, denied, or swallowed ("kept").  No
\* throw, deadline, refusal or overlap of the try block leaves one.  A later
\* issuance that deletes its own record, with no older dns.apply on its way,
\* clears what was left.
CleanedUp == LeftBehind => faults # {}

\* cert-ensure.ts: once dns.setRecord has published the record,
\* dns.deleteRecord "is *always* attempted before this function returns or
\* throws": short of a kill, a record stays only when a delete went wrong.
DeleteAttempted == LeftBehind => faults \cap {"cut", "kept"} # {}

\* The order is finalized, and a certificate stored, only when every one of its
\* authorizations is valid on the server, whether validated now or reused.
FinalizedWhenReady ==
    iss.pc \in {"finalize", "pollOrder", "store"} => \A a \in 1..Auths : authz[a] = "valid"

\* A challenge is answered only for an authorization that is waiting for it.
AnswersPending == At("respond") => authz[iss.a] = "pending"

\* However often the first issuances are killed, the server knows at most one
\* account, and its key is the stored one.
AccountKept == accounts \subseteq {key}

\* The protocol's order of steps: types, FinalizedWhenReady, AnswersPending and
\* AccountKept.
IssueOrder == IssueTypeOK /\ FinalizedWhenReady /\ AnswersPending /\ AccountKept

\* The owner's records survive dns.apply although every write replaces the
\* whole zone and two of them may overlap: unless the owner edited the zone
\* between a read and its write, or an HTTP error was read as an empty zone,
\* every record the owner left is there, save those the reader cannot parse,
\* and none the owner removed has come back.
ForeignSafe ==
    raced = "no" => /\ wanted \ Opaque \subseteq zone.hosts
                    /\ zone.hosts \subseteq wanted

\* namecheap-client.ts: getHosts "fetches every current host record for the
\* zone", and a change is "getHosts -> merge in memory -> setHosts with the full
\* merged list": writes that nobody raced keep every record of the owner.
ForeignKept == raced = "no" => wanted \subseteq zone.hosts

\* An issuance ends, whatever DNS and the server do.
IssuanceEnds == ~At("idle") ~> At("idle")

-----------------------------------------------------------------------------
(* The inductive invariants.                                               *)

\* Behind IssueTypeOK and AccountKept: the stored key is the one in use, and the
\* issuance, which was counted, is at one of its authorizations.
InLoop == {"fetch", "set"} \cup Published
KeyIInv ==
    /\ iss.pc \notin {"idle", "key"} => iss.key = key /\ key # 0
    /\ iss.pc \in InLoop => iss.a # 0
    /\ iss.n <= issues
    /\ accounts \subseteq {key}

\* Behind FinalizedWhenReady and AnswersPending: the authorizations before
\* the current one are valid, those after it have not been answered, and the
\* server changes only one that was.
AuthIInv ==
    /\ iss.pc \in InLoop =>
         \A a \in 1..Auths : /\ a < iss.a => authz[a] = "valid"
                             /\ a > iss.a => authz[a] \in {"pending", "valid"}
    /\ At("fetch") => authz[iss.a] \in {"pending", "valid"}
    /\ iss.pc \in {"set", "setting", "wait", "respond"} => authz[iss.a] = "pending"
    /\ iss.pc \in {"delete", "deleting"} /\ iss.err = "no" => authz[iss.a] = "valid"
    /\ FinalizedWhenReady

\* Behind CleanedUp: the dns.apply of the issuance that runs is the one it
\* waits for, and an answer waits for nobody else.
ApplyIInv ==
    \A n \in Issues :
        /\ apply[n].pc \in {"done", "failed"} => n = iss.n
        /\ n = iss.n /\ apply[n].pc # "idle" => iss.pc \in {"setting", "deleting"}
        /\ n = iss.n /\ InFlight(n) => apply[n].act = IF At("setting") THEN "set" ELSE "delete"
        /\ n > issues => apply[n] = IdleApply

\* Without a fault no other dns.apply is on its way, and the record is out
\* only while the issuance that set it has still to delete it.
CleanIInv ==
    faults = {} =>
        /\ \A n \in Issues : InFlight(n) => n = iss.n
        /\ zone.txt # NoValue =>
              \/ iss.pc \in {"wait", "respond", "poll", "delete"}
              \/ At("setting") /\ apply[iss.n].pc = "done"
              \/ At("deleting") /\ InFlight(iss.n)

\* Behind ForeignSafe: what a write will put back is what it should.
ZoneIInv ==
    raced = "no" =>
        /\ wanted \ Opaque \subseteq zone.hosts /\ zone.hosts \subseteq wanted
        /\ \A n \in Issues : apply[n].pc = "put" =>
              /\ wanted \ Opaque \subseteq apply[n].read.hosts
              /\ apply[n].read.hosts \subseteq wanted

IssueIInv == IssueTypeOK /\ KeyIInv /\ AuthIInv /\ ApplyIInv /\ CleanIInv /\ ZoneIInv
=============================================================================
