------------------------------- MODULE Custody -------------------------------
(***************************************************************************)
(* The signing key, the records it signs, and the audit log.               *)
(*                                                                          *)
(* The key lives in a file and in a SigningKeyManager object: rotate()      *)
(* changes the object, importFrom() makes another one.  atomicWriteFile     *)
(* replaces the file several awaits before either of them returns, so       *)
(* other requests of the admin socket, and a crash, fall in between.  The   *)
(* rest of every handler is synchronous, its audit entry included.          *)
(*                                                                          *)
(* appendFileSync may write all, none or a part of a line.  An entry is     *)
(* known by its hash, and two appends never hash alike.                     *)
(***************************************************************************)
EXTENDS Naturals, Sequences, FiniteSets, FiniteSetsExt

CONSTANTS
    Plugins,           \* rows of trust_records and grants
    Plans,             \* rows of approvals
    Requests,          \* admin requests that can be in flight
    Interval,          \* CHECKPOINT_INTERVAL
    MaxEntries,        \* bound on appends
    MaxRotations,      \* bound on POST /key/rotate
    MaxImports,        \* bound on POST /key/import
    MaxFailed,         \* bound on appends that write nothing
    MaxTorn,           \* bound on appends that write a part
    MaxCrashes         \* bound on crashes

Records == Plugins \cup Plans
MaxKeys == 1 + MaxRotations + MaxImports
Keys == 1..MaxKeys
None == 0              \* no key, no signature, GENESIS_HASH

ASSUME CustodyAssumption ==
    /\ Plugins \cap Plans = {}
    /\ Interval \in Nat \ {0}
    /\ MaxEntries \in Nat /\ MaxRotations \in Nat /\ MaxImports \in Nat
    /\ MaxFailed \in Nat /\ MaxTorn \in Nat /\ MaxCrashes \in Nat

VARIABLES
    keyFile,    \* the key in signing.key
    keyOf,      \* the key each manager holds; a manager is named by its first
    holder,     \* signingKeyHolder.manager
    made,       \* keys generated or supplied so far
    ops,        \* requests in flight
    sig,        \* the key a live record is signed with
    log,        \* lines of audit.jsonl
    tail,       \* whether the last line has its newline: "ended" or "open"
    seq,        \* AuditLog.seq
    lastHash,   \* AuditLog.lastHash
    appends,    \* appends so far: the next hash is one more
    budget,
    landed,     \* history: entries whose append returned
    overlap     \* history: two key operations were in flight since the start

keyVars == <<keyFile, keyOf, holder, made, overlap>>
logVars == <<log, tail, seq, lastHash, appends, landed>>
vars == <<keyFile, keyOf, holder, made, ops, sig, log, tail, seq, lastHash, appends,
          budget, landed, overlap>>

Lines == [kind : {"entry", "torn"}, hash : 0..MaxEntries, prev : 0..MaxEntries,
          seq : 0..MaxEntries, sig : Keys \cup {None}]

Idle == [kind |-> "none", mgr |-> None, key |-> None]
Ops == [kind : {"none", "rotate", "rotated", "import", "imported", "trust"},
        mgr : Keys \cup {None}, key : Keys \cup {None}]

KeyTypeOK ==
    /\ keyFile \in Keys /\ holder \in Keys /\ made \in Keys
    /\ keyOf \in [Keys -> Keys \cup {None}]
    /\ ops \in [Requests -> Ops]
    /\ sig \in [Records -> Keys \cup {None}]
    /\ overlap \in {"no", "yes"}

LogTypeOK ==
    /\ log \in Seq(Lines)
    /\ tail \in {"ended", "open"}
    /\ seq \in 0..MaxEntries /\ lastHash \in 0..MaxEntries /\ appends \in 0..MaxEntries
    /\ landed \subseteq 1..MaxEntries

BudgetTypeOK ==
    budget \in [rotations : 0..MaxRotations, imports : 0..MaxImports, failed : 0..MaxFailed,
                torn : 0..MaxTorn, crashes : 0..MaxCrashes]

TypeOK == KeyTypeOK /\ LogTypeOK /\ BudgetTypeOK

(* First boot: loadOrCreate generates a key, the log is created empty.     *)
Init ==
    /\ keyFile = 1
    /\ keyOf = [k \in Keys |-> IF k = 1 THEN 1 ELSE None]
    /\ holder = 1
    /\ made = 1
    /\ ops = [r \in Requests |-> Idle]
    /\ sig = [x \in Records |-> None]
    /\ log = << >>
    /\ tail = "ended"
    /\ seq = 0
    /\ lastHash = None
    /\ appends = 0
    /\ budget = [rotations |-> MaxRotations, imports |-> MaxImports, failed |-> MaxFailed,
                 torn |-> MaxTorn, crashes |-> MaxCrashes]
    /\ landed = {}
    /\ overlap = "no"

-----------------------------------------------------------------------------
(* The audit log.                                                          *)
Live == keyOf[holder]                  \* the key the process signs and verifies with

Torn == [kind |-> "torn", hash |-> 0, prev |-> 0, seq |-> 0, sig |-> None]

(* Wrong on purpose: chained to the number of lines.                       *)
EntryByLength(k, security) ==
    [kind |-> "entry", hash |-> appends + 1, prev |-> Len(log), seq |-> seq + 1,
     sig |-> IF security \/ (seq + 1) % Interval = 0 THEN k ELSE None]

Entry(k, security) ==
    [kind |-> "entry", hash |-> appends + 1, prev |-> lastHash, seq |-> seq + 1,
     sig |-> IF security \/ (seq + 1) % Interval = 0 THEN k ELSE None]

(* Wrong on purpose: the file is opened for writing, not for appending.    *)
WriteLineAfresh(line) ==
    log' = IF tail = "open" THEN [log EXCEPT ![Len(log)] = Torn] ELSE << line >>

(* Text that follows an unfinished line becomes part of that line, and     *)
(* what is then on it no longer parses.                                    *)
WriteLine(line) ==
    log' = IF tail = "open" THEN [log EXCEPT ![Len(log)] = Torn] ELSE Append(log, line)

(* append(), by what reaches the file: all of it, nothing, a part of the   *)
(* object, or the object without its newline.  Only the first returns.     *)
Outcomes == {"all", "nothing", "part", "object"}

AppendEntry(k, security, out) ==
    /\ appends < MaxEntries
    /\ appends' = appends + 1
    /\ seq' = seq + 1
    /\ \/ /\ out = "all"
          /\ WriteLine(Entry(k, security))
          /\ tail' = "ended"
          /\ lastHash' = appends + 1
          /\ landed' = landed \cup {appends + 1}
          /\ UNCHANGED budget
       \/ /\ out = "nothing"
          /\ budget.failed > 0
          /\ budget' = [budget EXCEPT !.failed = @ - 1]
          /\ UNCHANGED <<log, tail, lastHash, landed>>
       \/ /\ out \in {"part", "object"}
          /\ budget.torn > 0
          /\ budget' = [budget EXCEPT !.torn = @ - 1]
          /\ WriteLine(IF out = "part" THEN Torn ELSE Entry(k, security))
          /\ tail' = "open"
          /\ UNCHANGED <<lastHash, landed>>

(* readAll skips what does not parse.                                      *)
Parsed == {i \in 1..Len(log) : log[i].kind = "entry"}
Before(i) == {j \in Parsed : j < i}
HashBefore(i) == IF Before(i) = {} THEN None ELSE log[Max(Before(i))].hash

(* verify()                                                                *)
Linked(i) == log[i].prev = HashBefore(i)
Signed(i) == log[i].sig \in {None, Live}
Verify == \A i \in Parsed : Linked(i) /\ Signed(i)

(* The constructor resumes from the last line that parses.                 *)
Resume ==
    /\ seq' = IF Parsed = {} THEN 0 ELSE log[Max(Parsed)].seq
    /\ lastHash' = IF Parsed = {} THEN None ELSE log[Max(Parsed)].hash

-----------------------------------------------------------------------------
(* Key operations.                                                         *)
KeyOp(r) == ops[r].kind \in {"rotate", "rotated", "import", "imported"}

KeyOpBegins(r) ==
    /\ ops[r] = Idle
    /\ overlap' = IF \E q \in Requests : KeyOp(q) THEN "yes" ELSE overlap

RotateBegins(r) ==
    /\ KeyOpBegins(r) /\ budget.rotations > 0
    /\ budget' = [budget EXCEPT !.rotations = @ - 1]
    /\ made' = made + 1
    /\ ops' = [ops EXCEPT ![r] = [kind |-> "rotate", mgr |-> holder, key |-> made + 1]]
    /\ UNCHANGED <<keyFile, keyOf, holder, sig, logVars>>

ImportBegins(r) ==
    /\ KeyOpBegins(r) /\ budget.imports > 0
    /\ budget' = [budget EXCEPT !.imports = @ - 1]
    /\ made' = made + 1
    /\ ops' = [ops EXCEPT ![r] = [kind |-> "import", mgr |-> made + 1, key |-> made + 1]]
    /\ UNCHANGED <<keyFile, keyOf, holder, sig, logVars>>

(* atomicWriteFile's rename.                                               *)
KeyWritten(r) ==
    /\ ops[r].kind \in {"rotate", "import"}
    /\ keyFile' = ops[r].key
    /\ ops' = [ops EXCEPT ![r].kind = IF @ = "rotate" THEN "rotated" ELSE "imported"]
    /\ UNCHANGED <<keyOf, holder, made, overlap, sig, logVars, budget>>

(* reSignAll                                                               *)
ReSigned(rows, k) == [x \in Records |-> IF x \in rows /\ sig[x] # None THEN k ELSE sig[x]]

(* Wrong on purpose: approvals are forgotten; the new key stays in the     *)
(* file until the next start.                                              *)
RotateEndsPluginsOnly(r, out) ==
    /\ ops[r].kind = "rotated"
    /\ keyOf' = [keyOf EXCEPT ![ops[r].mgr] = ops[r].key]
    /\ sig' = ReSigned(Plugins, keyOf'[holder])
    /\ AppendEntry(keyOf'[holder], TRUE, out)
    /\ ops' = [ops EXCEPT ![r] = Idle]
    /\ UNCHANGED <<keyFile, holder, made, overlap>>

RotateEndsStale(r, out) ==
    /\ ops[r].kind = "rotated"
    /\ sig' = ReSigned(Records, Live)
    /\ AppendEntry(Live, TRUE, out)
    /\ ops' = [ops EXCEPT ![r] = Idle]
    /\ UNCHANGED keyVars

(* rotate() returns: the manager it was called on has the new key, and the *)
(* one now in the holder re-signs and signs the entry.                     *)
RotateEnds(r, out) ==
    /\ ops[r].kind = "rotated"
    /\ keyOf' = [keyOf EXCEPT ![ops[r].mgr] = ops[r].key]
    /\ sig' = ReSigned(Records, keyOf'[holder])
    /\ AppendEntry(keyOf'[holder], TRUE, out)
    /\ ops' = [ops EXCEPT ![r] = Idle]
    /\ UNCHANGED <<keyFile, holder, made, overlap>>

ImportEnds(r, out) ==
    /\ ops[r].kind = "imported"
    /\ keyOf' = [keyOf EXCEPT ![ops[r].mgr] = ops[r].key]
    /\ holder' = ops[r].mgr
    /\ AppendEntry(ops[r].key, TRUE, out)
    /\ ops' = [ops EXCEPT ![r] = Idle]
    /\ UNCHANGED <<keyFile, made, overlap, sig>>

(* Trusting a bundle: the manager is taken before the bundle is copied and *)
(* signs afterwards; the entry is signed through the holder.               *)
TrustBegins(r) ==
    /\ ops[r] = Idle
    /\ ops' = [ops EXCEPT ![r] = [kind |-> "trust", mgr |-> holder, key |-> None]]
    /\ UNCHANGED <<keyVars, sig, logVars, budget>>

(* Wrong on purpose: the key the manager was made with, rotated or not.    *)
TrustEndsFirstKey(r, p, out) ==
    /\ ops[r].kind = "trust"
    /\ sig' = [sig EXCEPT ![p] = ops[r].mgr]
    /\ AppendEntry(Live, TRUE, out)
    /\ ops' = [ops EXCEPT ![r] = Idle]
    /\ UNCHANGED keyVars

TrustEnds(r, p, out) ==
    /\ ops[r].kind = "trust"
    /\ sig' = [sig EXCEPT ![p] = keyOf[ops[r].mgr]]
    /\ AppendEntry(Live, TRUE, out)
    /\ ops' = [ops EXCEPT ![r] = Idle]
    /\ UNCHANGED keyVars

Approve(p, out) ==
    /\ sig' = [sig EXCEPT ![p] = Live]
    /\ AppendEntry(Live, TRUE, out)
    /\ UNCHANGED <<keyVars, ops>>

(* POST /plans/revoke takes any hash, POST /plugins/untrust only a plugin   *)
(* that is trusted.                                                        *)
Revoke(x, out) ==
    /\ x \in Plugins => sig[x] # None
    /\ sig' = [sig EXCEPT ![x] = None]
    /\ AppendEntry(Live, TRUE, out)
    /\ UNCHANGED <<keyVars, ops>>

(* Entries that are not security relevant.                                 *)
Note(out) ==
    /\ AppendEntry(Live, FALSE, out)
    /\ UNCHANGED <<keyVars, ops, sig>>

-----------------------------------------------------------------------------
(* A crash and the boot that follows.                                      *)
Reboot ==
    /\ budget.crashes > 0
    /\ budget' = [budget EXCEPT !.crashes = @ - 1]
    /\ ops' = [r \in Requests |-> Idle]
    /\ keyOf' = [k \in Keys |-> IF k = keyFile THEN keyFile ELSE None]
    /\ holder' = keyFile
    /\ overlap' = "no"
    /\ Resume
    /\ UNCHANGED <<keyFile, made, log, tail, appends, landed>>

Crash == Reboot /\ UNCHANGED sig

(* reSignAll updates row by row, through the manager now in the holder.    *)
CrashInReSign(r) ==
    /\ ops[r].kind = "rotated"
    /\ \E rows \in SUBSET Records :
          sig' = ReSigned(rows, IF ops[r].mgr = holder THEN ops[r].key ELSE Live)
    /\ Reboot

Next ==
    \/ \E r \in Requests :
          \/ RotateBegins(r)
          \/ ImportBegins(r)
          \/ KeyWritten(r)
          \/ TrustBegins(r)
          \/ CrashInReSign(r)
    \/ \E out \in Outcomes :
          \/ \E r \in Requests :
                \/ RotateEnds(r, out)
                \/ ImportEnds(r, out)
                \/ \E p \in Plugins : TrustEnds(r, p, out)
          \/ \E p \in Plans : Approve(p, out)
          \/ \E x \in Records : Revoke(x, out)
          \/ Note(out)
    \/ Crash

Spec == Init /\ [][Next]_vars

-----------------------------------------------------------------------------
(* The hash chain that verify() recomputes is unbroken through failing     *)
(* appends, crashes and restarts, with key operations in flight, as long   *)
(* as no append wrote a part of a line.                                    *)
ChainUnbroken == budget.torn = MaxTorn => \A i \in Parsed : Linked(i)

(* Whatever was torn, merged or resumed, entries that can be read have     *)
(* increasing sequence numbers.                                            *)
SeqIncreasing == \A i, j \in Parsed : i < j => log[i].seq < log[j].seq

(* Entries whose append returned and that cannot be read back.             *)
Lost == {h \in landed : \A i \in Parsed : log[i].hash # h}

(* What audit-log.ts says of a line cut short: "nothing is lost that was   *)
(* ever counted as having landed", and its test "so the chain continues    *)
(* correctly".  Nothing is, of the line itself; but the next entry is      *)
(* appended to the unfinished line, returns, and can never be read.        *)
LandedKept == Lost = {}

(* What holds instead: an append that was cut short costs at most one      *)
(* entry that landed.                                                      *)
LossBounded == Cardinality(Lost) <= MaxTorn - budget.torn

(* Between key operations the key in use is the one in custody, so a       *)
(* restart changes nothing.  signing-key.ts: rotate "Generates a brand-new *)
(* key and takes over custody at the same path".  Two key operations in    *)
(* flight together can write the file in one order and return in the       *)
(* other; the next start puts that right.                                  *)
CustodyMatches == overlap = "no" /\ (\A r \in Requests : ~KeyOp(r)) => Live = keyFile

(* design-spec.md: "`wanfwctl key rotate` re-signs all live records".      *)
(* Every live record verifies under the key in use, also those trusted or  *)
(* approved while one or two rotations were in flight.  An import re-signs *)
(* nothing, and a crash may come before the last record is re-signed.      *)
Calm == budget.imports = MaxImports /\ budget.crashes = MaxCrashes
RecordsVerify == Calm => \A x \in Records : sig[x] # None => sig[x] = Live

(* Verify is green over failing appends, crashes, restarts, trust, approve *)
(* and revoke, until a line is torn or the key changes: the checkpoints of *)
(* the past are checked with the key of today.                             *)
VerifyUntilRotated ==
    /\ budget.torn = MaxTorn /\ budget.rotations = MaxRotations
    /\ budget.imports = MaxImports
    => Verify

(* trust-flow.ts: "records trust + grants signed under the current key".   *)
(* So it is when rotations or a restart come between the start and the end *)
(* of the request.  The manager is taken at the start: a key imported      *)
(* meanwhile is not the one it signs with.                                 *)
TrustIsCurrent ==
    \A r \in Requests, p \in Plugins, out \in Outcomes :
        TrustEnds(r, p, out) /\ budget.imports = MaxImports => sig'[p] = Live'

TrustsUnderCurrent == [][TrustIsCurrent]_vars

-----------------------------------------------------------------------------
(* The inductive invariants.  KeyIInv, behind TypeOK: every key made was   *)
(* paid for, and a request in flight has a manager and a key to work with. *)
KeyIInv ==
    /\ made + budget.rotations + budget.imports = MaxKeys
    /\ \A r \in Requests :
          /\ ops[r].kind # "none" => ops[r].mgr \in Keys
          /\ KeyOp(r) => ops[r].key \in Keys

(* LogIInv, behind SeqIncreasing: the memory of the log is never behind    *)
(* the file.                                                               *)
LogIInv ==
    /\ tail = "open" => log # << >>
    /\ \A i \in Parsed : log[i].seq <= seq /\ log[i].seq <= appends
    /\ seq <= appends
    /\ SeqIncreasing

(* ChainIInv, behind ChainUnbroken: while nothing was torn every line      *)
(* parses and lastHash is the hash of the last one.                        *)
ChainIInv ==
    budget.torn = MaxTorn =>
        /\ tail = "ended"
        /\ Parsed = 1..Len(log)
        /\ lastHash = IF log = << >> THEN None ELSE log[Len(log)].hash
        /\ \A i \in 1..Len(log) : log[i].prev = IF i = 1 THEN None ELSE log[i - 1].hash

(* CustodyIInv, behind CustodyMatches: at most one key operation is in     *)
(* flight, and the file is ahead of the manager by just that one.          *)
InStep ==
    /\ \A r, q \in Requests : KeyOp(r) /\ KeyOp(q) => r = q
    /\ \A r \in Requests : ops[r].kind \in {"rotate", "rotated"} => ops[r].mgr = holder
    /\ \A r \in Requests : ops[r].kind \in {"rotated", "imported"} => keyFile = ops[r].key
    /\ (\A r \in Requests : ops[r].kind \notin {"rotated", "imported"}) => Live = keyFile

CustodyIInv == overlap = "no" => InStep

(* RecordsIInv, behind RecordsVerify: without imports there is one manager *)
(* and every request in flight works with it.                              *)
OneManager ==
    /\ \A x \in Records : sig[x] # None => sig[x] = Live
    /\ \A r \in Requests :
          /\ ops[r].kind # "none" => ops[r].mgr = holder
          /\ ops[r].kind \notin {"import", "imported"}

RecordsIInv == Calm => OneManager

(* ManagerIInv, behind TrustsUnderCurrent: so it is across crashes, which  *)
(* end every request.                                                      *)
ManagerIInv ==
    budget.imports = MaxImports =>
        \A r \in Requests :
            /\ ops[r].kind # "none" => ops[r].mgr = holder
            /\ ops[r].kind \notin {"import", "imported"}

(* SignedIInv, behind VerifyUntilRotated: until a key operation begins,    *)
(* the key in the file signed every checkpoint and is the one in use.      *)
FirstKeyOnly ==
    /\ \A r \in Requests : ~KeyOp(r)
    /\ Live = keyFile
    /\ \A i \in Parsed : log[i].sig \in {None, Live}

SignedIInv ==
    budget.rotations = MaxRotations /\ budget.imports = MaxImports => FirstKeyOnly

(* LossIInv, behind LossBounded: a line left open has not cost its entry   *)
(* yet, and what is on it never landed.                                    *)
LossIInv ==
    /\ landed \subseteq 1..appends
    /\ tail = "open" => /\ log[Len(log)].hash \notin landed
                        /\ Cardinality(Lost) + 1 <= MaxTorn - budget.torn
    /\ LossBounded

IInv ==
    /\ KeyIInv /\ LogIInv /\ ChainIInv /\ CustodyIInv /\ RecordsIInv
    /\ ManagerIInv /\ SignedIInv /\ LossIInv

(* The damage is bounded by its causes: a torn line costs at most one      *)
(* entry that landed (LossBounded), and verify rejects the log only once a *)
(* line was torn or a key replaced (VerifyUntilRotated).                   *)
DamageBounded == LossBounded /\ VerifyUntilRotated
=============================================================================
