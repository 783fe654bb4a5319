---------------------------- MODULE CustodyProofs ----------------------------
(***************************************************************************)
(* For any numbers of keys, records, requests and entries: the variables   *)
(* keep their types, readable entries have increasing sequence numbers,    *)
(* the hash chain is unbroken while nothing is torn, the log can be read   *)
(* back, the key in use is the key in custody while key operations do not  *)
(* overlap, rotations leave every live record signed with it, and trust    *)
(* requests sign with it.                                                  *)
(***************************************************************************)
EXTENDS Custody, FiniteSetTheorems, WellFoundedInduction, TLAPS

(* A non-empty set of naturals has a least element.                        *)
LEMMA LeastNatural ==
    ASSUME NEW T, T \subseteq Nat, T # {}
    PROVE  \E x \in T : \A y \in T : x <= y
<1> DEFINE R == OpToRel(<, Nat)
<1>1. IsWellFoundedOn(R, Nat)
  BY NatLessThanWellFounded
<1> HIDE DEF R
<1>2. PICK x \in T : \A y \in T : ~ (<<y, x>> \in R)
  BY <1>1, WFMin
<1>3. \A y \in T : ~ (y < x)
  BY <1>2 DEF R, OpToRel
<1>4. QED
  BY <1>3

(* Max picks the greatest element of a bounded set.                        *)
LEMMA MaxIsGreatest ==
    ASSUME NEW n \in Nat, NEW S, S \subseteq 1..n, S # {}
    PROVE  Max(S) \in S /\ \A y \in S : y <= Max(S)
<1> DEFINE T == {n - x : x \in S}
<1>1. \A t \in T : t \in Nat
  OBVIOUS
<1>2. T # {}
  OBVIOUS
<1>3. PICK m \in T : \A y \in T : m <= y
  BY <1>1, <1>2, LeastNatural
<1>4. PICK x \in S : m = n - x
  OBVIOUS
<1>5. \A y \in S : x >= y
  <2> TAKE y \in S
  <2>1. n - x <= n - y
    BY <1>3, <1>4
  <2>2. QED
    BY <2>1
<1>6. QED
  BY <1>5 DEF Max

LogInv == LogTypeOK /\ BudgetTypeOK /\ LogIInv

(* What spending a unit of a bound leaves of the others.                   *)
LEMMA SpendRotations ==
    ASSUME BudgetTypeOK, budget.rotations > 0, budget' = [budget EXCEPT !.rotations = @ - 1]
    PROVE  /\ BudgetTypeOK' /\ budget'.rotations = budget.rotations - 1
           /\ budget'.imports = budget.imports /\ budget'.failed = budget.failed
           /\ budget'.torn = budget.torn /\ budget'.crashes = budget.crashes
<1>1. budget.rotations - 1 \in 0..MaxRotations
  BY CustodyAssumption DEF BudgetTypeOK
<1>2. QED
  BY <1>1 DEF BudgetTypeOK

(* The budget keeps its type when an import is spent, and the others stay. *)
LEMMA SpendImports ==
    ASSUME BudgetTypeOK, budget.imports > 0, budget' = [budget EXCEPT !.imports = @ - 1]
    PROVE  /\ BudgetTypeOK' /\ budget'.imports = budget.imports - 1
           /\ budget'.rotations = budget.rotations /\ budget'.failed = budget.failed
           /\ budget'.torn = budget.torn /\ budget'.crashes = budget.crashes
<1>1. budget.imports - 1 \in 0..MaxImports
  BY CustodyAssumption DEF BudgetTypeOK
<1>2. QED
  BY <1>1 DEF BudgetTypeOK

(* The budget keeps its type when an append that writes nothing is spent, and the others stay. *)
LEMMA SpendFailed ==
    ASSUME BudgetTypeOK, budget.failed > 0, budget' = [budget EXCEPT !.failed = @ - 1]
    PROVE  /\ BudgetTypeOK' /\ budget'.failed = budget.failed - 1
           /\ budget'.rotations = budget.rotations /\ budget'.imports = budget.imports
           /\ budget'.torn = budget.torn /\ budget'.crashes = budget.crashes
<1>1. budget.failed - 1 \in 0..MaxFailed
  BY CustodyAssumption DEF BudgetTypeOK
<1>2. QED
  BY <1>1 DEF BudgetTypeOK

(* The budget keeps its type when an append that writes a part is spent, and the others stay. *)
LEMMA SpendTorn ==
    ASSUME BudgetTypeOK, budget.torn > 0, budget' = [budget EXCEPT !.torn = @ - 1]
    PROVE  /\ BudgetTypeOK' /\ budget'.torn = budget.torn - 1
           /\ budget'.rotations = budget.rotations /\ budget'.imports = budget.imports
           /\ budget'.failed = budget.failed /\ budget'.crashes = budget.crashes
<1>1. budget.torn - 1 \in 0..MaxTorn
  BY CustodyAssumption DEF BudgetTypeOK
<1>2. QED
  BY <1>1 DEF BudgetTypeOK

(* The budget keeps its type when a crash is spent, and the others stay. *)
LEMMA SpendCrashes ==
    ASSUME BudgetTypeOK, budget.crashes > 0, budget' = [budget EXCEPT !.crashes = @ - 1]
    PROVE  /\ BudgetTypeOK' /\ budget'.crashes = budget.crashes - 1
           /\ budget'.rotations = budget.rotations /\ budget'.imports = budget.imports
           /\ budget'.failed = budget.failed /\ budget'.torn = budget.torn
<1>1. budget.crashes - 1 \in 0..MaxCrashes
  BY CustodyAssumption DEF BudgetTypeOK
<1>2. QED
  BY <1>1 DEF BudgetTypeOK

(* The line an append writes.                                              *)
LEMMA EntryType ==
    ASSUME LogInv, appends < MaxEntries,
           NEW k \in Keys \cup {None}, NEW security \in BOOLEAN
    PROVE  /\ Entry(k, security) \in Lines
           /\ Entry(k, security).kind = "entry"
           /\ Entry(k, security).seq = seq + 1
           /\ Entry(k, security).prev = lastHash
           /\ Entry(k, security).hash = appends + 1
<1> DEFINE s == IF security \/ (seq + 1) % Interval = 0 THEN k ELSE None
<1>1. s \in Keys \cup {None}
  OBVIOUS
<1>2. /\ appends + 1 \in 0..MaxEntries /\ seq + 1 \in 0..MaxEntries
      /\ lastHash \in 0..MaxEntries
  BY CustodyAssumption DEF LogInv, LogTypeOK, LogIInv
<1>3. Entry(k, security) = [kind |-> "entry", hash |-> appends + 1, prev |-> lastHash,
                            seq |-> seq + 1, sig |-> s]
  BY DEF Entry
<1> HIDE DEF s
<1>4. QED
  BY <1>1, <1>2, <1>3 DEF Lines

(* What an append does to the lines: it spoils the open one, or adds one.  *)
LEMMA WriteLineCases ==
    ASSUME LogInv, NEW line \in Lines, WriteLine(line)
    PROVE  /\ log' \in Seq(Lines)
           /\ log' # << >>
           /\ tail = "open" => /\ Len(log') = Len(log) /\ log'[Len(log)] = Torn
                               /\ Parsed' = Parsed \ {Len(log)}
                               /\ \A i \in Parsed' : log'[i] = log[i]
           /\ tail = "ended" => /\ Len(log') = Len(log) + 1
                                /\ log'[Len(log) + 1] = line
                                /\ \A i \in 1..Len(log) : log'[i] = log[i]
<1>t. log \in Seq(Lines) /\ tail \in {"ended", "open"} /\ (tail = "open" => log # << >>)
  BY DEF LogInv, LogTypeOK, LogIInv
<1>1. CASE tail = "open"
  <2>1. log' = [log EXCEPT ![Len(log)] = Torn]
    BY <1>1 DEF WriteLine
  <2>2. Torn \in Lines /\ Torn.kind = "torn"
    BY CustodyAssumption DEF Torn, Lines
  <2>3. Len(log) \in 1..Len(log)
    BY <1>1, <1>t
  <2>4. log' \in Seq(Lines) /\ Len(log') = Len(log)
    BY <1>t, <2>1, <2>2, <2>3
  <2>5. \A i \in 1..Len(log) : log'[i] = IF i = Len(log) THEN Torn ELSE log[i]
    BY <1>t, <2>1, <2>3
  <2>6. /\ Parsed' = Parsed \ {Len(log)}
        /\ \A i \in Parsed' : log'[i] = log[i]
    BY <2>2, <2>4, <2>5 DEF Parsed
  <2>7. QED
    BY <1>1, <1>t, <2>3, <2>4, <2>5, <2>6
<1>2. CASE tail = "ended"
  <2>1. log' = Append(log, line)
    BY <1>2 DEF WriteLine
  <2>2. QED
    BY <1>2, <1>t, <2>1
<1>3. QED
  BY <1>t, <1>1, <1>2

(* An append keeps what is known of the log, whatever reaches the file.    *)
LEMMA AppendKeeps ==
    ASSUME LogInv, NEW k \in Keys \cup {None}, NEW security \in BOOLEAN,
           NEW out \in Outcomes, AppendEntry(k, security, out)
    PROVE  /\ LogInv'
           /\ budget'.rotations = budget.rotations /\ budget'.imports = budget.imports
           /\ budget'.crashes = budget.crashes
<1>a. /\ appends < MaxEntries /\ appends' = appends + 1 /\ seq' = seq + 1
      /\ appends \in 0..MaxEntries /\ seq \in 0..MaxEntries /\ lastHash \in 0..MaxEntries
      /\ log \in Seq(Lines) /\ landed \subseteq 1..MaxEntries /\ seq <= appends
      /\ MaxEntries \in Nat
      /\ budget \in [rotations : 0..MaxRotations, imports : 0..MaxImports,
                     failed : 0..MaxFailed, torn : 0..MaxTorn, crashes : 0..MaxCrashes]
  BY CustodyAssumption DEF AppendEntry, LogInv, LogTypeOK, LogIInv, BudgetTypeOK
<1>n. /\ seq \in Nat /\ appends \in Nat /\ seq' = seq + 1 /\ appends' = appends + 1
      /\ seq <= appends
  BY <1>a
<1>b. /\ \A i \in Parsed : log[i].seq <= seq /\ log[i].seq <= appends
      /\ \A i, j \in Parsed : i < j => log[i].seq < log[j].seq
  BY DEF LogInv, LogIInv, SeqIncreasing
<1>d. \A i \in Parsed : log[i].seq \in Nat
  <2> TAKE i \in Parsed
  <2>1. log[i] \in Lines
    BY <1>a DEF Parsed
  <2>2. QED
    BY <1>a, <2>1 DEF Lines
<1>c. seq' <= appends' /\ appends' \in 0..MaxEntries /\ seq' \in 0..MaxEntries
  BY <1>a
<1>1. ASSUME NEW line \in Lines, WriteLine(line),
             line.kind = "entry" => line.seq = seq + 1
      PROVE  /\ log' \in Seq(Lines) /\ log' # << >>
             /\ \A i \in Parsed' : log'[i].seq <= seq' /\ log'[i].seq <= appends'
             /\ \A i, j \in Parsed' : i < j => log'[i].seq < log'[j].seq
  <2>0. tail \in {"ended", "open"}
    BY DEF LogInv, LogTypeOK
  <2>1. CASE tail = "open"
    <3>1. /\ Parsed' \subseteq Parsed /\ \A i \in Parsed' : log'[i] = log[i]
          /\ log' \in Seq(Lines) /\ log' # << >>
      BY <1>1, <2>1, WriteLineCases
    <3>2. \A i \in Parsed' : log'[i].seq <= seq' /\ log'[i].seq <= appends'
      BY <1>n, <1>b, <1>d, <3>1
    <3>3. QED
      BY <1>b, <3>1, <3>2
  <2>2. CASE tail = "ended"
    <3> DEFINE n == Len(log) + 1
    <3>1. /\ Len(log') = n /\ log'[n] = line /\ log' \in Seq(Lines) /\ log' # << >>
          /\ \A i \in 1..Len(log) : log'[i] = log[i]
      BY <1>1, <2>2, WriteLineCases
    <3>2. Len(log) \in Nat
      BY <1>a
    <3>3. \A i \in Parsed' : \/ i = n /\ log'[i].seq = seq + 1
                             \/ i \in Parsed /\ i < n /\ log'[i].seq = log[i].seq
      BY <1>1, <3>1, <3>2 DEF Parsed
    <3> HIDE DEF n
    <3>4. \A i \in Parsed' : log'[i].seq <= seq' /\ log'[i].seq <= appends'
      BY <1>n, <1>b, <1>d, <3>3
    <3>5. \A i, j \in Parsed' : i < j => log'[i].seq < log'[j].seq
      <4> SUFFICES ASSUME NEW i \in Parsed', NEW j \in Parsed', i < j
                   PROVE  log'[i].seq < log'[j].seq
        OBVIOUS
      <4>0. i \in Nat /\ j \in Nat /\ n \in Nat /\ i <= n /\ j <= n
        BY <3>1, <3>2 DEF Parsed, n
      <4>1. CASE j = n
        BY <1>n, <1>b, <1>d, <3>3, <4>0, <4>1
      <4>2. CASE j # n
        BY <1>b, <3>3, <4>0, <4>2
      <4>3. QED
        BY <4>1, <4>2
    <3>6. QED
      BY <3>1, <3>4, <3>5
  <2>3. QED
    BY <2>0, <2>1, <2>2
<1>2. CASE out = "all"
  <2>1. /\ WriteLine(Entry(k, security)) /\ tail' = "ended" /\ lastHash' = appends + 1
        /\ landed' = landed \cup {appends + 1} /\ budget' = budget
    BY <1>2 DEF AppendEntry
  <2>2. Entry(k, security) \in Lines /\ Entry(k, security).seq = seq + 1
    BY <1>a, EntryType
  <2>3. /\ lastHash' \in 0..MaxEntries /\ landed' \subseteq 1..MaxEntries
    BY <1>a, <2>1
  <2>4. QED
    BY <1>1, <1>c, <2>1, <2>2, <2>3, <1>a
    DEF LogInv, LogTypeOK, LogIInv, SeqIncreasing, BudgetTypeOK
<1>3. CASE out = "nothing"
  <2>1. /\ log' = log /\ tail' = tail /\ lastHash' = lastHash /\ landed' = landed
        /\ budget.failed > 0 /\ budget' = [budget EXCEPT !.failed = @ - 1]
    BY <1>3 DEF AppendEntry
  <2>2. /\ BudgetTypeOK' /\ budget'.rotations = budget.rotations
        /\ budget'.imports = budget.imports /\ budget'.crashes = budget.crashes
    BY <2>1, SpendFailed DEF LogInv
  <2>3. Parsed' = Parsed
    BY <2>1 DEF Parsed
  <2>4. \A i \in Parsed : log[i].seq <= seq' /\ log[i].seq <= appends'
    BY <1>n, <1>b, <1>d
  <2>5. QED
    BY <1>c, <2>1, <2>2, <2>3, <2>4 DEF LogInv, LogTypeOK, LogIInv, SeqIncreasing
<1>4. CASE out \in {"part", "object"}
  <2> DEFINE line == IF out = "part" THEN Torn ELSE Entry(k, security)
  <2>1. /\ WriteLine(line) /\ tail' = "open" /\ lastHash' = lastHash /\ landed' = landed
        /\ budget.torn > 0 /\ budget' = [budget EXCEPT !.torn = @ - 1]
    BY <1>4 DEF AppendEntry
  <2>2. /\ BudgetTypeOK' /\ budget'.rotations = budget.rotations
        /\ budget'.imports = budget.imports /\ budget'.crashes = budget.crashes
    BY <2>1, SpendTorn DEF LogInv
  <2>3. line \in Lines /\ (line.kind = "entry" => line.seq = seq + 1)
    <3>1. Torn \in Lines /\ Torn.kind = "torn"
      BY CustodyAssumption DEF Torn, Lines
    <3>2. Entry(k, security) \in Lines /\ Entry(k, security).seq = seq + 1
      BY <1>a, EntryType
    <3>3. QED
      BY <3>1, <3>2
  <2> HIDE DEF line
  <2>4. QED
    BY <1>1, <1>c, <2>1, <2>2, <2>3 DEF LogInv, LogTypeOK, LogIInv, SeqIncreasing
<1>5. QED
  BY <1>2, <1>3, <1>4 DEF Outcomes

(* The constructor resumes no earlier than the last line that parses.      *)
LEMMA ResumeKeeps ==
    ASSUME LogInv, Resume, BudgetTypeOK',
           log' = log, tail' = tail, appends' = appends, landed' = landed
    PROVE  LogInv'
<1>a. /\ log \in Seq(Lines) /\ Len(log) \in Nat /\ Parsed \subseteq 1..Len(log)
      /\ Parsed' = Parsed /\ MaxEntries \in Nat
  BY CustodyAssumption DEF LogInv, LogTypeOK, Parsed
<1>1. CASE Parsed = {}
  <2>1. seq' = 0 /\ lastHash' = 0
    BY <1>1 DEF Resume, None
  <2>2. QED
    BY <1>a, <1>1, <2>1 DEF LogInv, LogTypeOK, LogIInv, SeqIncreasing
<1>2. CASE Parsed # {}
  <2> DEFINE m == Max(Parsed)
  <2>1. m \in Parsed /\ \A i \in Parsed : i <= m
    BY <1>a, <1>2, MaxIsGreatest
  <2>2. seq' = log[m].seq /\ lastHash' = log[m].hash
    BY <1>2 DEF Resume
  <2> HIDE DEF m
  <2>3. log[m] \in Lines
    BY <1>a, <2>1
  <2>4. \A i \in Parsed : log[i].seq \in Nat /\ log[i].seq <= log[m].seq
    <3> TAKE i \in Parsed
    <3>1. log[i] \in Lines /\ i \in Nat /\ m \in Nat
      BY <1>a, <2>1
    <3>2. CASE i = m
      BY <3>1, <3>2 DEF Lines
    <3>3. CASE i < m
      BY <2>1, <2>3, <3>1, <3>3 DEF LogInv, LogIInv, SeqIncreasing, Lines
    <3>4. QED
      BY <2>1, <3>1, <3>2, <3>3
  <2>5. seq' \in 0..MaxEntries /\ lastHash' \in 0..MaxEntries /\ seq' <= appends
    BY <2>1, <2>2, <2>3 DEF Lines, LogInv, LogIInv
  <2>6. QED
    BY <1>a, <2>2, <2>4, <2>5 DEF LogInv, LogTypeOK, LogIInv, SeqIncreasing
<1>3. QED
  BY <1>1, <1>2

(* Handlers that leave the log alone.                                      *)
LEMMA LogFrame ==
    ASSUME LogInv, BudgetTypeOK', UNCHANGED logVars
    PROVE  LogInv'
<1>1. Parsed' = Parsed
  BY DEF logVars, Parsed
<1>2. QED
  BY <1>1 DEF LogInv, LogTypeOK, LogIInv, SeqIncreasing, logVars

KeyInv == KeyTypeOK /\ KeyIInv

(* The steps of the key operations, seen from the keys.                    *)
LEMMA KeyOpTypes ==
    ASSUME KeyInv, BudgetTypeOK, NEW r \in Requests
    PROVE  /\ KeyOp(r) => ops[r].key \in Keys /\ ops[r].mgr \in Keys
           /\ ops[r].kind = "trust" => ops[r].mgr \in Keys
           /\ budget.rotations > 0 \/ budget.imports > 0 => made + 1 \in Keys
<1>1. KeyOp(r) => ops[r].key \in Keys /\ ops[r].mgr \in Keys
  BY DEF KeyInv, KeyIInv, KeyOp
<1>2. ops[r].kind = "trust" => ops[r].mgr \in Keys
  BY DEF KeyInv, KeyIInv
<1>3. budget.rotations > 0 \/ budget.imports > 0 => made + 1 \in Keys
  <2>1. /\ budget.rotations \in Nat /\ budget.imports \in Nat /\ made \in 1..MaxKeys
        /\ made + budget.rotations + budget.imports = MaxKeys /\ MaxKeys \in Nat
    BY CustodyAssumption DEF KeyInv, KeyIInv, KeyTypeOK, BudgetTypeOK, Keys, MaxKeys
  <2> HIDE DEF MaxKeys
  <2>2. QED
    BY <2>1 DEF Keys
<1>4. QED
  BY <1>1, <1>2, <1>3

(* A request whose operation changes.                                      *)
LEMMA OpsStep ==
    ASSUME KeyInv, NEW r \in Requests, NEW op \in Ops, ops' = [ops EXCEPT ![r] = op],
           op.kind # "none" => op.mgr \in Keys,
           op.kind \in {"rotate", "rotated", "import", "imported"} => op.key \in Keys
    PROVE  /\ ops' \in [Requests -> Ops]
           /\ \A q \in Requests : /\ ops'[q].kind # "none" => ops'[q].mgr \in Keys
                                  /\ KeyOp(q)' => ops'[q].key \in Keys
<1>1. ops \in [Requests -> Ops]
  BY DEF KeyInv, KeyTypeOK
<1>2. ops' \in [Requests -> Ops]
  BY <1>1
<1>3. \A q \in Requests : ops'[q] = IF q = r THEN op ELSE ops[q]
  BY <1>1
<1>4. QED
  BY <1>2, <1>3 DEF KeyInv, KeyIInv, KeyOp

(* Nobody waits: the value of an idle request.                             *)
LEMMA IdleOp == Idle \in Ops /\ Idle.kind = "none"
BY DEF Idle, Ops

(* Key operations, trust and the records keep the types of the keys.       *)
LEMMA KeyStep ==
    ASSUME KeyInv, LogInv, [Next]_vars
    PROVE  KeyInv' /\ LogInv'
<1> USE CustodyAssumption
<1>b. BudgetTypeOK
  BY DEF LogInv
<1>n. budget.rotations \in Nat /\ budget.imports \in Nat /\ made \in Nat /\ MaxKeys \in Nat
  BY <1>b DEF BudgetTypeOK, KeyInv, KeyTypeOK, Keys, MaxKeys
<1>1. ASSUME NEW r \in Requests, RotateBegins(r) PROVE KeyInv' /\ LogInv'
  <2> DEFINE op == [kind |-> "rotate", mgr |-> holder, key |-> made + 1]
  <2>1. /\ BudgetTypeOK' /\ budget'.rotations = budget.rotations - 1
        /\ budget'.imports = budget.imports
    BY <1>1, <1>b, SpendRotations DEF RotateBegins
  <2>2. made + 1 \in Keys
    BY <1>1, <1>b, KeyOpTypes DEF RotateBegins
  <2>3. op \in Ops /\ op.kind = "rotate" /\ op.mgr \in Keys /\ op.key \in Keys
    BY <2>2 DEF Ops, KeyInv, KeyTypeOK
  <2>4. ops' = [ops EXCEPT ![r] = op] /\ made' = made + 1 /\ UNCHANGED logVars
    BY <1>1 DEF RotateBegins
  <2> HIDE DEF op
  <2>5. /\ ops' \in [Requests -> Ops]
        /\ \A q \in Requests : /\ ops'[q].kind # "none" => ops'[q].mgr \in Keys
                               /\ KeyOp(q)' => ops'[q].key \in Keys
    BY <2>3, <2>4, OpsStep
  <2>6. made' + budget'.rotations + budget'.imports = MaxKeys
    BY <1>n, <2>1, <2>4 DEF KeyInv, KeyIInv
  <2>7. QED
    BY <1>1, <2>1, <2>2, <2>4, <2>5, <2>6, LogFrame
    DEF RotateBegins, KeyOpBegins, KeyInv, KeyTypeOK, KeyIInv
<1>2. ASSUME NEW r \in Requests, ImportBegins(r) PROVE KeyInv' /\ LogInv'
  <2> DEFINE op == [kind |-> "import", mgr |-> made + 1, key |-> made + 1]
  <2>1. /\ BudgetTypeOK' /\ budget'.imports = budget.imports - 1
        /\ budget'.rotations = budget.rotations
    BY <1>2, <1>b, SpendImports DEF ImportBegins
  <2>2. made + 1 \in Keys
    BY <1>2, <1>b, KeyOpTypes DEF ImportBegins
  <2>3. op \in Ops /\ op.kind = "import" /\ op.mgr \in Keys /\ op.key \in Keys
    BY <2>2 DEF Ops
  <2>4. ops' = [ops EXCEPT ![r] = op] /\ made' = made + 1 /\ UNCHANGED logVars
    BY <1>2 DEF ImportBegins
  <2> HIDE DEF op
  <2>5. /\ ops' \in [Requests -> Ops]
        /\ \A q \in Requests : /\ ops'[q].kind # "none" => ops'[q].mgr \in Keys
                               /\ KeyOp(q)' => ops'[q].key \in Keys
    BY <2>3, <2>4, OpsStep
  <2>6. made' + budget'.rotations + budget'.imports = MaxKeys
    BY <1>n, <2>1, <2>4 DEF KeyInv, KeyIInv
  <2>7. QED
    BY <1>2, <2>1, <2>2, <2>4, <2>5, <2>6, LogFrame
    DEF ImportBegins, KeyOpBegins, KeyInv, KeyTypeOK, KeyIInv
<1>3. ASSUME NEW r \in Requests, KeyWritten(r) PROVE KeyInv' /\ LogInv'
  <2> DEFINE op == [ops[r] EXCEPT !.kind = IF @ = "rotate" THEN "rotated" ELSE "imported"]
  <2>1. KeyOp(r) /\ ops[r] \in Ops
    BY <1>3 DEF KeyWritten, KeyOp, KeyInv, KeyTypeOK
  <2>2. ops[r].key \in Keys /\ ops[r].mgr \in Keys
    BY <1>b, <2>1, KeyOpTypes
  <2>3. op \in Ops /\ op.mgr = ops[r].mgr /\ op.key = ops[r].key
    BY <2>1 DEF Ops
  <2>4. ops' = [ops EXCEPT ![r] = op] /\ UNCHANGED logVars /\ budget' = budget
    BY <1>3 DEF KeyWritten
  <2> HIDE DEF op
  <2>5. /\ ops' \in [Requests -> Ops]
        /\ \A q \in Requests : /\ ops'[q].kind # "none" => ops'[q].mgr \in Keys
                               /\ KeyOp(q)' => ops'[q].key \in Keys
    BY <2>2, <2>3, <2>4, OpsStep
  <2>6. BudgetTypeOK'
    BY <1>b, <2>4 DEF BudgetTypeOK
  <2>7. QED
    BY <1>3, <2>2, <2>4, <2>5, <2>6, LogFrame DEF KeyWritten, KeyInv, KeyTypeOK, KeyIInv
<1>4. ASSUME NEW r \in Requests, TrustBegins(r) PROVE KeyInv' /\ LogInv'
  <2> DEFINE op == [kind |-> "trust", mgr |-> holder, key |-> None]
  <2>1. op \in Ops /\ op.kind = "trust" /\ op.mgr \in Keys
    BY DEF Ops, KeyInv, KeyTypeOK
  <2>2. /\ ops' = [ops EXCEPT ![r] = op] /\ UNCHANGED logVars /\ budget' = budget
        /\ UNCHANGED keyVars /\ sig' = sig
    BY <1>4 DEF TrustBegins
  <2> HIDE DEF op
  <2>3. /\ ops' \in [Requests -> Ops]
        /\ \A q \in Requests : /\ ops'[q].kind # "none" => ops'[q].mgr \in Keys
                               /\ KeyOp(q)' => ops'[q].key \in Keys
    BY <2>1, <2>2, OpsStep
  <2>4. BudgetTypeOK'
    BY <1>b, <2>2 DEF BudgetTypeOK
  <2>5. QED
    BY <2>2, <2>3, <2>4, LogFrame DEF keyVars, KeyInv, KeyTypeOK, KeyIInv
<1>o. ASSUME NEW r \in Requests, ops' = [ops EXCEPT ![r] = Idle]
      PROVE  /\ ops' \in [Requests -> Ops]
             /\ \A q \in Requests : /\ ops'[q].kind # "none" => ops'[q].mgr \in Keys
                                    /\ KeyOp(q)' => ops'[q].key \in Keys
  BY <1>o, IdleOp, OpsStep
<1>5. ASSUME NEW r \in Requests, NEW out \in Outcomes, RotateEnds(r, out)
      PROVE  KeyInv' /\ LogInv'
  <2>1. ops[r].key \in Keys /\ ops[r].mgr \in Keys
    BY <1>5, <1>b, KeyOpTypes DEF RotateEnds, KeyOp
  <2>2. keyOf' \in [Keys -> Keys \cup {None}] /\ keyOf'[holder] \in Keys \cup {None}
    BY <1>5, <2>1 DEF RotateEnds, KeyInv, KeyTypeOK
  <2>3. sig' \in [Records -> Keys \cup {None}]
    BY <1>5, <2>2 DEF RotateEnds, ReSigned, KeyInv, KeyTypeOK
  <2>4. /\ LogInv' /\ budget'.rotations = budget.rotations
        /\ budget'.imports = budget.imports
    BY <1>5, <2>2, AppendKeeps DEF RotateEnds
  <2>5. QED
    BY <1>5, <1>o, <2>2, <2>3, <2>4 DEF RotateEnds, KeyInv, KeyTypeOK, KeyIInv
<1>6. ASSUME NEW r \in Requests, NEW out \in Outcomes, ImportEnds(r, out)
      PROVE  KeyInv' /\ LogInv'
  <2>1. ops[r].key \in Keys /\ ops[r].mgr \in Keys
    BY <1>6, <1>b, KeyOpTypes DEF ImportEnds, KeyOp
  <2>2. keyOf' \in [Keys -> Keys \cup {None}]
    BY <1>6, <2>1 DEF ImportEnds, KeyInv, KeyTypeOK
  <2>3. /\ LogInv' /\ budget'.rotations = budget.rotations
        /\ budget'.imports = budget.imports
    BY <1>6, <2>1, AppendKeeps DEF ImportEnds
  <2>4. QED
    BY <1>6, <1>o, <2>1, <2>2, <2>3 DEF ImportEnds, KeyInv, KeyTypeOK, KeyIInv
<1>l. Live \in Keys \cup {None}
  BY DEF Live, KeyInv, KeyTypeOK
<1>7. ASSUME NEW r \in Requests, NEW p \in Plugins, NEW out \in Outcomes,
             TrustEnds(r, p, out)
      PROVE  KeyInv' /\ LogInv'
  <2>1. ops[r].mgr \in Keys
    BY <1>7, <1>b, KeyOpTypes DEF TrustEnds
  <2>2. sig' \in [Records -> Keys \cup {None}]
    BY <1>7, <2>1 DEF TrustEnds, KeyInv, KeyTypeOK
  <2>3. /\ LogInv' /\ budget'.rotations = budget.rotations
        /\ budget'.imports = budget.imports
    BY <1>7, <1>l, AppendKeeps DEF TrustEnds
  <2>4. QED
    BY <1>7, <1>o, <2>2, <2>3 DEF TrustEnds, keyVars, KeyInv, KeyTypeOK, KeyIInv
<1>8. ASSUME NEW k \in Keys \cup {None}, NEW x \in Records, NEW security \in BOOLEAN,
             NEW out \in Outcomes, AppendEntry(Live, security, out),
             sig' = [sig EXCEPT ![x] = k] \/ sig' = sig, UNCHANGED <<keyVars, ops>>
      PROVE  KeyInv' /\ LogInv'
  <2>1. sig' \in [Records -> Keys \cup {None}]
    BY <1>8 DEF KeyInv, KeyTypeOK
  <2>2. /\ LogInv' /\ budget'.rotations = budget.rotations
        /\ budget'.imports = budget.imports
    BY <1>8, <1>l, AppendKeeps
  <2>3. QED
    BY <1>8, <2>1, <2>2 DEF keyVars, KeyInv, KeyTypeOK, KeyIInv, KeyOp
<1>9. ASSUME NEW p \in Plans, NEW out \in Outcomes, Approve(p, out) PROVE KeyInv' /\ LogInv'
  BY <1>9, <1>8, <1>l DEF Approve, Records
<1>10. ASSUME NEW x \in Records, NEW out \in Outcomes, Revoke(x, out)
       PROVE  KeyInv' /\ LogInv'
  BY <1>10, <1>8 DEF Revoke
<1>11. ASSUME NEW out \in Outcomes, Note(out) PROVE KeyInv' /\ LogInv'
  <2>1. /\ LogInv' /\ budget'.rotations = budget.rotations
        /\ budget'.imports = budget.imports
    BY <1>11, <1>l, AppendKeeps DEF Note
  <2>2. QED
    BY <1>11, <2>1 DEF Note, keyVars, KeyInv, KeyTypeOK, KeyIInv, KeyOp
<1>12. ASSUME Reboot, sig' \in [Records -> Keys \cup {None}] PROVE KeyInv' /\ LogInv'
  <2>1. /\ BudgetTypeOK' /\ budget'.rotations = budget.rotations
        /\ budget'.imports = budget.imports
    BY <1>12, <1>b, SpendCrashes DEF Reboot
  <2>2. ops' = [r \in Requests |-> Idle]
    BY <1>12 DEF Reboot
  <2>3. /\ ops' \in [Requests -> Ops]
        /\ \A q \in Requests : ops'[q].kind = "none"
    BY <2>2, IdleOp
  <2>4. keyOf' \in [Keys -> Keys \cup {None}] /\ holder' \in Keys
    BY <1>12 DEF Reboot, KeyInv, KeyTypeOK
  <2>5. LogInv'
    BY <1>12, <2>1, ResumeKeeps DEF Reboot
  <2>6. QED
    BY <1>12, <2>1, <2>3, <2>4, <2>5 DEF Reboot, KeyInv, KeyTypeOK, KeyIInv, KeyOp
<1>13. CASE Crash
  BY <1>12, <1>13 DEF Crash, KeyInv, KeyTypeOK
<1>14. ASSUME NEW r \in Requests, CrashInReSign(r) PROVE KeyInv' /\ LogInv'
  <2>1. ops[r].key \in Keys
    BY <1>14, <1>b, KeyOpTypes DEF CrashInReSign, KeyOp
  <2>2. sig' \in [Records -> Keys \cup {None}]
    BY <1>14, <1>l, <2>1 DEF CrashInReSign, ReSigned, KeyInv, KeyTypeOK
  <2>3. QED
    BY <1>12, <1>14, <2>2 DEF CrashInReSign
<1>15. CASE UNCHANGED vars
  <2>1. UNCHANGED logVars /\ BudgetTypeOK'
    BY <1>15, <1>b DEF vars, logVars, BudgetTypeOK
  <2>2. QED
    BY <1>15, <2>1, LogFrame DEF vars, KeyInv, KeyTypeOK, KeyIInv, KeyOp
<1>16. QED
  BY <1>1, <1>2, <1>3, <1>4, <1>5, <1>6, <1>7, <1>9, <1>10, <1>11, <1>13, <1>14, <1>15
  DEF Next

(* The invariants hold at first boot.                                      *)
LEMMA FirstBoot == Init => KeyInv /\ LogInv
<1> SUFFICES ASSUME Init PROVE KeyInv /\ LogInv
  OBVIOUS
<1> USE CustodyAssumption
<1>1. 1 \in Keys
  BY DEF Keys, MaxKeys
<1>2. ops \in [Requests -> Ops] /\ \A r \in Requests : ops[r].kind = "none"
  BY IdleOp DEF Init
<1>3. BudgetTypeOK
  BY DEF Init, BudgetTypeOK
<1>4. KeyInv
  BY <1>1, <1>2 DEF Init, KeyInv, KeyTypeOK, KeyIInv, KeyOp, MaxKeys
<1>5. Parsed = {} /\ log \in Seq(Lines)
  BY DEF Init, Parsed
<1>6. LogInv
  BY <1>3, <1>5 DEF Init, LogInv, LogTypeOK, LogIInv, SeqIncreasing, None
<1>7. QED
  BY <1>4, <1>6

(* Keys, records, requests and the log keep their types, for any bounds.   *)
THEOREM TypeCorrect == Spec => []TypeOK
<1>1. KeyInv /\ LogInv /\ [Next]_vars => KeyInv' /\ LogInv'
  BY KeyStep
<1>2. KeyInv /\ LogInv => TypeOK
  BY DEF KeyInv, LogInv, TypeOK
<1>3. QED
  BY <1>1, <1>2, FirstBoot, PTL DEF Spec

(* Readable entries have increasing sequence numbers, whatever appends     *)
(* failed, were torn or merged, and wherever the log was resumed.          *)
THEOREM SeqsIncrease == Spec => []SeqIncreasing
<1>1. KeyInv /\ LogInv /\ [Next]_vars => KeyInv' /\ LogInv'
  BY KeyStep
<1>2. LogInv => SeqIncreasing
  BY DEF LogInv, LogIInv
<1>3. QED
  BY <1>1, <1>2, FirstBoot, PTL DEF Spec

-----------------------------------------------------------------------------
(* What a step may do to the log.                                          *)
LEMMA LogSteps ==
    ASSUME KeyInv, LogInv, [Next]_vars
    PROVE  \/ UNCHANGED logVars /\ budget'.torn = budget.torn
           \/ \E k \in Keys \cup {None}, security \in BOOLEAN, out \in Outcomes :
                 AppendEntry(k, security, out)
           \/ /\ Resume /\ UNCHANGED <<log, tail, appends, landed>>
              /\ budget'.torn = budget.torn
<1> DEFINE Stays == UNCHANGED logVars /\ budget'.torn = budget.torn
           Appends == \E k \in Keys \cup {None}, security \in BOOLEAN, out \in Outcomes :
                         AppendEntry(k, security, out)
           Resumes == /\ Resume /\ UNCHANGED <<log, tail, appends, landed>>
                      /\ budget'.torn = budget.torn
<1>b. BudgetTypeOK
  BY DEF LogInv
<1>l. Live \in Keys \cup {None}
  BY DEF Live, KeyInv, KeyTypeOK
<1>1. ASSUME NEW r \in Requests, RotateBegins(r) PROVE Stays
  BY <1>1, <1>b, SpendRotations DEF RotateBegins
<1>2. ASSUME NEW r \in Requests, ImportBegins(r) PROVE Stays
  BY <1>2, <1>b, SpendImports DEF ImportBegins
<1>3. ASSUME NEW r \in Requests, KeyWritten(r) \/ TrustBegins(r) PROVE Stays
  BY <1>3 DEF KeyWritten, TrustBegins
<1>4. ASSUME NEW r \in Requests, NEW out \in Outcomes, RotateEnds(r, out) PROVE Appends
  <2>1. ops[r].key \in Keys /\ ops[r].mgr \in Keys
    BY <1>4, <1>b, KeyOpTypes DEF RotateEnds, KeyOp
  <2>2. keyOf'[holder] \in Keys \cup {None}
    BY <1>4, <2>1 DEF RotateEnds, KeyInv, KeyTypeOK
  <2>3. QED
    BY <1>4, <2>2 DEF RotateEnds
<1>5. ASSUME NEW r \in Requests, NEW out \in Outcomes, ImportEnds(r, out) PROVE Appends
  <2>1. ops[r].key \in Keys
    BY <1>5, <1>b, KeyOpTypes DEF ImportEnds, KeyOp
  <2>2. QED
    BY <1>5, <2>1 DEF ImportEnds
<1>6. ASSUME NEW out \in Outcomes,
             \/ \E r \in Requests, p \in Plugins : TrustEnds(r, p, out)
             \/ \E p \in Plans : Approve(p, out)
             \/ \E x \in Records : Revoke(x, out)
             \/ Note(out)
      PROVE  Appends
  <2>1. AppendEntry(Live, TRUE, out) \/ AppendEntry(Live, FALSE, out)
    BY <1>6 DEF TrustEnds, Approve, Revoke, Note
  <2>2. QED
    BY <1>l, <2>1
<1>7. ASSUME Reboot PROVE Resumes
  BY <1>7, <1>b, SpendCrashes DEF Reboot
<1>8. ASSUME UNCHANGED vars PROVE Stays
  BY <1>8 DEF vars, logVars
<1> HIDE DEF Stays, Appends, Resumes
<1>9. Stays \/ Appends \/ Resumes
  BY <1>1, <1>2, <1>3, <1>4, <1>5, <1>6, <1>7, <1>8 DEF Next, Crash, CrashInReSign
<1>10. QED
  BY <1>9 DEF Stays, Appends, Resumes

(* The chain grows by one link, or stays as it is.                         *)
LEMMA ChainStep ==
    ASSUME KeyInv, LogInv, ChainIInv, [Next]_vars
    PROVE  ChainIInv'
<1>t. /\ log \in Seq(Lines) /\ Len(log) \in Nat /\ budget.torn \in 0..MaxTorn
      /\ MaxTorn \in Nat
  BY CustodyAssumption DEF LogInv, LogTypeOK, BudgetTypeOK
<1>1. CASE UNCHANGED logVars /\ budget'.torn = budget.torn
  BY <1>1 DEF ChainIInv, Parsed, logVars
<1>2. ASSUME NEW k \in Keys \cup {None}, NEW security \in BOOLEAN, NEW out \in Outcomes,
             AppendEntry(k, security, out)
      PROVE  ChainIInv'
  <2>1. CASE out = "all"
    <3> DEFINE e == Entry(k, security)
               n == Len(log) + 1
    <3>1. /\ WriteLine(e) /\ tail' = "ended" /\ lastHash' = appends + 1
          /\ budget' = budget /\ appends < MaxEntries
      BY <1>2, <2>1 DEF AppendEntry
    <3>2. SUFFICES ASSUME budget.torn = MaxTorn PROVE ChainIInv'
      BY <3>1 DEF ChainIInv
    <3>3. /\ tail = "ended" /\ Parsed = 1..Len(log)
          /\ lastHash = IF log = << >> THEN None ELSE log[Len(log)].hash
          /\ \A i \in 1..Len(log) : log[i].prev = IF i = 1 THEN None ELSE log[i - 1].hash
      BY <3>2 DEF ChainIInv
    <3>4. e \in Lines /\ e.kind = "entry" /\ e.prev = lastHash /\ e.hash = appends + 1
      BY <3>1, EntryType
    <3>5. /\ log' \in Seq(Lines) /\ log' # << >> /\ Len(log') = n /\ log'[n] = e
          /\ \A i \in 1..Len(log) : log'[i] = log[i]
      BY <3>1, <3>3, <3>4, WriteLineCases
    <3> HIDE DEF e
    <3>6. Parsed' = 1..Len(log')
      BY <1>t, <3>3, <3>4, <3>5 DEF Parsed
    <3>7. \A i \in 1..Len(log') : log'[i].prev = IF i = 1 THEN None ELSE log'[i - 1].hash
      <4> TAKE i \in 1..Len(log')
      <4>1. CASE i = n
        <5>1. log'[i].prev = lastHash
          BY <3>4, <3>5, <4>1
        <5>2. CASE log = << >>
          BY <1>t, <3>3, <4>1, <5>1, <5>2
        <5>3. CASE log # << >>
          <6>1. Len(log) \in 1..Len(log) /\ i # 1 /\ i - 1 = Len(log)
            BY <1>t, <4>1, <5>3
          <6>2. QED
            BY <3>3, <3>5, <5>1, <5>3, <6>1
        <5>4. QED
          BY <5>2, <5>3
      <4>2. CASE i # n
        <5>1. i \in 1..Len(log) /\ (i # 1 => i - 1 \in 1..Len(log))
          BY <1>t, <3>5, <4>2
        <5>2. QED
          BY <3>3, <3>5, <5>1
      <4>3. QED
        BY <4>1, <4>2
    <3>8. lastHash' = log'[Len(log')].hash
      BY <3>1, <3>4, <3>5
    <3>9. QED
      BY <3>1, <3>5, <3>6, <3>7, <3>8 DEF ChainIInv
  <2>2. CASE out = "nothing"
    <3>1. /\ UNCHANGED <<log, tail, lastHash>> /\ budget.failed > 0
          /\ budget' = [budget EXCEPT !.failed = @ - 1]
      BY <1>2, <2>2 DEF AppendEntry
    <3>2. budget'.torn = budget.torn
      BY <3>1, SpendFailed DEF LogInv
    <3>3. QED
      BY <3>1, <3>2 DEF ChainIInv, Parsed
  <2>3. CASE out \in {"part", "object"}
    <3>1. budget.torn > 0 /\ budget' = [budget EXCEPT !.torn = @ - 1]
      BY <1>2, <2>3 DEF AppendEntry
    <3>2. budget'.torn = budget.torn - 1
      BY <3>1, SpendTorn DEF LogInv
    <3>3. budget'.torn # MaxTorn
      BY <1>t, <3>2
    <3>4. QED
      BY <3>3 DEF ChainIInv
  <2>4. QED
    BY <2>1, <2>2, <2>3 DEF Outcomes
<1>3. CASE /\ Resume /\ UNCHANGED <<log, tail, appends, landed>>
           /\ budget'.torn = budget.torn
  <2>1. SUFFICES ASSUME budget.torn = MaxTorn PROVE ChainIInv'
    BY <1>3 DEF ChainIInv
  <2>2. Parsed = 1..Len(log)
    BY <2>1 DEF ChainIInv
  <2>3. lastHash' = IF log = << >> THEN None ELSE log[Len(log)].hash
    <3>1. CASE log = << >>
      <4>1. Parsed = {}
        BY <2>2, <3>1
      <4>2. QED
        BY <1>3, <3>1, <4>1 DEF Resume
    <3>2. CASE log # << >>
      <4>0. Len(log) \in 1..Len(log)
        BY <1>t, <3>2
      <4>1. Len(log) \in Parsed /\ Parsed # {}
        BY <2>2, <4>0, Zenon
      <4>2. Max(Parsed) \in Parsed /\ \A i \in Parsed : i <= Max(Parsed)
        BY <1>t, <2>2, <4>1, MaxIsGreatest
      <4>3. Max(Parsed) = Len(log)
        BY <1>t, <2>2, <4>1, <4>2
      <4>4. QED
        BY <1>3, <3>2, <4>1, <4>3 DEF Resume
    <3>3. QED
      BY <3>1, <3>2
  <2>4. QED
    BY <1>3, <2>1, <2>2, <2>3 DEF ChainIInv, Parsed
<1>4. QED
  BY <1>1, <1>2, <1>3, LogSteps

(* A chain of consecutive links is what verify() accepts.                  *)
LEMMA ChainLinks ==
    ASSUME LogInv, ChainIInv
    PROVE  ChainUnbroken
<1>1. SUFFICES ASSUME budget.torn = MaxTorn, NEW i \in Parsed PROVE Linked(i)
  BY DEF ChainUnbroken
<1>2. /\ Parsed = 1..Len(log) /\ Len(log) \in Nat
      /\ log[i].prev = IF i = 1 THEN None ELSE log[i - 1].hash
  BY <1>1 DEF ChainIInv, LogInv, LogTypeOK
<1>3. i \in Nat /\ i >= 1 /\ Before(i) = {j \in 1..Len(log) : j < i}
  BY <1>1, <1>2 DEF Before
<1>4. CASE i = 1
  <2>1. Before(i) = {}
    BY <1>2, <1>3, <1>4
  <2>2. QED
    BY <1>2, <1>4, <2>1 DEF Linked, HashBefore
<1>5. CASE i # 1
  <2>1. i - 1 \in Before(i) /\ Before(i) \subseteq 1..Len(log)
    BY <1>1, <1>2, <1>3, <1>5
  <2>2. Max(Before(i)) \in Before(i) /\ \A j \in Before(i) : j <= Max(Before(i))
    BY <1>2, <2>1, MaxIsGreatest
  <2>3. Max(Before(i)) = i - 1
    <3> DEFINE m == Max(Before(i))
    <3>1. m \in 1..Len(log) /\ m < i /\ i - 1 <= m
      BY <1>3, <2>1, <2>2
    <3> HIDE DEF m
    <3>2. m = i - 1
      BY <1>2, <1>3, <3>1
    <3>3. QED
      BY <3>2 DEF m
  <2>4. QED
    BY <1>2, <1>5, <2>1, <2>3 DEF Linked, HashBefore
<1>6. QED
  BY <1>4, <1>5

(* The hash chain is unbroken while no append wrote a part of a line,      *)
(* through failing appends, crashes at any await and restarts.             *)
THEOREM ChainHolds == Spec => []ChainUnbroken
<1>1. Init => ChainIInv
  BY DEF Init, ChainIInv, Parsed
<1>2. KeyInv /\ LogInv /\ ChainIInv /\ [Next]_vars => KeyInv' /\ LogInv' /\ ChainIInv'
  BY KeyStep, ChainStep
<1>3. LogInv /\ ChainIInv => ChainUnbroken
  BY ChainLinks
<1>4. QED
  BY <1>1, <1>2, <1>3, FirstBoot, PTL DEF Spec

-----------------------------------------------------------------------------
(* One key operation at a time keeps the file and the manager in step.     *)
LEMMA InStepStep ==
    ASSUME KeyInv, LogInv, overlap = "no", InStep, [Next]_vars, overlap' = "no"
    PROVE  InStep'
<1>t. /\ ops \in [Requests -> Ops] /\ keyOf \in [Keys -> Keys \cup {None}]
      /\ holder \in Keys /\ keyFile \in Keys
  BY DEF KeyInv, KeyTypeOK
<1>b. BudgetTypeOK
  BY DEF LogInv
<1>i. /\ Idle.kind = "none"
      /\ \A r, q \in Requests : KeyOp(r) /\ KeyOp(q) => r = q
      /\ \A r \in Requests : ops[r].kind \in {"rotate", "rotated"} => ops[r].mgr = holder
      /\ \A r \in Requests : ops[r].kind \in {"rotated", "imported"} => keyFile = ops[r].key
      /\ (\A r \in Requests : ops[r].kind \notin {"rotated", "imported"}) => Live = keyFile
  BY IdleOp DEF InStep
<1>1. ASSUME NEW r \in Requests, RotateBegins(r) \/ ImportBegins(r) \/ TrustBegins(r)
      PROVE  InStep'
  <2>1. /\ ops[r] = Idle /\ UNCHANGED <<keyFile, keyOf, holder>>
        /\ \A q \in Requests \ {r} : ops'[q] = ops[q]
    BY <1>1, <1>t DEF RotateBegins, ImportBegins, TrustBegins, KeyOpBegins, keyVars
  <2>2. ops'[r].kind \in {"rotate", "import", "trust"}
    BY <1>1, <1>t DEF RotateBegins, ImportBegins, TrustBegins
  <2>3. ops'[r].kind = "rotate" => ops'[r].mgr = holder
    BY <1>1, <1>t DEF RotateBegins, ImportBegins, TrustBegins
  <2>4. KeyOp(r)' => \A q \in Requests : ~KeyOp(q)
    BY <1>1, <1>t DEF RotateBegins, ImportBegins, TrustBegins, KeyOpBegins, KeyOp
  <2>5. \A p, q \in Requests : KeyOp(p)' /\ KeyOp(q)' => p = q
    BY <1>i, <2>1, <2>4 DEF KeyOp
  <2>6. QED
    BY <1>i, <2>1, <2>2, <2>3, <2>5 DEF InStep, Live
<1>2. ASSUME NEW r \in Requests, KeyWritten(r) PROVE InStep'
  <2>1. /\ UNCHANGED <<keyOf, holder>> /\ keyFile' = ops[r].key
        /\ \A q \in Requests \ {r} : ops'[q] = ops[q]
        /\ ops[r].kind \in {"rotate", "import"} /\ KeyOp(r)
    BY <1>2, <1>t DEF KeyWritten, KeyOp
  <2>2. /\ ops'[r].kind = IF ops[r].kind = "rotate" THEN "rotated" ELSE "imported"
        /\ ops'[r].key = ops[r].key /\ ops'[r].mgr = ops[r].mgr
    BY <1>2, <1>t DEF KeyWritten, Ops
  <2>3. \A q \in Requests \ {r} : ~KeyOp(q)
    BY <1>i, <2>1
  <2>4. QED
    BY <1>i, <2>1, <2>2, <2>3 DEF InStep, KeyOp
<1>3. ASSUME NEW r \in Requests, NEW out \in Outcomes, RotateEnds(r, out)
      PROVE  InStep'
  <2>1. /\ UNCHANGED <<keyFile, holder>> /\ ops[r].kind = "rotated" /\ KeyOp(r)
        /\ \A q \in Requests : ops'[q] = IF q = r THEN Idle ELSE ops[q]
    BY <1>3, <1>t DEF RotateEnds, KeyOp
  <2>2. ops[r].mgr = holder /\ keyFile = ops[r].key
    BY <1>i, <2>1
  <2>3. keyOf'[holder] = keyFile
    BY <1>3, <1>t, <2>2 DEF RotateEnds
  <2>4. \A q \in Requests : ~KeyOp(q)'
    BY <1>i, <2>1 DEF KeyOp
  <2>5. QED
    BY <2>1, <2>3, <2>4 DEF InStep, KeyOp, Live
<1>4. ASSUME NEW r \in Requests, NEW out \in Outcomes, ImportEnds(r, out)
      PROVE  InStep'
  <2>1. /\ keyFile' = keyFile /\ holder' = ops[r].mgr /\ ops[r].kind = "imported"
        /\ KeyOp(r) /\ \A q \in Requests : ops'[q] = IF q = r THEN Idle ELSE ops[q]
    BY <1>4, <1>t DEF ImportEnds, KeyOp
  <2>2. ops[r].mgr \in Keys /\ keyFile = ops[r].key
    BY <1>i, <1>b, <2>1, KeyOpTypes
  <2>3. keyOf'[holder'] = keyFile
    BY <1>4, <1>t, <2>1, <2>2 DEF ImportEnds
  <2>4. \A q \in Requests : ~KeyOp(q)'
    BY <1>i, <2>1 DEF KeyOp
  <2>5. QED
    BY <2>1, <2>3, <2>4 DEF InStep, KeyOp, Live
<1>5. ASSUME NEW r \in Requests, NEW p \in Plugins, NEW out \in Outcomes,
             TrustEnds(r, p, out)
      PROVE  InStep'
  <2>1. /\ UNCHANGED keyVars /\ ops[r].kind = "trust"
        /\ \A q \in Requests : ops'[q] = IF q = r THEN Idle ELSE ops[q]
    BY <1>5, <1>t DEF TrustEnds
  <2>2. QED
    BY <1>i, <2>1 DEF InStep, KeyOp, Live, keyVars
<1>6. CASE UNCHANGED <<keyVars, ops>>
  BY <1>6 DEF InStep, KeyOp, Live, keyVars
<1>7. CASE Reboot
  <2>1. /\ keyFile' = keyFile /\ holder' = keyFile /\ keyOf'[keyFile] = keyFile
        /\ \A r \in Requests : ops'[r].kind = "none"
    BY <1>7, <1>t, <1>i DEF Reboot
  <2>2. QED
    BY <2>1 DEF InStep, KeyOp, Live
<1>8. QED
  BY <1>1, <1>2, <1>3, <1>4, <1>5, <1>6, <1>7
  DEF Next, Crash, CrashInReSign, Approve, Revoke, Note, vars, keyVars

(* A start reads the key from its file.                                    *)
LEMMA RebootInStep ==
    ASSUME KeyInv, Reboot
    PROVE  InStep'
<1>1. /\ keyFile' = keyFile /\ holder' = keyFile /\ keyOf'[keyFile] = keyFile
      /\ \A r \in Requests : ops'[r].kind = "none"
  BY IdleOp DEF Reboot, KeyInv, KeyTypeOK
<1>2. QED
  BY <1>1 DEF InStep, KeyOp, Live

(* Only a start ends an overlap.                                           *)
LEMMA OverlapStays ==
    ASSUME [Next]_vars, ~Reboot, overlap' = "no"
    PROVE  overlap = "no"
BY DEF Next, RotateBegins, ImportBegins, KeyOpBegins, KeyWritten, RotateEnds, ImportEnds,
       TrustBegins, TrustEnds, Approve, Revoke, Note, Crash, CrashInReSign, keyVars, vars

(* Every step keeps CustodyIInv.                                           *)
LEMMA CustodyStep ==
    ASSUME KeyInv, LogInv, CustodyIInv, [Next]_vars
    PROVE  CustodyIInv'
<1>1. CASE Reboot
  BY <1>1, RebootInStep DEF CustodyIInv
<1>2. CASE ~Reboot
  BY <1>2, OverlapStays, InStepStep DEF CustodyIInv
<1>3. QED
  BY <1>1, <1>2

(* Unless two of them overlapped since the last start, no key operation,   *)
(* crash or restart leaves the orchestrator signing with another key than  *)
(* the one in custody.                                                     *)
THEOREM CustodyKept == Spec => []CustodyMatches
<1>1. Init => CustodyIInv
  <2> SUFFICES ASSUME Init PROVE InStep
    BY DEF CustodyIInv
  <2>1. 1 \in Keys /\ \A r \in Requests : ops[r].kind = "none"
    BY CustodyAssumption, IdleOp DEF Init, Keys, MaxKeys
  <2>2. Live = keyFile
    BY <2>1 DEF Init, Live
  <2>3. QED
    BY <2>1, <2>2 DEF InStep, KeyOp
<1>2. KeyInv /\ LogInv /\ CustodyIInv /\ [Next]_vars => KeyInv' /\ LogInv' /\ CustodyIInv'
  BY KeyStep, CustodyStep
<1>3. CustodyIInv => CustodyMatches
  BY DEF CustodyIInv, InStep, CustodyMatches, KeyOp
<1>4. QED
  BY <1>1, <1>2, <1>3, FirstBoot, PTL DEF Spec

-----------------------------------------------------------------------------
(* A step that spends an import or a crash is not calm afterwards.         *)
LEMMA SpendNotCalm ==
    ASSUME BudgetTypeOK, Calm'
    PROVE  /\ ~(budget.imports > 0 /\ budget' = [budget EXCEPT !.imports = @ - 1])
           /\ ~(budget.crashes > 0 /\ budget' = [budget EXCEPT !.crashes = @ - 1])
<1>1. /\ budget.imports \in 0..MaxImports /\ budget.crashes \in 0..MaxCrashes
      /\ MaxImports \in Nat /\ MaxCrashes \in Nat
  BY CustodyAssumption DEF BudgetTypeOK
<1>2. ~(budget.imports > 0 /\ budget' = [budget EXCEPT !.imports = @ - 1])
  BY <1>1, SpendImports DEF Calm
<1>3. ~(budget.crashes > 0 /\ budget' = [budget EXCEPT !.crashes = @ - 1])
  BY <1>1, SpendCrashes DEF Calm
<1>4. QED
  BY <1>2, <1>3

(* What a step spends.                                                     *)
LEMMA BudgetSteps ==
    ASSUME [Next]_vars
    PROVE  \/ UNCHANGED budget
           \/ budget.rotations > 0 /\ budget' = [budget EXCEPT !.rotations = @ - 1]
           \/ budget.imports > 0 /\ budget' = [budget EXCEPT !.imports = @ - 1]
           \/ budget.failed > 0 /\ budget' = [budget EXCEPT !.failed = @ - 1]
           \/ budget.torn > 0 /\ budget' = [budget EXCEPT !.torn = @ - 1]
           \/ budget.crashes > 0 /\ budget' = [budget EXCEPT !.crashes = @ - 1]
<1>1. ASSUME NEW k, NEW security, NEW out, AppendEntry(k, security, out)
      PROVE  \/ UNCHANGED budget
             \/ budget.failed > 0 /\ budget' = [budget EXCEPT !.failed = @ - 1]
             \/ budget.torn > 0 /\ budget' = [budget EXCEPT !.torn = @ - 1]
  BY <1>1 DEF AppendEntry
<1>2. QED
  BY <1>1 DEF Next, RotateBegins, ImportBegins, KeyWritten, RotateEnds, ImportEnds,
              TrustBegins, TrustEnds, Approve, Revoke, Note, Crash, CrashInReSign, Reboot,
              vars

(* Calm once gone does not come back.                                      *)
LEMMA CalmStays ==
    ASSUME BudgetTypeOK, [Next]_vars, Calm'
    PROVE  Calm
<1>1. CASE UNCHANGED budget
  BY <1>1 DEF Calm
<1>2. CASE budget.rotations > 0 /\ budget' = [budget EXCEPT !.rotations = @ - 1]
  BY <1>2, SpendRotations DEF Calm
<1>3. CASE budget.failed > 0 /\ budget' = [budget EXCEPT !.failed = @ - 1]
  BY <1>3, SpendFailed DEF Calm
<1>4. CASE budget.torn > 0 /\ budget' = [budget EXCEPT !.torn = @ - 1]
  BY <1>4, SpendTorn DEF Calm
<1>5. QED
  BY <1>1, <1>2, <1>3, <1>4, SpendNotCalm, BudgetSteps

(* Re-signing and signing agree on the key.                                *)
LEMMA OneManagerStep ==
    ASSUME KeyInv, LogInv, OneManager, [Next]_vars, Calm'
    PROVE  OneManager'
<1>t. /\ ops \in [Requests -> Ops] /\ keyOf \in [Keys -> Keys \cup {None}]
      /\ holder \in Keys /\ sig \in [Records -> Keys \cup {None}]
  BY DEF KeyInv, KeyTypeOK
<1>b. BudgetTypeOK
  BY DEF LogInv
<1>i. /\ Idle.kind = "none"
      /\ \A x \in Records : sig[x] # None => sig[x] = keyOf[holder]
      /\ \A r \in Requests : /\ ops[r].kind # "none" => ops[r].mgr = holder
                             /\ ops[r].kind \notin {"import", "imported"}
  BY IdleOp DEF OneManager, Live
<1>1. ASSUME NEW r \in Requests, RotateBegins(r) \/ TrustBegins(r) PROVE OneManager'
  <2>1. /\ UNCHANGED <<keyOf, holder, sig>>
        /\ \A q \in Requests \ {r} : ops'[q] = ops[q]
        /\ ops'[r].kind \in {"rotate", "trust"} /\ ops'[r].mgr = holder
    BY <1>1, <1>t DEF RotateBegins, TrustBegins, keyVars
  <2>2. QED
    BY <1>i, <2>1 DEF OneManager, Live
<1>2. ASSUME NEW r \in Requests, KeyWritten(r) PROVE OneManager'
  <2>1. /\ UNCHANGED <<keyOf, holder, sig>> /\ ops[r].kind = "rotate"
        /\ \A q \in Requests \ {r} : ops'[q] = ops[q]
    BY <1>2, <1>t, <1>i DEF KeyWritten
  <2>2. ops'[r].kind = "rotated" /\ ops'[r].mgr = ops[r].mgr
    BY <1>2, <1>t, <2>1 DEF KeyWritten, Ops
  <2>3. QED
    BY <1>i, <2>1, <2>2 DEF OneManager, Live
<1>3. ASSUME NEW r \in Requests, NEW out \in Outcomes, RotateEnds(r, out)
      PROVE  OneManager'
  <2>1. /\ holder' = holder /\ \A q \in Requests : ops'[q] = IF q = r THEN Idle ELSE ops[q]
    BY <1>3, <1>t DEF RotateEnds
  <2>2. \A x \in Records : sig'[x] = IF sig[x] # None THEN keyOf'[holder] ELSE sig[x]
    BY <1>3 DEF RotateEnds, ReSigned
  <2>3. QED
    BY <1>i, <2>1, <2>2 DEF OneManager, Live
<1>4. ASSUME NEW r \in Requests, NEW p \in Plugins, NEW out \in Outcomes,
             TrustEnds(r, p, out)
      PROVE  OneManager'
  <2>1. /\ UNCHANGED <<keyOf, holder>> /\ ops[r].kind = "trust"
        /\ \A q \in Requests : ops'[q] = IF q = r THEN Idle ELSE ops[q]
    BY <1>4, <1>t DEF TrustEnds, keyVars
  <2>2. \A x \in Records : sig'[x] = IF x = p THEN keyOf[ops[r].mgr] ELSE sig[x]
    BY <1>4, <1>t DEF TrustEnds
  <2>3. QED
    BY <1>i, <2>1, <2>2 DEF OneManager, Live
<1>5. ASSUME UNCHANGED <<keyVars, ops>>,
             \A x \in Records : sig'[x] \in {sig[x], None, Live}
      PROVE  OneManager'
  BY <1>5, <1>i DEF OneManager, Live, keyVars
<1>6. ASSUME NEW p \in Plans, NEW out \in Outcomes, Approve(p, out) PROVE OneManager'
  BY <1>5, <1>6, <1>t DEF Approve
<1>7. ASSUME NEW x \in Records, NEW out \in Outcomes, Revoke(x, out) PROVE OneManager'
  BY <1>5, <1>7, <1>t DEF Revoke
<1>8. ASSUME NEW out \in Outcomes, Note(out) PROVE OneManager'
  BY <1>5, <1>8 DEF Note
<1>9. CASE UNCHANGED vars
  BY <1>5, <1>9 DEF vars, keyVars
<1>10. (\A r \in Requests : ~ImportBegins(r)) /\ ~Reboot
  BY <1>b, SpendNotCalm DEF ImportBegins, Reboot
<1>11. \A r \in Requests, out \in Outcomes : ~ImportEnds(r, out)
  BY <1>i DEF ImportEnds
<1>12. QED
  BY <1>1, <1>2, <1>3, <1>4, <1>6, <1>7, <1>8, <1>9, <1>10, <1>11
  DEF Next, Crash, CrashInReSign

(* Every step keeps RecordsIInv.                                           *)
LEMMA RecordsStep ==
    ASSUME KeyInv, LogInv, RecordsIInv, [Next]_vars
    PROVE  RecordsIInv'
<1>1. Calm' => Calm
  BY CalmStays DEF LogInv
<1>2. QED
  BY <1>1, OneManagerStep DEF RecordsIInv

(* Until a crash or an import, any number of rotations, overlapping or     *)
(* not, leaves every live record signed with the key in use, also those    *)
(* trusted or approved while one was in flight.                            *)
THEOREM RotationReSigns == Spec => []RecordsVerify
<1>1. Init => RecordsIInv
  BY IdleOp DEF Init, RecordsIInv, OneManager
<1>2. KeyInv /\ LogInv /\ RecordsIInv /\ [Next]_vars => KeyInv' /\ LogInv' /\ RecordsIInv'
  BY KeyStep, RecordsStep
<1>3. RecordsIInv => RecordsVerify
  BY DEF RecordsIInv, OneManager, RecordsVerify
<1>4. QED
  BY <1>1, <1>2, <1>3, FirstBoot, PTL DEF Spec
-----------------------------------------------------------------------------
(* Entries that were lost can be counted.                                  *)
LEMMA LostFinite ==
    ASSUME LogInv
    PROVE  IsFiniteSet(Lost) /\ Cardinality(Lost) \in Nat
<1>0. MaxEntries \in Int /\ 1 \in Int
  BY CustodyAssumption
<1>1. IsFiniteSet(1..MaxEntries)
  BY <1>0, FS_Interval
<1>2. IsFiniteSet(Lost)
  <2>1. Lost \in SUBSET (1..MaxEntries)
    BY DEF LogInv, LogTypeOK, Lost
  <2>2. QED
    BY <1>1, <2>1, FS_Subset
<1>3. QED
  BY <1>2, FS_CardinalityType

(* What a write does to the entries that were lost: a finished line costs  *)
(* nothing, one that was left open costs at most what is written now.      *)
LEMMA LostByWrite ==
    ASSUME LogInv, LossIInv, NEW line \in Lines, WriteLine(line)
    PROVE  /\ \A h \in landed : (\A i \in Parsed' : log'[i].hash # h) => h \in Lost
           /\ tail = "open" => log'[Len(log')] = Torn
           /\ tail = "ended" => log'[Len(log')] = line
<1>t. log \in Seq(Lines) /\ Len(log) \in Nat /\ tail \in {"ended", "open"}
  BY DEF LogInv, LogTypeOK
<1>1. CASE tail = "open"
  <2>1. /\ Len(log') = Len(log) /\ log'[Len(log)] = Torn
        /\ Parsed' = Parsed \ {Len(log)} /\ \A i \in Parsed' : log'[i] = log[i]
    BY <1>1, WriteLineCases
  <2>2. log[Len(log)].hash \notin landed
    BY <1>1 DEF LossIInv
  <2>3. QED
    BY <1>1, <2>1, <2>2 DEF Lost
<1>2. CASE tail = "ended"
  <2>1. /\ Len(log') = Len(log) + 1 /\ log'[Len(log) + 1] = line
        /\ \A i \in 1..Len(log) : log'[i] = log[i]
    BY <1>2, WriteLineCases
  <2>2. \A i \in Parsed : i \in Parsed' /\ log'[i] = log[i]
    BY <1>t, <2>1 DEF Parsed
  <2>3. QED
    BY <1>2, <2>1, <2>2 DEF Lost
<1>3. QED
  BY <1>t, <1>1, <1>2

(* A set of lost entries that does not grow, or grows by one.              *)
LEMMA LostCount ==
    ASSUME LogInv, NEW S, NEW h, S \subseteq Lost \cup {h}
    PROVE  /\ Cardinality(S) \in Nat /\ Cardinality(S) <= Cardinality(Lost) + 1
           /\ S \subseteq Lost => Cardinality(S) <= Cardinality(Lost)
<1>1. IsFiniteSet(Lost) /\ Cardinality(Lost) \in Nat
  BY LostFinite
<1>2. /\ IsFiniteSet(Lost \cup {h}) /\ Cardinality(Lost \cup {h}) \in Nat
      /\ Cardinality(Lost \cup {h}) <= Cardinality(Lost) + 1
  <2>1. /\ IsFiniteSet(Lost \cup {h})
        /\ Cardinality(Lost \cup {h}) = IF h \in Lost THEN Cardinality(Lost)
                                        ELSE Cardinality(Lost) + 1
    BY <1>1, FS_AddElement
  <2>2. QED
    BY <1>1, <2>1
<1>3. /\ IsFiniteSet(S) /\ Cardinality(S) <= Cardinality(Lost \cup {h})
  <2>1. S \in SUBSET (Lost \cup {h})
    OBVIOUS
  <2>2. QED
    BY <1>2, <2>1, FS_Subset
<1>4. Cardinality(S) \in Nat
  BY <1>3, FS_CardinalityType
<1>5. S \subseteq Lost => Cardinality(S) <= Cardinality(Lost)
  <2> HAVE S \subseteq Lost
  <2>1. S \in SUBSET Lost
    OBVIOUS
  <2>2. QED
    BY <1>1, <2>1, FS_Subset
<1>6. QED
  BY <1>1, <1>2, <1>3, <1>4, <1>5

(* Every append keeps the count of what torn lines cost.                   *)
LEMMA LossByAppend ==
    ASSUME LogInv, LossIInv, NEW k \in Keys \cup {None}, NEW security \in BOOLEAN,
           NEW out \in Outcomes, AppendEntry(k, security, out)
    PROVE  LossIInv'
<1>t. /\ appends < MaxEntries /\ appends' = appends + 1 /\ appends \in Nat
      /\ budget.torn \in 0..MaxTorn /\ MaxTorn \in Nat /\ tail \in {"ended", "open"}
      /\ Cardinality(Lost) \in Nat
  <2>1. appends < MaxEntries /\ appends' = appends + 1
    BY DEF AppendEntry
  <2>2. appends \in Nat /\ tail \in {"ended", "open"}
    BY CustodyAssumption DEF LogInv, LogTypeOK
  <2>3. budget.torn \in 0..MaxTorn /\ MaxTorn \in Nat
    BY CustodyAssumption DEF LogInv, BudgetTypeOK
  <2>4. Cardinality(Lost) \in Nat
    BY LostFinite
  <2>5. QED
    BY <2>1, <2>2, <2>3, <2>4
<1>i. /\ landed \subseteq 1..appends
      /\ tail = "open" => Cardinality(Lost) + 1 <= MaxTorn - budget.torn
      /\ Cardinality(Lost) <= MaxTorn - budget.torn
  BY DEF LossIInv, LossBounded
<1>e. /\ Entry(k, security) \in Lines /\ Entry(k, security).hash = appends + 1
      /\ Torn \in Lines /\ Torn.hash = 0
      /\ Entry(k, security).kind = "entry"
  BY <1>t, EntryType, CustodyAssumption DEF Torn, Lines
<1>1. CASE out = "all"
  <2> DEFINE e == Entry(k, security)
  <2>1. /\ WriteLine(e) /\ tail' = "ended" /\ landed' = landed \cup {appends + 1}
        /\ budget' = budget
    BY <1>1 DEF AppendEntry
  <2>2. landed' \subseteq 1..appends'
    BY <1>t, <1>i, <2>1
  <2>3. Lost' \subseteq Lost \cup {appends + 1}
    BY <1>e, <2>1, LostByWrite DEF Lost
  <2>4. tail = "ended" => Lost' \subseteq Lost
    <3> HAVE tail = "ended"
    <3>1. Len(log') = Len(log) + 1 /\ log'[Len(log) + 1] = e
      BY <1>e, <2>1, WriteLineCases
    <3>2. Len(log) + 1 \in Parsed'
      BY <1>e, <3>1 DEF Parsed, LogInv, LogTypeOK
    <3>3. appends + 1 \notin Lost'
      BY <1>e, <3>1, <3>2 DEF Lost
    <3>4. QED
      BY <2>3, <3>3
  <2>5. Cardinality(Lost') <= MaxTorn - budget.torn
    <3>0. /\ Cardinality(Lost') \in Nat /\ Cardinality(Lost') <= Cardinality(Lost) + 1
          /\ Lost' \subseteq Lost => Cardinality(Lost') <= Cardinality(Lost)
      BY <2>3, LostCount
    <3>1. CASE tail = "ended"
      BY <1>t, <1>i, <2>4, <3>0, <3>1
    <3>2. CASE tail = "open"
      BY <1>t, <1>i, <3>0, <3>2
    <3>3. QED
      BY <1>t, <3>1, <3>2
  <2>6. QED
    BY <2>1, <2>2, <2>5 DEF LossIInv, LossBounded
<1>2. CASE out = "nothing"
  <2>1. /\ UNCHANGED <<log, tail, landed>> /\ budget.failed > 0
        /\ budget' = [budget EXCEPT !.failed = @ - 1]
    BY <1>2 DEF AppendEntry
  <2>2. budget'.torn = budget.torn
    BY <2>1, SpendFailed DEF LogInv
  <2>3. Lost' = Lost
    BY <2>1 DEF Lost, Parsed
  <2>4. landed' \subseteq 1..appends'
    BY <1>t, <1>i, <2>1
  <2>5. QED
    BY <2>1, <2>2, <2>3, <2>4 DEF LossIInv, LossBounded
<1>3. CASE out \in {"part", "object"}
  <2> DEFINE line == IF out = "part" THEN Torn ELSE Entry(k, security)
  <2>1. /\ WriteLine(line) /\ tail' = "open" /\ landed' = landed
        /\ budget.torn > 0 /\ budget' = [budget EXCEPT !.torn = @ - 1]
    BY <1>3 DEF AppendEntry
  <2>2. budget'.torn = budget.torn - 1
    BY <2>1, SpendTorn DEF LogInv
  <2>3. line \in Lines /\ line.hash \in {0, appends + 1}
    BY <1>e
  <2> HIDE DEF line
  <2>4. /\ Lost' \subseteq Lost
        /\ log'[Len(log')] \in {Torn, line}
    BY <1>t, <2>1, <2>3, LostByWrite DEF Lost
  <2>5. log'[Len(log')].hash \notin landed'
    <3>1. log'[Len(log')].hash \in {0, appends + 1}
      BY <1>e, <2>3, <2>4
    <3>2. QED
      BY <1>t, <1>i, <2>1, <3>1
  <2>6. Cardinality(Lost') \in Nat /\ Cardinality(Lost') <= Cardinality(Lost)
    BY <2>4, LostCount
  <2>7. Cardinality(Lost') + 1 <= MaxTorn - budget'.torn
    BY <1>t, <1>i, <2>2, <2>6
  <2>8. Cardinality(Lost') <= MaxTorn - budget'.torn
    BY <1>t, <2>2, <2>6, <2>7
  <2>9. landed' \subseteq 1..appends'
    BY <1>t, <1>i, <2>1
  <2>10. QED
    BY <2>1, <2>5, <2>7, <2>8, <2>9 DEF LossIInv, LossBounded
<1>4. QED
  BY <1>1, <1>2, <1>3 DEF Outcomes

(* Every step keeps the count of what torn lines cost.                     *)
LEMMA LossStep ==
    ASSUME KeyInv, LogInv, LossIInv, [Next]_vars
    PROVE  LossIInv'
<1>1. ASSUME UNCHANGED <<log, tail, appends, landed>>, budget'.torn = budget.torn
      PROVE  LossIInv'
  <2>1. Lost' = Lost
    BY <1>1 DEF Lost, Parsed
  <2>2. QED
    BY <1>1, <2>1 DEF LossIInv, LossBounded
<1>2. CASE UNCHANGED logVars /\ budget'.torn = budget.torn
  BY <1>1, <1>2 DEF logVars
<1>3. QED
  BY <1>1, <1>2, LossByAppend, LogSteps

-----------------------------------------------------------------------------
(* A rotation or an import that began is never unspent.                    *)
LEMMA UnspentStays ==
    ASSUME BudgetTypeOK, [Next]_vars
    PROVE  /\ budget'.imports = MaxImports =>
                  budget.imports = MaxImports /\ \A r \in Requests : ~ImportBegins(r)
           /\ budget'.rotations = MaxRotations =>
                  budget.rotations = MaxRotations /\ \A r \in Requests : ~RotateBegins(r)
<1>t. /\ budget.imports \in 0..MaxImports /\ budget.rotations \in 0..MaxRotations
      /\ MaxImports \in Nat /\ MaxRotations \in Nat
  BY CustodyAssumption DEF BudgetTypeOK
<1>1. ~(budget.imports > 0 /\ budget' = [budget EXCEPT !.imports = @ - 1])
      => budget'.imports = budget.imports
  BY BudgetSteps, SpendRotations, SpendFailed, SpendTorn, SpendCrashes
<1>2. ~(budget.rotations > 0 /\ budget' = [budget EXCEPT !.rotations = @ - 1])
      => budget'.rotations = budget.rotations
  BY BudgetSteps, SpendImports, SpendFailed, SpendTorn, SpendCrashes
<1>3. budget.imports > 0 /\ budget' = [budget EXCEPT !.imports = @ - 1]
      => budget'.imports # MaxImports
  BY <1>t, SpendImports
<1>4. budget.rotations > 0 /\ budget' = [budget EXCEPT !.rotations = @ - 1]
      => budget'.rotations # MaxRotations
  BY <1>t, SpendRotations
<1>5. QED
  BY <1>1, <1>2, <1>3, <1>4 DEF ImportBegins, RotateBegins

(* Every step keeps ManagerIInv: a request takes the manager in the holder, *)
(* which only an import replaces, and a crash ends every request.          *)
LEMMA ManagerStep ==
    ASSUME KeyInv, LogInv, ManagerIInv, [Next]_vars
    PROVE  ManagerIInv'
<1>t. ops \in [Requests -> Ops] /\ Idle.kind = "none"
  BY IdleOp DEF KeyInv, KeyTypeOK
<1> SUFFICES ASSUME budget'.imports = MaxImports,
                    \A q \in Requests : /\ ops[q].kind # "none" => ops[q].mgr = holder
                                         /\ ops[q].kind \notin {"import", "imported"},
                    \A q \in Requests : ~ImportBegins(q)
             PROVE  \A q \in Requests : /\ ops'[q].kind # "none" => ops'[q].mgr = holder'
                                         /\ ops'[q].kind \notin {"import", "imported"}
  BY UnspentStays DEF ManagerIInv, LogInv
<1> DEFINE Kept == \A q \in Requests : /\ ops'[q].kind # "none" => ops'[q].mgr = holder'
                                        /\ ops'[q].kind \notin {"import", "imported"}
<1>1. ASSUME NEW r \in Requests, RotateBegins(r) \/ TrustBegins(r) PROVE Kept
  <2>1. /\ holder' = holder /\ \A q \in Requests \ {r} : ops'[q] = ops[q]
        /\ ops'[r].kind \in {"rotate", "trust"} /\ ops'[r].mgr = holder
    BY <1>1, <1>t DEF RotateBegins, TrustBegins, keyVars
  <2>2. QED
    BY <2>1
<1>2. ASSUME NEW r \in Requests, KeyWritten(r) PROVE Kept
  <2>1. /\ holder' = holder /\ \A q \in Requests \ {r} : ops'[q] = ops[q]
        /\ ops[r].kind = "rotate"
    BY <1>2, <1>t DEF KeyWritten
  <2>2. ops'[r].kind = "rotated" /\ ops'[r].mgr = ops[r].mgr
    BY <1>2, <1>t, <2>1 DEF KeyWritten, Ops
  <2>3. QED
    BY <2>1, <2>2
<1>3. ASSUME NEW r \in Requests, NEW out \in Outcomes,
             RotateEnds(r, out) \/ \E p \in Plugins : TrustEnds(r, p, out)
      PROVE  Kept
  <2>1. holder' = holder /\ \A q \in Requests : ops'[q] = IF q = r THEN Idle ELSE ops[q]
    BY <1>3, <1>t DEF RotateEnds, TrustEnds, keyVars
  <2>2. QED
    BY <1>t, <2>1
<1>4. ASSUME Reboot PROVE Kept
  BY <1>4, <1>t DEF Reboot
<1>5. ASSUME UNCHANGED <<holder, ops>> PROVE Kept
  BY <1>5
<1>6. \A r \in Requests, out \in Outcomes : ~ImportEnds(r, out)
  BY DEF ImportEnds
<1> HIDE DEF Kept
<1>7. Kept
  BY <1>1, <1>2, <1>3, <1>4, <1>5, <1>6
  DEF Next, Crash, CrashInReSign, Approve, Revoke, Note, keyVars, vars
<1>8. QED
  BY <1>7 DEF Kept

(* Where the entry of a step lands, and what it is signed with, while no   *)
(* key operation is in flight.                                             *)
LEMMA SignedByAppend ==
    ASSUME KeyInv, LogInv, \A i \in Parsed : log[i].sig \in {None, Live},
           NEW security \in BOOLEAN, NEW out \in Outcomes,
           AppendEntry(Live, security, out)
    PROVE  \A i \in Parsed' : log'[i].sig \in {None, Live}
<1>l. Live \in Keys \cup {None} /\ tail \in {"ended", "open"} /\ appends < MaxEntries
  BY DEF Live, KeyInv, KeyTypeOK, LogInv, LogTypeOK, AppendEntry
<1>1. ASSUME NEW line \in Lines, line.sig \in {None, Live}, WriteLine(line)
      PROVE  \A i \in Parsed' : log'[i].sig \in {None, Live}
  <2>1. CASE tail = "open"
    BY <1>1, <2>1, WriteLineCases
  <2>2. CASE tail = "ended"
    <3>1. /\ Len(log') = Len(log) + 1 /\ log'[Len(log) + 1] = line
          /\ \A i \in 1..Len(log) : log'[i] = log[i]
      BY <1>1, <2>2, WriteLineCases
    <3>2. Len(log) \in Nat
      BY DEF LogInv, LogTypeOK
    <3>3. QED
      BY <1>1, <3>1, <3>2 DEF Parsed
  <2>3. QED
    BY <1>l, <2>1, <2>2
<1>2. /\ Entry(Live, security) \in Lines /\ Entry(Live, security).sig \in {None, Live}
      /\ Torn \in Lines /\ Torn.sig \in {None, Live}
  <2>1. Entry(Live, security) \in Lines
    BY <1>l, EntryType
  <2>2. Entry(Live, security).sig \in {None, Live}
    BY DEF Entry
  <2>3. QED
    BY <2>1, <2>2, CustodyAssumption DEF Torn, Lines
<1>3. \/ WriteLine(Entry(Live, security)) \/ WriteLine(Torn) \/ log' = log
  BY DEF AppendEntry
<1>4. QED
  BY <1>1, <1>2, <1>3 DEF Parsed

(* Every step keeps SignedIInv.                                            *)
LEMMA SignedStep ==
    ASSUME KeyInv, LogInv, SignedIInv, [Next]_vars
    PROVE  SignedIInv'
<1>t. /\ ops \in [Requests -> Ops] /\ Idle.kind = "none" /\ keyFile \in Keys
      /\ keyOf \in [Keys -> Keys \cup {None}]
  BY IdleOp DEF KeyInv, KeyTypeOK
<1> SUFFICES ASSUME FirstKeyOnly, \A q \in Requests : ~ImportBegins(q) /\ ~RotateBegins(q)
             PROVE  FirstKeyOnly'
  BY UnspentStays DEF SignedIInv, LogInv
<1>i. /\ \A r \in Requests : ~KeyOp(r)
      /\ Live = keyFile /\ \A i \in Parsed : log[i].sig \in {None, Live}
  BY DEF FirstKeyOnly
<1>1. ASSUME NEW r \in Requests, TrustBegins(r) PROVE FirstKeyOnly'
  <2>1. /\ UNCHANGED <<keyVars, log>> /\ \A q \in Requests \ {r} : ops'[q] = ops[q]
        /\ ops'[r].kind = "trust"
    BY <1>1, <1>t DEF TrustBegins, logVars
  <2>2. QED
    BY <1>i, <2>1 DEF FirstKeyOnly, KeyOp, Live, keyVars, Parsed
<1>2. ASSUME NEW out \in Outcomes, NEW security \in BOOLEAN,
             AppendEntry(Live, security, out), UNCHANGED keyVars,
             \A q \in Requests : ops'[q] \in {Idle, ops[q]}
      PROVE  FirstKeyOnly'
  <2>1. /\ Live' = Live /\ keyFile' = keyFile
        /\ \A i \in Parsed' : log'[i].sig \in {None, Live}
    BY <1>2, <1>i, SignedByAppend DEF Live, keyVars
  <2>2. \A q \in Requests : ~KeyOp(q)'
    BY <1>2, <1>i, <1>t DEF KeyOp
  <2>3. QED
    BY <1>i, <2>1, <2>2 DEF FirstKeyOnly
<1>3. ASSUME NEW r \in Requests, NEW p \in Plugins, NEW out \in Outcomes,
             TrustEnds(r, p, out)
      PROVE  FirstKeyOnly'
  <2>1. \A q \in Requests : ops'[q] \in {Idle, ops[q]}
    BY <1>3, <1>t DEF TrustEnds
  <2>2. QED
    BY <1>2, <1>3, <2>1 DEF TrustEnds
<1>4. ASSUME NEW out \in Outcomes,
             \/ \E p \in Plans : Approve(p, out)
             \/ \E x \in Records : Revoke(x, out)
             \/ Note(out)
      PROVE  FirstKeyOnly'
  <2>1. /\ AppendEntry(Live, TRUE, out) \/ AppendEntry(Live, FALSE, out)
        /\ UNCHANGED <<keyVars, ops>>
    BY <1>4 DEF Approve, Revoke, Note
  <2>2. QED
    BY <1>2, <2>1
<1>5. ASSUME Reboot PROVE FirstKeyOnly'
  <2>1. /\ keyFile' = keyFile /\ Live' = keyFile /\ log' = log
        /\ \A r \in Requests : ops'[r].kind = "none"
    BY <1>5, <1>t DEF Reboot, Live
  <2>2. QED
    BY <1>i, <2>1 DEF FirstKeyOnly, KeyOp, Parsed
<1>6. CASE UNCHANGED vars
  BY <1>6, <1>i DEF vars, FirstKeyOnly, KeyOp, Live, Parsed
<1>7. /\ \A r \in Requests : ~KeyWritten(r)
      /\ \A r \in Requests, out \in Outcomes : ~RotateEnds(r, out) /\ ~ImportEnds(r, out)
  BY <1>i DEF KeyWritten, RotateEnds, ImportEnds, KeyOp
<1>8. QED
  BY <1>1, <1>3, <1>4, <1>5, <1>6, <1>7 DEF Next, Crash, CrashInReSign

(* The damage to the log is bounded by its causes: every append that was   *)
(* cut short costs at most one entry that landed, and verify() accepts the *)
(* log over failing appends, crashes, restarts, trust, approve and revoke  *)
(* until a line is torn or the key changes.                                *)
THEOREM LogDamageIsBounded == Spec => []DamageBounded
<1> DEFINE I == KeyInv /\ LogInv /\ ChainIInv /\ SignedIInv /\ LossIInv
<1>1. Init => I
  <2> SUFFICES ASSUME Init PROVE I
    OBVIOUS
  <2>1. KeyInv /\ LogInv /\ Parsed = {} /\ ChainIInv
    BY FirstBoot DEF Init, ChainIInv, Parsed
  <2>2. 1 \in Keys /\ \A r \in Requests : ops[r].kind = "none"
    BY CustodyAssumption, IdleOp DEF Init, Keys, MaxKeys
  <2>3. SignedIInv
    BY <2>1, <2>2 DEF Init, SignedIInv, FirstKeyOnly, KeyOp, Live
  <2>4. Lost = {} /\ Cardinality({}) = 0
    BY FS_EmptySet DEF Init, Lost
  <2>5. LossIInv
    BY <2>4, CustodyAssumption DEF Init, LossIInv, LossBounded
  <2>6. QED
    BY <2>1, <2>3, <2>5
<1>2. I /\ [Next]_vars => I'
  BY KeyStep, ChainStep, SignedStep, LossStep
<1>3. I => DamageBounded
  BY ChainLinks
  DEF DamageBounded, LossIInv, VerifyUntilRotated, Verify, Signed, ChainUnbroken, SignedIInv,
      FirstKeyOnly
<1>4. QED
  BY <1>1, <1>2, <1>3, PTL DEF Spec

(* A trust request that ends before the first import signs with the key    *)
(* in use, whatever rotations, crashes and restarts came since it began.   *)
THEOREM TrustSignsUnderCurrent == Spec => TrustsUnderCurrent
<1> DEFINE I == KeyInv /\ LogInv /\ ManagerIInv
<1>1. Init => I
  BY FirstBoot, IdleOp DEF Init, ManagerIInv
<1>2. I /\ [Next]_vars => I'
  BY KeyStep, ManagerStep
<1>3. I /\ [Next]_vars => [TrustIsCurrent]_vars
  <2> SUFFICES ASSUME I, NEW r \in Requests, NEW p \in Plugins, NEW out \in Outcomes,
                      TrustEnds(r, p, out), budget.imports = MaxImports
               PROVE  sig'[p] = Live'
    BY DEF TrustIsCurrent
  <2>1. ops[r].mgr = holder
    BY DEF ManagerIInv, TrustEnds
  <2>2. sig'[p] = keyOf[ops[r].mgr] /\ Live' = keyOf[holder]
    BY DEF TrustEnds, KeyInv, KeyTypeOK, Records, Live, keyVars
  <2>3. QED
    BY <2>1, <2>2
<1>4. QED
  BY <1>1, <1>2, <1>3, PTL DEF Spec, TrustsUnderCurrent

=============================================================================
