-------------------------------- MODULE Certs --------------------------------
(***************************************************************************)
(* The wildcard certificate: its generations on the wanfw_certs volume, the *)
(* `current` pointer, the renewal schedule that asks for a new one, and the *)
(* proxy that serves whichever generation PLAN looked up.                   *)
(*                                                                          *)
(* storeCert and rollbackCert are synchronous, so nothing of the            *)
(* orchestrator runs between their steps, but the process can die there;    *)
(* each step is an action.  A rollback, on the other hand, comes from the   *)
(* admin socket and may fall into any await of a run.                       *)
(*                                                                          *)
(* Time is kept as ages that saturate.  One tick is the coarsest step that  *)
(* the schedule tells apart; runs come every minute, so each tick sees at   *)
(* least one.                                                               *)
(***************************************************************************)
EXTENDS Naturals, Sequences, FiniteSets, FiniteSetsExt

CONSTANTS
    NameSets,          \* sets of host names a certificate may have to cover
    None,              \* no names to cover; no such generation
    Retained,          \* RETAINED_GENERATIONS
    Lifetime,          \* CERT_LIFETIME_DAYS
    RenewWithin,       \* RENEW_WITHIN_DAYS
    EscalateWithin,    \* ESCALATE_WITHIN_DAYS
    Backoff,           \* BACKOFF_STEPS_MS
    Pace,              \* DAILY_MS + jitterMs
    Longest,           \* cap on the age of an attempt: no step or pace is longer
    MaxStores,         \* bound on generations; time stops when it is reached
    MaxFaults,         \* bound on failing attempts and runs
    MaxCrashes,        \* bound on orchestrator crashes
    MaxTorn,           \* bound on crashes in the middle of removing a directory
    MaxRollbacks,      \* bound on rollbacks
    MaxChanges         \* bound on changes of the names to cover

ASSUME CertsAssumption ==
    /\ None \notin NameSets
    /\ Retained \in Nat \ {0}
    /\ Lifetime \in Nat /\ RenewWithin \in 0..Lifetime /\ EscalateWithin \in 0..RenewWithin
    /\ Backoff \in Seq(0..Longest) /\ Len(Backoff) > 0
    /\ Longest \in Nat /\ Pace \in 0..Longest
    /\ MaxStores \in Nat /\ MaxFaults \in Nat /\ MaxCrashes \in Nat /\ MaxTorn \in Nat
    /\ MaxRollbacks \in Nat /\ MaxChanges \in Nat

Numbers == 1..MaxStores
Generations == [names : NameSets, age : 0..Lifetime,
                chain : BOOLEAN,       \* fullchain.pem is there
                files : BOOLEAN,       \* key.pem is there as well
                meta : BOOLEAN]        \* meta.json is there

ASSUME NoGeneration == None \notin Generations

VARIABLES
    gens,       \* gen-<N> directories: None, or what they hold
    current,    \* the `current` file, 0 while there is none
    store,      \* what storeCert has still to do: "no", "pointer" or "prune"
    since,      \* age of renewal-state's lastAttemptAt (at the cap: none)
    failures,   \* renewal-state's consecutiveFailures
    names,      \* names the desired state asks for
    at,         \* where the run in flight is
    ctxNames,   \* graph.certRequirements.names of the run
    planned,    \* generation PLAN passed to proxy.render, 0 for internal CA
    degraded,   \* ctx.degraded
    config,     \* generation the Caddyfile on disk refers to
    served,     \* generation the proxy has loaded
    ran,        \* a run was made in this tick
    budget,
    seen,       \* history: the newest generation when PLAN looked one up
    quiet       \* history: nothing but time has passed since an issuance

fileVars == <<gens, current, store>>
stateVars == <<since, failures>>
runVars == <<at, ctxNames, planned, degraded, seen>>
proxyVars == <<config, served>>
vars == <<gens, current, store, since, failures, names, at, ctxNames, planned, degraded,
          config, served, ran, budget, seen, quiet>>

StoreTypeOK ==
    /\ gens \in [Numbers -> Generations \cup {None}]
    /\ current \in 0..MaxStores
    /\ store \in {"no", "pointer", "prune"}

RunTypeOK ==
    /\ since \in 0..Longest
    /\ failures \in 0..Len(Backoff)
    /\ names \in NameSets \cup {None} /\ ctxNames \in NameSets \cup {None}
    /\ at \in {"idle", "renewal", "attempt", "stored", "execute", "reload"}
    /\ planned \in 0..MaxStores /\ seen \in 0..MaxStores
    /\ config \in 0..MaxStores /\ served \in 0..MaxStores
    /\ degraded \in BOOLEAN /\ ran \in BOOLEAN /\ quiet \in BOOLEAN
    /\ budget \in [faults : 0..MaxFaults, crashes : 0..MaxCrashes, torn : 0..MaxTorn,
                   rollbacks : 0..MaxRollbacks, changes : 0..MaxChanges]

TypeOK == StoreTypeOK /\ RunTypeOK

Spend(kind) ==
    /\ budget[kind] > 0
    /\ budget' = [budget EXCEPT ![kind] = @ - 1]

Init ==
    /\ gens = [g \in Numbers |-> None]
    /\ current = 0
    /\ store = "no"
    /\ since = Longest
    /\ failures = 0
    /\ names \in NameSets \cup {None}
    /\ at = "idle"
    /\ ctxNames = None
    /\ planned = 0
    /\ degraded = FALSE
    /\ config = 0
    /\ served = 0
    /\ ran = FALSE
    /\ budget = [faults |-> MaxFaults, crashes |-> MaxCrashes, torn |-> MaxTorn,
                 rollbacks |-> MaxRollbacks, changes |-> MaxChanges]
    /\ seen = 0
    /\ quiet = FALSE

-----------------------------------------------------------------------------
(* What is read from the volume.                                           *)
Listed == {g \in Numbers : gens[g] # None}             \* listGenerations
Newest == IF Listed = {} THEN 0 ELSE Max(Listed)
NextGen == Newest + 1
Older(g) == {h \in Listed : h < g}

(* currentCertPaths: the pointer's generation, if its fullchain.pem exists. *)
CertPaths == IF current # 0 /\ gens[current] # None /\ gens[current].chain
             THEN current ELSE 0

(* listCerts reports the newest generation when there is no pointer.       *)
MetaOf == IF current # 0 THEN current ELSE Newest
HasMeta == MetaOf # 0 /\ gens[MetaOf] # None /\ gens[MetaOf].meta

Remaining(g) == Lifetime - gens[g].age

(* Wrong on purpose: a certificate that was never issued is not missed.    *)
IsEscalatedByAge == HasMeta /\ Remaining(MetaOf) < EscalateWithin

IsEscalated == ~HasMeta \/ Remaining(MetaOf) < EscalateWithin

DueByBackoffOrPace(pace) ==
    since >= (IF failures > 0 THEN Backoff[failures] ELSE pace)

(* Wrong on purpose: the escalation threshold in place of the window.      *)
DueLate ==
    IF ~HasMeta \/ gens[MetaOf].names # ctxNames
    THEN DueByBackoffOrPace(0)
    ELSE Remaining(MetaOf) <= EscalateWithin /\ DueByBackoffOrPace(Pace)

(* Wrong on purpose: the window is not looked at.                          *)
DueEveryDay ==
    IF ~HasMeta \/ gens[MetaOf].names # ctxNames
    THEN DueByBackoffOrPace(0)
    ELSE DueByBackoffOrPace(Pace)

Due ==
    IF ~HasMeta \/ gens[MetaOf].names # ctxNames
    THEN DueByBackoffOrPace(0)
    ELSE Remaining(MetaOf) <= RenewWithin /\ DueByBackoffOrPace(Pace)

-----------------------------------------------------------------------------
(* A run.  PLAN looks the certificate up, RENEWAL may replace it, EXECUTE  *)
(* writes the Caddyfile that PLAN rendered and reloads the proxy.          *)

(* Wrong on purpose: the newest generation instead of the current one.     *)
PlanStageNewest ==
    /\ at = "idle"
    /\ at' = "renewal"
    /\ ctxNames' = names
    /\ planned' = Newest
    /\ seen' = Newest
    /\ degraded' = FALSE
    /\ UNCHANGED <<fileVars, stateVars, names, proxyVars, ran, budget, quiet>>

PlanStage ==
    /\ at = "idle"
    /\ at' = "renewal"
    /\ ctxNames' = names
    /\ planned' = CertPaths
    /\ seen' = Newest
    /\ degraded' = FALSE
    /\ UNCHANGED <<fileVars, stateVars, names, proxyVars, ran, budget, quiet>>

RenewalFrame == UNCHANGED <<fileVars, stateVars, names, ctxNames, planned, seen,
                            proxyVars, ran, quiet>>

Escalation == degraded' = (ctxNames # None /\ IsEscalated)

(* Nothing to certify, nothing due, or (a fault) no certIssuer bound.      *)
RenewalSkips ==
    /\ at = "renewal"
    /\ \/ (ctxNames = None \/ ~Due \/ NextGen > MaxStores) /\ UNCHANGED budget
       \/ ctxNames # None /\ Spend("faults")
    /\ Escalation
    /\ at' = "execute"
    /\ RenewalFrame

RenewalAttempts ==
    /\ at = "renewal" /\ ctxNames # None /\ Due /\ NextGen <= MaxStores
    /\ Escalation
    /\ at' = "attempt"
    /\ RenewalFrame /\ UNCHANGED budget

(* The plugin's certs.store, in three steps: the finished directory is     *)
(* renamed into place, the pointer is replaced, the excess is removed.     *)
StoreFrame == UNCHANGED <<stateVars, names, ctxNames, planned, degraded, seen, proxyVars,
                          ran, budget>>

StoreRename ==
    /\ at = "attempt" /\ store = "no"
    /\ gens' = [gens EXCEPT ![NextGen] =
                   [names |-> ctxNames, age |-> 0,
                    chain |-> TRUE, files |-> TRUE, meta |-> TRUE]]
    /\ store' = "pointer"
    /\ quiet' = FALSE
    /\ StoreFrame /\ UNCHANGED <<current, at>>

StorePointer ==
    /\ store = "pointer"
    /\ current' = Newest
    /\ store' = "prune"
    /\ StoreFrame /\ UNCHANGED <<gens, at, quiet>>

(* Wrong on purpose: sorted the other way round; nothing older is kept.    *)
ExcessNewest == {g \in Listed : Cardinality({h \in Listed : h < g}) >= Retained}
ExcessAllOlder == Older(Newest)

(* All but the newest Retained generations.                                *)
Excess == {g \in Listed : Cardinality({h \in Listed : h > g}) >= Retained}

StorePrune ==
    /\ store = "prune" /\ Excess # {}
    /\ gens' = [gens EXCEPT ![Min(Excess)] = None]
    /\ StoreFrame /\ UNCHANGED <<current, store, at, quiet>>

StoreEnds ==
    /\ store = "prune" /\ Excess = {}
    /\ store' = "no"
    /\ at' = "stored"
    /\ StoreFrame /\ UNCHANGED <<gens, current, quiet>>

AttemptFrame == UNCHANGED <<fileVars, names, ctxNames, planned, degraded, seen,
                            proxyVars, ran>>

AttemptOk ==
    /\ at = "stored"
    /\ since' = 0
    /\ failures' = 0
    /\ at' = "execute"
    /\ quiet' = (names = ctxNames /\ current = Newest)
    /\ AttemptFrame /\ UNCHANGED budget

(* The plugin reports an error, or is timed out before or after it stored. *)
AttemptFails ==
    /\ at \in {"attempt", "stored"} /\ store = "no"
    /\ Spend("faults")
    /\ since' = 0
    /\ failures' = IF failures < Len(Backoff) THEN failures + 1 ELSE failures
    /\ at' = "execute"
    /\ AttemptFrame /\ UNCHANGED quiet

WriteConfig ==
    /\ at = "execute"
    /\ config' = planned
    /\ at' = "reload"
    /\ UNCHANGED <<fileVars, stateVars, names, ctxNames, planned, degraded, seen,
                   served, ran, budget, quiet>>

(* Between runs there is no context.                                       *)
NoContext ==
    /\ at' = "idle"
    /\ ctxNames' = None
    /\ planned' = 0
    /\ degraded' = FALSE
    /\ seen' = 0

Whole(g) == gens[g] # None /\ gens[g].files

(* caddy reload loads the files the Caddyfile names, or fails the run.     *)
ReloadProxy ==
    /\ at = "reload"
    /\ served' = IF planned = 0 \/ Whole(planned) THEN planned ELSE served
    /\ NoContext
    /\ ran' = TRUE
    /\ UNCHANGED <<fileVars, stateVars, names, config, budget, quiet>>

(* A run that fails in some other place.                                   *)
RunFails ==
    /\ at \in {"renewal", "execute", "reload"}
    /\ Spend("faults")
    /\ NoContext
    /\ ran' = TRUE
    /\ UNCHANGED <<fileVars, stateVars, names, proxyVars, quiet>>

-----------------------------------------------------------------------------
(* POST /certs/:name/rollback                                              *)
RollbackCert ==
    /\ store = "no" /\ current # 0 /\ Older(current) # {}
    /\ Spend("rollbacks")
    /\ current' = Max(Older(current))
    /\ quiet' = FALSE
    /\ UNCHANGED <<gens, store, stateVars, names, runVars, proxyVars, ran>>

ChangeNames(n) ==
    /\ store = "no" /\ n # names
    /\ Spend("changes")
    /\ names' = n
    /\ quiet' = FALSE
    /\ UNCHANGED <<fileVars, stateVars, runVars, proxyVars, ran>>

(* The orchestrator dies; the attempt in flight leaves no record.          *)
Crash ==
    /\ at # "idle"
    /\ Spend("crashes")
    /\ NoContext
    /\ store' = "no"
    /\ quiet' = FALSE
    /\ UNCHANGED <<gens, current, stateVars, names, proxyVars, ran>>

(* It dies while rmSync empties a directory, in whatever order it lists    *)
(* it: the certificate or its key is gone, the directory is still there.   *)
CrashInPrune ==
    /\ store = "prune" /\ Excess # {}
    /\ Spend("torn")
    /\ \E chain, meta \in BOOLEAN :
          gens' = [gens EXCEPT ![Min(Excess)] =
                      [@ EXCEPT !.chain = chain, !.files = FALSE, !.meta = meta]]
    /\ NoContext
    /\ store' = "no"
    /\ quiet' = FALSE
    /\ UNCHANGED <<current, stateVars, names, proxyVars, ran>>

Tick ==
    /\ at = "idle" /\ ran /\ NextGen <= MaxStores
    /\ gens' = [g \in Numbers |->
                   IF gens[g] # None /\ gens[g].age < Lifetime
                   THEN [gens[g] EXCEPT !.age = @ + 1] ELSE gens[g]]
    /\ since' = IF since < Longest THEN since + 1 ELSE since
    /\ ran' = FALSE
    /\ UNCHANGED <<current, store, failures, names, runVars, proxyVars, budget, quiet>>

Run ==
    \/ PlanStage
    \/ RenewalSkips
    \/ RenewalAttempts
    \/ StoreRename
    \/ StorePointer
    \/ StorePrune
    \/ StoreEnds
    \/ AttemptOk
    \/ WriteConfig
    \/ ReloadProxy

Next ==
    \/ Run
    \/ AttemptFails
    \/ RunFails
    \/ RollbackCert
    \/ \E n \in NameSets \cup {None} : ChangeNames(n)
    \/ Crash
    \/ CrashInPrune
    \/ Tick

SafetySpec == Init /\ [][Next]_vars

(***************************************************************************)
(* Runs go on: the timer starts them and their awaits return.              *)
(***************************************************************************)
Spec == SafetySpec /\ WF_vars(Run)

-----------------------------------------------------------------------------
(* certs/store.ts and PROGRESS.md: "a reader can never observe a           *)
(* half-written generation or a dangling pointer, mid-write or             *)
(* mid-rollback".  The pointer names a generation whose files are there,   *)
(* at every step of a store, after a crash at any of them, and after any   *)
(* sequence of rollbacks and further stores.  It takes a removal that was  *)
(* interrupted half-way, followed by a rollback, to break this.            *)
PointerWhole == budget.torn = MaxTorn /\ current # 0 => Whole(current)

(* The certificate the proxy is told to load exists when it is told so.    *)
(* RENEWAL may store and prune between PLAN's lookup and EXECUTE's reload; *)
(* what was the newest generation at the lookup survives that.             *)
ReloadFindsCert == at = "reload" /\ planned # 0 /\ planned = seen => Whole(planned)

(* Issuance is rate limited by the authority.  After a success, no further *)
(* certificate is issued before the renewal window opens, unless the names *)
(* changed, an operator rolled back or the orchestrator crashed.           *)
IssueIsDue ==
    gens' # gens /\ at = "attempt" /\ store = "no" /\ quiet =>
        Remaining(current) <= RenewWithin

NoReissue == [][IssueIsDue]_vars

(* Renewal is in time: MaxFaults failing attempts or runs, however they    *)
(* fall, do not bring a certificate once issued under the escalation       *)
(* threshold, as long as nobody rolls back and the names stay as they are. *)
InTime ==
    /\ current # 0
    /\ budget.rollbacks = MaxRollbacks /\ budget.changes = MaxChanges
    => Remaining(current) >= EscalateWithin

(* PROGRESS.md on isEscalated: it "looks only at the *currently served*    *)
(* generation's remaining days (or the total absence of one, when names    *)
(* are required)".  A run that needs a certificate and has none to give to *)
(* the proxy flags the framework as degraded.  RENEWAL reads the newest    *)
(* generation where there is no pointer and PLAN does not, so a crash      *)
(* between the first generation and its pointer is excepted.               *)
UncoveredIsDegraded ==
    /\ budget.crashes = MaxCrashes /\ budget.torn = MaxTorn
    /\ at = "execute" /\ ctxNames # None /\ planned = 0
    => degraded

(* The proxy ends up serving what currentCertPaths names, whichever        *)
(* stores, rollbacks, failures and crashes came before; only a certificate *)
(* whose key an interrupted removal has taken cannot be loaded.            *)
ServesCurrent ==
    <>[](config = CertPaths /\ (CertPaths = 0 \/ Whole(CertPaths) => served = CertPaths))

(***************************************************************************)
(* The inductive invariants.  AttemptIInv: storeCert runs inside an        *)
(* attempt, and has a number for its generation.                           *)
(***************************************************************************)
AttemptIInv ==
    /\ store # "no" => at = "attempt"
    /\ at = "attempt" => ctxNames \in NameSets
    /\ at = "attempt" /\ store = "no" => NextGen \in Numbers
    /\ store = "pointer" => Listed # {}

(* PointerIInv, behind PointerWhole: when no removal was interrupted only  *)
(* whole generations are listed, and when storeCert prunes, the pointer is *)
(* at the newest one, which is never in excess.                            *)
ListedWhole ==
    /\ budget.torn = MaxTorn
    /\ \A g \in Numbers : gens[g] # None => gens[g].files
    /\ current # 0 => gens[current] # None
    /\ store = "prune" => current # 0 /\ \A g \in Listed : g <= current

PointerIInv == budget.torn <= MaxTorn /\ (budget.torn = MaxTorn => ListedWhole)

(* NewestIInv: the newest generation is whole, whatever was interrupted,   *)
(* for it is never in excess.                                              *)
NewestIInv == \A g \in Listed : (\A h \in Listed : h <= g) => gens[g].files

(* PlannedIInv, behind ReloadFindsCert: a run that planned with the newest *)
(* generation sees at most one newer one before it ends.                   *)
PlannedIInv ==
    at # "idle" /\ planned # 0 /\ planned = seen =>
        /\ Whole(planned)
        /\ at = "renewal" \/ (at = "attempt" /\ store = "no") =>
              \A g \in Listed : g <= planned
        /\ \A g, h \in Listed : g > planned /\ h > planned => g = h

(* CoveredIInv, behind UncoveredIsDegraded: without crashes only a store   *)
(* in flight separates the first generation from its pointer, so a run     *)
(* that plans without a certificate finds none when it looks for expiry.   *)
CoveredIInv ==
    budget.crashes = MaxCrashes /\ budget.torn = MaxTorn =>
        /\ current = 0 /\ store # "pointer" => Listed = {}
        /\ \A g \in Listed : gens[g].chain
        /\ at = "renewal" /\ planned = 0 => Listed = {}
        /\ at \in {"attempt", "stored", "execute"} /\ ctxNames # None /\ planned = 0 =>
              degraded

(* QuietIInv, behind NoReissue: what was just stored is the newest         *)
(* generation and covers the run's names; and as long as nothing but time  *)
(* passes the current one covers what is asked for, so an attempt means    *)
(* that its window is open.                                                *)
StoredIInv ==
    store \in {"pointer", "prune"} \/ at = "stored" =>
        /\ ~quiet
        /\ Listed # {} /\ gens[Newest].names = ctxNames /\ gens[Newest].meta

QuietIInv ==
    quiet =>
        /\ current # 0 /\ gens[current] # None
        /\ gens[current].names = names /\ gens[current].meta
        /\ at \in {"renewal", "attempt"} => ctxNames = names
        /\ at = "attempt" => Remaining(current) <= RenewWithin

(* CalmIInv and LateIInv, behind InTime.  While nobody rolls back or       *)
(* changes the names, every generation covers them, only a store in flight *)
(* or a crash in it separates the pointer from the newest one, and an      *)
(* attempt that replaces a certificate means that its window is open.      *)
Calm == budget.rollbacks = MaxRollbacks /\ budget.changes = MaxChanges

CalmIInv ==
    Calm =>
        /\ at # "idle" => ctxNames = names
        /\ \A g \in Listed : gens[g].names = names
        /\ current # 0 => current \in Listed /\ gens[current].meta
        /\ store = "pointer" => gens[Newest].age = 0
        /\ store = "prune" \/ at = "stored" =>
              current = Newest /\ current # 0 /\ gens[current].age = 0
        /\ at = "attempt" /\ store = "no" /\ current # 0 =>
              Remaining(current) <= RenewWithin

(* late[k]: the ticks by which k failing attempts or runs put renewal off. *)
(* Each costs a tick, and an attempt the backoff as well, which is at its  *)
(* j-th step after j failures; no number of them may take more than lies   *)
(* between the window and the threshold.  Before the window opens, every   *)
(* backoff and the pace have passed.                                       *)
Lateness == [0..MaxFaults -> 0..(RenewWithin - EscalateWithin)]

Absorbs(late) ==
    /\ Lifetime > RenewWithin /\ Lifetime >= RenewWithin + Longest
    /\ \A k \in 1..MaxFaults :
          /\ late[k] > late[k - 1]
          /\ \A j \in 1..Len(Backoff) : j <= k => late[k] >= late[k - 1] + Backoff[j]

Wait == IF failures > 0 THEN Backoff[failures] ELSE Pace

(* Renewal is on time: by what the failures so far have cost, and by what  *)
(* is left to wait after the last one.                                     *)
OnTime(late) ==
    Calm /\ current # 0 =>
        /\ Remaining(current) > RenewWithin =>
              since >= gens[current].age \/ since = Longest
        /\ Remaining(current) <= RenewWithin =>
              LET least == RenewWithin - late[MaxFaults - budget.faults] IN
              /\ Remaining(current) >= least
              /\ Remaining(current) + since >= least + Wait
              /\ NextGen <= MaxStores /\ (ran \/ at \in {"execute", "reload"}) =>
                    Remaining(current) > least

LateIInv ==
    /\ failures + budget.faults <= MaxFaults
    /\ \A late \in Lateness : Absorbs(late) => OnTime(late)

IInv ==
    /\ AttemptIInv /\ PointerIInv /\ NewestIInv /\ PlannedIInv
    /\ CoveredIInv /\ StoredIInv /\ QuietIInv /\ CalmIInv /\ LateIInv

(* Types and the inductive parts, and that a run without a certificate for *)
(* its names says so in the status (UncoveredIsDegraded).                  *)
Inv == TypeOK /\ IInv /\ UncoveredIsDegraded
=============================================================================
