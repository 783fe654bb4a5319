----------------------------- MODULE CertsProofs -----------------------------
(***************************************************************************)
(* For any schedule, any retention and any bounds: the current pointer     *)
(* names a whole generation as long as no directory removal is             *)
(* interrupted; nothing is issued again before its window opens; and, as   *)
(* soon as two generations are retained, a run that planned with the       *)
(* newest one finds it when it reloads the proxy, and one that planned     *)
(* without a certificate says so.  Renewal is in time for every schedule   *)
(* that leaves room for the failures it is to survive.                     *)
(***************************************************************************)
EXTENDS Certs, FiniteSetTheorems, WellFoundedInduction, TLAPS

(* A non-empty set of naturals has a least element.                        *)
LEMMA LeastNatural ==
    ASSUME NEW T, T \subseteq Nat, T # {}
    PROVE  \E x \in T : \A y \in T : x <= y
<1> DEFINE R == OpToRel(<, Nat)
<1>1. IsWellFoundedOn(R, Nat)
  BY NatLessThanWellFounded
<1> HIDE DEF R
<1>2. PICK x \in T : \A y \in T : ~ (<<y, x>> \in R)
  BY <1>1, WFMin
<1>3. \A y \in T : ~ (y < x)
  BY <1>2 DEF R, OpToRel
<1>4. QED
  BY <1>3

(* Min picks that element.                                                 *)
LEMMA MinIsLeast ==
    ASSUME NEW T, T \subseteq Nat, T # {}
    PROVE  Min(T) \in T /\ \A y \in T : Min(T) <= y
<1>1. PICK x \in T : \A y \in T : x <= y
  BY LeastNatural
<1>2. QED
  BY <1>1 DEF Min

(* Max picks the greatest element of a bounded set.                        *)
LEMMA MaxIsGreatest ==
    ASSUME NEW n \in Nat, NEW S, S \subseteq 1..n, S # {}
    PROVE  Max(S) \in S /\ \A y \in S : y <= Max(S)
<1> DEFINE T == {n - x : x \in S}
<1>1. \A t \in T : t \in Nat
  OBVIOUS
<1>2. T # {}
  OBVIOUS
<1>3. PICK m \in T : \A y \in T : m <= y
  BY <1>1, <1>2, LeastNatural
<1>4. PICK x \in S : m = n - x
  OBVIOUS
<1>5. \A y \in S : x >= y
  <2> TAKE y \in S
  <2>1. n - x <= n - y
    BY <1>3, <1>4
  <2>2. QED
    BY <2>1
<1>6. QED
  BY <1>5 DEF Max

(* The newest generation is listed and is the greatest.                    *)
LEMMA NewestIsGreatest ==
    ASSUME MaxStores \in Nat
    PROVE  /\ Newest \in 0..MaxStores
           /\ Listed # {} => Newest \in Listed
           /\ \A g \in Listed : g <= Newest
BY MaxIsGreatest DEF Listed, Newest, Numbers

(* The same of the next state.                                             *)
LEMMA NewestPrimed ==
    Listed' # {} => (Newest \in Listed /\ \A g \in Listed : g <= Newest)'
<1>1. Listed' \subseteq 1..MaxStores /\ MaxStores \in Nat
  BY CertsAssumption DEF Listed, Numbers
<1>2. Listed' # {} => Max(Listed') \in Listed' /\ \A y \in Listed' : y <= Max(Listed')
  BY <1>1, MaxIsGreatest
<1>3. QED
  BY <1>2 DEF Newest

(* Rolling back goes to a listed generation.                               *)
LEMMA OlderMax ==
    ASSUME MaxStores \in Nat, Older(current) # {}
    PROVE  Max(Older(current)) \in Listed /\ Max(Older(current)) \in Numbers
<1>1. Older(current) \subseteq 1..MaxStores
  BY DEF Older, Listed, Numbers
<1>2. Max(Older(current)) \in Older(current)
  BY <1>1, MaxIsGreatest
<1>3. QED
  BY <1>2 DEF Older, Listed

(* What is in excess is listed.                                            *)
LEMMA ExcessIsListed ==
    Excess \subseteq Listed /\ Listed \subseteq Numbers /\ Excess \subseteq Nat
<1>1. Excess \subseteq Listed
  BY DEF Excess
<1>2. Listed \subseteq Numbers
  BY DEF Listed
<1>3. Numbers \subseteq Nat
  BY CertsAssumption DEF Numbers
<1>4. QED
  BY <1>1, <1>2, <1>3

(* A generation that has not expired can age.                              *)
LEMMA Ageing ==
    ASSUME NEW r \in Generations, r.age < Lifetime
    PROVE  [r EXCEPT !.age = @ + 1] \in Generations
<1>1. r.age + 1 \in 0..Lifetime
  BY CertsAssumption DEF Generations
<1>2. [r EXCEPT !.age = @ + 1] =
         [names |-> r.names, age |-> r.age + 1,
          chain |-> r.chain, files |-> r.files, meta |-> r.meta]
  BY DEF Generations
<1>3. QED
  BY <1>1, <1>2 DEF Generations

(* The types the argument needs.                                           *)
BudgetTypeOK ==
    budget \in [faults : Nat, crashes : Nat, torn : Nat, rollbacks : Nat, changes : Nat]

VolumeTypes ==
    /\ StoreTypeOK
    /\ BudgetTypeOK
    /\ planned \in 0..MaxStores /\ seen \in 0..MaxStores
    /\ names \in NameSets \cup {None} /\ ctxNames \in NameSets \cup {None}
    /\ at \in {"idle", "renewal", "attempt", "stored", "execute", "reload"}

(* They hold together with: storeCert runs inside an attempt.              *)
VolumeInv == VolumeTypes /\ AttemptIInv

(* Initially nothing is stored and no run is in flight.                    *)
LEMMA VolumeInit == Init => VolumeInv
<1> SUFFICES ASSUME Init PROVE VolumeInv
  OBVIOUS
<1>1. budget \in [faults : Nat, crashes : Nat, torn : Nat, rollbacks : Nat, changes : Nat]
  BY CertsAssumption DEF Init
<1>2. QED
  BY <1>1, CertsAssumption
  DEF Init, VolumeInv, VolumeTypes, BudgetTypeOK, StoreTypeOK, AttemptIInv, Numbers, Listed

(* Spending keeps the type of the budget, and what else it holds.          *)
LEMMA SpendType ==
    ASSUME BudgetTypeOK, NEW k \in {"faults", "crashes", "torn", "rollbacks", "changes"},
           Spend(k)
    PROVE  /\ BudgetTypeOK'
           /\ budget'.torn = IF k = "torn" THEN budget.torn - 1 ELSE budget.torn
BY DEF Spend, BudgetTypeOK

(* Every step keeps the types.                                             *)
LEMMA VolumeStep == VolumeInv /\ [Next]_vars => VolumeInv'
<1> SUFFICES ASSUME VolumeInv, [Next]_vars PROVE VolumeInv'
  OBVIOUS
<1> USE CertsAssumption DEF VolumeInv, VolumeTypes
<1>0. Newest \in 0..MaxStores /\ CertPaths \in 0..MaxStores
  BY NewestIsGreatest DEF CertPaths, StoreTypeOK
<1>n. gens' = gens => Listed' = Listed /\ NextGen' = NextGen
  BY DEF Listed, NextGen, Newest
<1>1. CASE PlanStage
  BY <1>1, <1>0, <1>n
  DEF StoreTypeOK, AttemptIInv, PlanStage, fileVars, stateVars, runVars, proxyVars,
      BudgetTypeOK
<1>2. CASE RenewalSkips
  BY <1>2, <1>0, <1>n, SpendType
  DEF StoreTypeOK, AttemptIInv, RenewalSkips, RenewalFrame, fileVars, stateVars, runVars,
      proxyVars, BudgetTypeOK
<1>3. CASE RenewalAttempts
  BY <1>3, <1>0, <1>n
  DEF StoreTypeOK, AttemptIInv, RenewalAttempts, RenewalFrame, fileVars, stateVars, runVars,
      proxyVars, BudgetTypeOK, NextGen, Numbers
<1>4. CASE StoreRename
  <2>1. [names |-> ctxNames, age |-> 0, chain |-> TRUE, files |-> TRUE,
         meta |-> TRUE] \in Generations
    BY <1>4 DEF StoreRename, AttemptIInv, Generations
  <2>2. gens' \in [Numbers -> Generations \cup {None}] /\ NextGen \in Numbers
    BY <1>4, <2>1 DEF StoreRename, AttemptIInv, StoreTypeOK
  <2>3. gens'[NextGen] # None
    BY <1>4, <2>2, NoGeneration, <2>1 DEF StoreRename, StoreTypeOK
  <2>4. QED
    BY <1>4, <2>2, <2>3
    DEF StoreRename, StoreFrame, StoreTypeOK, AttemptIInv, BudgetTypeOK, Listed, proxyVars,
        stateVars
<1>5. CASE StorePointer
  BY <1>5, <1>0, <1>n
  DEF StoreTypeOK, AttemptIInv, StorePointer, StoreFrame, fileVars, stateVars, runVars,
      proxyVars, BudgetTypeOK
<1>6. CASE StorePrune
  BY <1>6
  DEF StorePrune, StoreFrame, StoreTypeOK, AttemptIInv, BudgetTypeOK, stateVars, proxyVars
<1>7. CASE StoreEnds
  BY <1>7, <1>0, <1>n
  DEF StoreTypeOK, AttemptIInv, StoreEnds, StoreFrame, fileVars, stateVars, runVars,
      proxyVars, BudgetTypeOK
<1>8. CASE AttemptOk
  BY <1>8, <1>0, <1>n
  DEF StoreTypeOK, AttemptIInv, AttemptOk, AttemptFrame, fileVars, stateVars, runVars,
      proxyVars, BudgetTypeOK
<1>9. CASE WriteConfig
  BY <1>9, <1>0, <1>n
  DEF StoreTypeOK, AttemptIInv, WriteConfig, fileVars, stateVars, runVars, proxyVars,
      BudgetTypeOK
<1>10. CASE ReloadProxy
  BY <1>10, <1>0, <1>n
  DEF StoreTypeOK, AttemptIInv, ReloadProxy, NoContext, fileVars, stateVars, runVars,
      proxyVars, BudgetTypeOK
<1>11. CASE AttemptFails
  BY <1>11, <1>0, <1>n, SpendType
  DEF StoreTypeOK, AttemptIInv, AttemptFails, AttemptFrame, fileVars, stateVars, runVars,
      proxyVars
<1>12. CASE RunFails
  BY <1>12, <1>0, <1>n, SpendType
  DEF StoreTypeOK, AttemptIInv, RunFails, NoContext, fileVars, stateVars, runVars, proxyVars
<1>13. CASE RollbackCert
  <2>1. Max(Older(current)) \in 0..MaxStores
    BY <1>13, OlderMax DEF RollbackCert, Numbers
  <2>2. QED
    BY <1>13, <2>1, <1>n, SpendType
    DEF RollbackCert, StoreTypeOK, AttemptIInv, stateVars, runVars, proxyVars
<1>14. CASE CrashInPrune
  <2>1. gens' \in [Numbers -> Generations \cup {None}]
    <3> DEFINE m == Min(Excess)
    <3>0. Excess \subseteq Nat /\ Excess # {} /\ Excess \subseteq Listed
      BY <1>14, ExcessIsListed DEF CrashInPrune
    <3>1. m \in Numbers /\ gens[m] \in Generations
      BY <3>0, MinIsLeast DEF Listed, StoreTypeOK
    <3>2. PICK chain, meta \in BOOLEAN :
             gens' = [gens EXCEPT ![m] =
                         [@ EXCEPT !.chain = chain, !.files = FALSE, !.meta = meta]]
      BY <1>14 DEF CrashInPrune
    <3> HIDE DEF m
    <3>3. [gens[m] EXCEPT !.chain = chain, !.files = FALSE, !.meta = meta] \in Generations
      BY <3>1 DEF Generations
    <3>4. QED
      BY <3>1, <3>2, <3>3 DEF StoreTypeOK
  <2>2. BudgetTypeOK'
    BY <1>14, SpendType DEF CrashInPrune
  <2>3. /\ at' = "idle" /\ store' = "no" /\ current' = current /\ names' = names
        /\ ctxNames' = None /\ planned' = 0 /\ seen' = 0
    BY <1>14 DEF CrashInPrune, NoContext
  <2>4. QED
    BY <2>1, <2>2, <2>3 DEF StoreTypeOK, AttemptIInv
<1>15. CASE Crash
  BY <1>15, <1>0, <1>n, SpendType
  DEF StoreTypeOK, AttemptIInv, Crash, NoContext, fileVars, stateVars, runVars, proxyVars
<1>16. CASE Tick
  <2>1. \A g \in Numbers : gens[g] # None /\ gens[g].age < Lifetime =>
           [gens[g] EXCEPT !.age = @ + 1] \in Generations
    <3> SUFFICES ASSUME NEW g \in Numbers, gens[g] # None, gens[g].age < Lifetime
                 PROVE  [gens[g] EXCEPT !.age = @ + 1] \in Generations
      OBVIOUS
    <3>1. gens[g] \in Generations
      BY DEF StoreTypeOK
    <3>2. QED
      BY <3>1, Ageing
  <2>2. gens' \in [Numbers -> Generations \cup {None}]
    BY <1>16, <2>1 DEF Tick, StoreTypeOK
  <2>3. QED
    BY <1>16, <2>2 DEF Tick, StoreTypeOK, AttemptIInv, BudgetTypeOK, runVars
<1>17. ASSUME NEW n \in NameSets \cup {None}, ChangeNames(n) PROVE VolumeInv'
  BY <1>17, <1>0, <1>n, SpendType
  DEF StoreTypeOK, AttemptIInv, ChangeNames, fileVars, stateVars, runVars, proxyVars
<1>18. CASE UNCHANGED vars
  BY <1>18, <1>0, <1>n
  DEF StoreTypeOK, AttemptIInv, vars, fileVars, stateVars, runVars, proxyVars, BudgetTypeOK
<1>19. QED
  BY <1>1, <1>2, <1>3, <1>4, <1>5, <1>6, <1>7, <1>8, <1>9,
     <1>10, <1>11, <1>12, <1>13, <1>14, <1>15, <1>16, <1>17, <1>18
  DEF Next, Run

(* The greatest listed generation is never in excess.                      *)
LEMMA GreatestKept ==
    ASSUME NEW c \in Listed, \A g \in Listed : g <= c
    PROVE  c \notin Excess
<1>1. {h \in Listed : h > c} = {}
  BY CertsAssumption DEF Listed, Numbers
<1>2. Cardinality({h \in Listed : h > c}) = 0
  BY <1>1, FS_EmptySet
<1>3. QED
  BY <1>2, CertsAssumption DEF Excess

(* Nor is the second, once two are retained.                               *)
LEMMA SecondKept ==
    ASSUME Retained >= 2, NEW c \in Listed,
           \A g, h \in Listed : g > c /\ h > c => g = h
    PROVE  c \notin Excess
<1> DEFINE above == {h \in Listed : h > c}
<1>1. Cardinality(above) \in {0, 1}
  <2>1. CASE above = {}
    BY <2>1, FS_EmptySet
  <2>2. CASE above # {}
    <3>1. PICK x : x \in above
      BY <2>2
    <3>2. above = {x}
      BY <3>1
    <3>3. QED
      BY <3>2, FS_Singleton
  <2>3. QED
    BY <2>1, <2>2
<1>2. QED
  BY <1>1, CertsAssumption DEF Excess

(* A tick ages what is listed and leaves the rest of it alone.             *)
LEMMA TickKeeps ==
    ASSUME VolumeInv, Tick, NEW g \in Numbers
    PROVE  /\ gens'[g] # None <=> gens[g] # None
           /\ Whole(g) => gens'[g].files
<1>1. gens[g] \in Generations \cup {None}
  BY DEF VolumeInv, VolumeTypes, StoreTypeOK
<1>2. gens'[g] = IF gens[g] # None /\ gens[g].age < Lifetime
                 THEN [gens[g] EXCEPT !.age = @ + 1] ELSE gens[g]
  BY DEF Tick
<1>3. CASE gens[g] # None /\ gens[g].age < Lifetime
  <2>1. gens'[g] \in Generations
    BY <1>1, <1>2, <1>3, Ageing
  <2>2. Whole(g) => gens'[g].files
    BY <1>1, <1>2, <1>3 DEF Generations, Whole
  <2>3. QED
    BY <1>3, <2>1, <2>2, NoGeneration
<1>4. CASE ~(gens[g] # None /\ gens[g].age < Lifetime)
  BY <1>2, <1>4 DEF Whole
<1>5. QED
  BY <1>3, <1>4

(* Every step that interrupts no removal keeps the pointer at a listed,    *)
(* whole generation.                                                       *)
LEMMA ListedStep ==
    ASSUME VolumeInv, ListedWhole, [Next]_vars, budget'.torn = MaxTorn
    PROVE  ListedWhole'
<1> USE CertsAssumption
<1>t. BudgetTypeOK /\ StoreTypeOK
  BY DEF VolumeInv, VolumeTypes
<1>s. gens' = gens => Listed' = Listed
  BY DEF Listed
<1>1. CASE PlanStage
  BY <1>1, <1>t, <1>s DEF ListedWhole, PlanStage, fileVars, stateVars, runVars, proxyVars
<1>2. CASE RenewalSkips
  BY <1>2, <1>t, <1>s, SpendType
  DEF ListedWhole, RenewalSkips, RenewalFrame, fileVars, stateVars, runVars, proxyVars
<1>3. CASE RenewalAttempts
  BY <1>3, <1>t, <1>s
  DEF ListedWhole, RenewalAttempts, RenewalFrame, fileVars, stateVars, runVars, proxyVars
<1>4. CASE StoreRename
  <2>1. NextGen \in Numbers
    BY <1>4 DEF StoreRename, VolumeInv, AttemptIInv
  <2>2. [names |-> ctxNames, age |-> 0, chain |-> TRUE, files |-> TRUE,
         meta |-> TRUE] \in Generations
    BY <1>4 DEF StoreRename, VolumeInv, AttemptIInv, Generations
  <2>3. gens'[NextGen] # None /\ gens'[NextGen].files
    BY <1>4, <2>1, <2>2, <1>t, NoGeneration DEF StoreRename, StoreTypeOK
  <2>4. \A g \in Numbers \ {NextGen} : gens'[g] = gens[g]
    BY <1>4, <1>t DEF StoreRename, StoreTypeOK
  <2>5. current' = current /\ store' = "pointer" /\ budget' = budget
    BY <1>4 DEF StoreRename, StoreFrame
  <2>6. \A g \in Numbers : gens'[g] # None => gens'[g].files
    BY <2>3, <2>4 DEF ListedWhole
  <2>7. current # 0 => gens'[current] # None
    BY <2>3, <2>4, <1>t DEF ListedWhole, StoreTypeOK, Numbers
  <2>8. QED
    BY <2>5, <2>6, <2>7 DEF ListedWhole
<1>5. CASE StorePointer
  <2>1. Newest \in Listed /\ \A g \in Listed : g <= Newest
    BY <1>5, NewestIsGreatest DEF StorePointer, VolumeInv, AttemptIInv
  <2>2. QED
    BY <1>5, <2>1, <1>s DEF StorePointer, StoreFrame, ListedWhole, Listed, Numbers
<1>6. CASE StorePrune
  <2>1. current \in Listed /\ \A g \in Listed : g <= current
    BY <1>6, <1>t DEF StorePrune, ListedWhole, Listed, Numbers, StoreTypeOK
  <2>2. Min(Excess) # current
    BY <1>6, <2>1, GreatestKept, ExcessIsListed, MinIsLeast DEF StorePrune
  <2>3. \A g \in Numbers : gens'[g] # None => gens'[g] = gens[g]
    BY <1>6, <1>t DEF StorePrune, StoreTypeOK
  <2>4. gens'[current] = gens[current]
    BY <1>6, <2>1, <2>2, <1>t DEF StorePrune, StoreTypeOK, Listed
  <2>5. Listed' \subseteq Listed
    BY <2>3 DEF Listed
  <2>6. current' = current /\ store' = store /\ budget' = budget
    BY <1>6 DEF StorePrune, StoreFrame
  <2>7. QED
    BY <2>1, <2>3, <2>4, <2>5, <2>6 DEF ListedWhole, Listed
<1>7. CASE StoreEnds
  BY <1>7, <1>t, <1>s
  DEF ListedWhole, StoreEnds, StoreFrame, fileVars, stateVars, runVars, proxyVars
<1>8. CASE AttemptOk
  BY <1>8, <1>t, <1>s
  DEF ListedWhole, AttemptOk, AttemptFrame, fileVars, stateVars, runVars, proxyVars
<1>9. CASE WriteConfig
  BY <1>9, <1>t, <1>s DEF ListedWhole, WriteConfig, fileVars, stateVars, runVars, proxyVars
<1>10. CASE ReloadProxy
  BY <1>10, <1>t, <1>s
  DEF ListedWhole, ReloadProxy, NoContext, fileVars, stateVars, runVars, proxyVars
<1>11. CASE AttemptFails
  BY <1>11, <1>t, <1>s, SpendType
  DEF ListedWhole, AttemptFails, AttemptFrame, fileVars, stateVars, runVars, proxyVars
<1>12. CASE RunFails
  BY <1>12, <1>t, <1>s, SpendType
  DEF ListedWhole, RunFails, NoContext, fileVars, stateVars, runVars, proxyVars
<1>13. CASE RollbackCert
  <2>1. Max(Older(current)) \in Listed
    BY <1>13, OlderMax DEF RollbackCert
  <2>2. QED
    BY <1>13, <2>1, <1>t, <1>s, SpendType DEF RollbackCert, ListedWhole, Listed
<1>14. CASE CrashInPrune
  <2>1. budget'.torn = budget.torn - 1
    BY <1>14, <1>t, SpendType DEF CrashInPrune
  <2>2. budget.torn = MaxTorn /\ MaxTorn - 1 # MaxTorn
    BY DEF ListedWhole
  <2>3. QED
    BY <2>1, <2>2
<1>15. CASE Crash
  BY <1>15, <1>t, <1>s, SpendType
  DEF ListedWhole, Crash, NoContext, fileVars, stateVars, runVars, proxyVars
<1>16. CASE Tick
  <2>1. store = "no"
    BY <1>16 DEF Tick, VolumeInv, AttemptIInv
  <2>2. current' = current /\ store' = store /\ budget' = budget
    BY <1>16 DEF Tick
  <2>3. \A g \in Numbers : gens'[g] # None => gens'[g].files
    <3> TAKE g \in Numbers
    <3>1. gens'[g] # None => Whole(g)
      BY <1>16, TickKeeps DEF ListedWhole, Whole
    <3>2. Whole(g) => gens'[g].files
      BY <1>16, TickKeeps
    <3>3. QED
      BY <3>1, <3>2
  <2>4. current # 0 => gens'[current] # None
    BY <1>16, TickKeeps, <1>t DEF ListedWhole, StoreTypeOK, Numbers
  <2>5. QED
    BY <2>1, <2>2, <2>3, <2>4 DEF ListedWhole
<1>17. ASSUME NEW n \in NameSets \cup {None}, ChangeNames(n) PROVE ListedWhole'
  BY <1>17, <1>t, <1>s, SpendType
  DEF ListedWhole, ChangeNames, fileVars, stateVars, runVars, proxyVars
<1>18. CASE UNCHANGED vars
  BY <1>18, <1>t, <1>s DEF ListedWhole, vars, fileVars, stateVars, runVars, proxyVars
<1>19. QED
  BY <1>1, <1>2, <1>3, <1>4, <1>5, <1>6, <1>7, <1>8, <1>9,
     <1>10, <1>11, <1>12, <1>13, <1>14, <1>15, <1>16, <1>17, <1>18
  DEF Next, Run

(* Interrupted removals are only ever added.                               *)
LEMMA TornStep ==
    ASSUME VolumeInv, [Next]_vars
    PROVE  budget'.torn \in {budget.torn, budget.torn - 1}
<1>t. BudgetTypeOK
  BY DEF VolumeInv, VolumeTypes
<1>1. CASE UNCHANGED budget
  BY <1>1
<1>2. CASE \E k \in {"faults", "crashes", "torn", "rollbacks", "changes"} : Spend(k)
  BY <1>2, <1>t, SpendType
<1>3. UNCHANGED budget \/ \E k \in {"faults", "crashes", "torn", "rollbacks", "changes"} : Spend(k)
  BY DEF Next, Run, PlanStage, RenewalSkips, RenewalAttempts, RenewalFrame, StoreRename,
         StorePointer, StorePrune, StoreEnds, StoreFrame, AttemptOk, AttemptFrame,
         WriteConfig, ReloadProxy, AttemptFails, RunFails, RollbackCert, ChangeNames,
         Crash, CrashInPrune, Tick, vars
<1>4. QED
  BY <1>1, <1>2, <1>3

(* Every step keeps PointerIInv.                                           *)
LEMMA PointerStep ==
    ASSUME VolumeInv, PointerIInv, [Next]_vars
    PROVE  PointerIInv'
<1>1. budget.torn \in Nat /\ MaxTorn \in Nat
  BY CertsAssumption DEF VolumeInv, VolumeTypes, BudgetTypeOK
<1>2. budget'.torn <= MaxTorn /\ (budget'.torn = MaxTorn => budget.torn = MaxTorn)
  BY <1>1, TornStep DEF PointerIInv
<1>3. budget'.torn = MaxTorn => ListedWhole'
  BY <1>2, ListedStep DEF PointerIInv
<1>4. QED
  BY <1>2, <1>3 DEF PointerIInv

(* Until a directory removal is interrupted the current pointer always     *)
(* names a generation whose files are there: through every step of         *)
(* storeCert, through crashes between them, and through rollbacks.         *)
THEOREM PointerNeverDangles == SafetySpec => []PointerWhole
<1>1. Init => PointerIInv
  BY CertsAssumption DEF Init, PointerIInv, ListedWhole, Numbers
<1>2. VolumeInv /\ PointerIInv /\ [Next]_vars => PointerIInv'
  BY PointerStep
<1>3. VolumeInv /\ PointerIInv => PointerWhole
  BY DEF VolumeInv, VolumeTypes, StoreTypeOK, PointerIInv, ListedWhole, PointerWhole, Whole,
         Numbers
<1>4. QED
  BY <1>1, <1>2, <1>3, VolumeInit, VolumeStep, PTL DEF SafetySpec

(* The newest generation stays whole: pruning, also when it is             *)
(* interrupted, only touches what has a newer one.                         *)
LEMMA NewestStep ==
    ASSUME VolumeInv, NewestIInv, [Next]_vars
    PROVE  NewestIInv'
<1>t. gens \in [Numbers -> Generations \cup {None}] /\ Listed \subseteq Numbers
  BY DEF VolumeInv, VolumeTypes, StoreTypeOK, Listed
<1>1. CASE UNCHANGED gens
  BY <1>1 DEF NewestIInv, Listed
<1>2. CASE StoreRename
  <2>1. NextGen \in Numbers /\ \A g \in Listed : g < NextGen
    BY <1>2, NewestIsGreatest, ExcessIsListed, CertsAssumption
    DEF StoreRename, VolumeInv, AttemptIInv, NextGen, Numbers
  <2>2. gens'[NextGen] \in Generations /\ gens'[NextGen].files
    <3>1. ctxNames \in NameSets
      BY <1>2 DEF StoreRename, VolumeInv, AttemptIInv
    <3>2. gens'[NextGen] = [names |-> ctxNames, age |-> 0, chain |-> TRUE, files |-> TRUE,
                            meta |-> TRUE]
      BY <1>2, <1>t, <2>1 DEF StoreRename
    <3>3. QED
      BY <3>1, <3>2, CertsAssumption DEF Generations
  <2>3. NextGen \in Listed'
    BY <2>1, <2>2, NoGeneration DEF Listed
  <2>4. Listed' \subseteq Listed \cup {NextGen}
    BY <1>2, <1>t DEF StoreRename, Listed
  <2>5. QED
    BY <1>t, <2>1, <2>2, <2>3, <2>4 DEF NewestIInv, Numbers
<1>3. CASE StorePrune \/ CrashInPrune
  <2> DEFINE m == Min(Excess)
  <2>1. m \in Excess /\ m \in Listed
    BY <1>3, ExcessIsListed, MinIsLeast DEF StorePrune, CrashInPrune
  <2>2. \A g \in Numbers \ {m} : gens'[g] = gens[g]
    BY <1>3, <1>t DEF StorePrune, CrashInPrune
  <2>3. PICK h \in Listed : ~(h <= m)
    BY <2>1, GreatestKept
  <2> HIDE DEF m
  <2>4. h \in Listed' /\ h > m
    BY <1>t, <2>1, <2>2, <2>3 DEF Listed, Numbers
  <2>5. Listed' \subseteq Listed /\ Listed \subseteq Listed' \cup {m}
    BY <1>t, <2>1, <2>2 DEF Listed
  <2>6. SUFFICES ASSUME NEW g \in Listed', \A x \in Listed' : x <= g
                 PROVE  gens'[g].files
    BY DEF NewestIInv
  <2>7. g # m /\ g >= h /\ g \in Listed
    BY <1>t, <2>1, <2>4, <2>5, <2>6 DEF Numbers
  <2>8. \A x \in Listed : x <= g
    BY <1>t, <2>1, <2>4, <2>5, <2>6, <2>7 DEF Numbers
  <2>9. QED
    BY <1>t, <2>2, <2>7, <2>8 DEF NewestIInv
<1>4. CASE Tick
  <2>1. \A g \in Numbers : /\ gens'[g] # None <=> gens[g] # None
                           /\ Whole(g) => gens'[g].files
    BY <1>4, TickKeeps
  <2>2. Listed' = Listed
    BY <2>1 DEF Listed
  <2>3. QED
    BY <1>t, <2>1, <2>2 DEF NewestIInv, Whole, Listed
<1>5. QED
  BY <1>1, <1>2, <1>3, <1>4
  DEF Next, Run, PlanStage, RenewalSkips, RenewalAttempts, RenewalFrame, StorePointer,
      StoreEnds, AttemptOk, AttemptFails, AttemptFrame, WriteConfig, ReloadProxy, RunFails,
      RollbackCert, ChangeNames, Crash, fileVars, vars

(* Every step keeps the generation a run planned with, if it was newest.   *)
LEMMA PlannedStep ==
    ASSUME Retained >= 2, VolumeInv, NewestIInv, PlannedIInv, [Next]_vars
    PROVE  PlannedIInv'
<1> USE CertsAssumption
<1>t. StoreTypeOK /\ planned \in 0..MaxStores
  BY DEF VolumeInv, VolumeTypes
<1>s. gens' = gens => Listed' = Listed
  BY DEF Listed
<1> DEFINE Live == planned # 0 /\ planned = seen
<1>1. CASE PlanStage
  <2>1. \A g \in Listed : g <= Newest
    BY NewestIsGreatest
  <2>2. CertPaths # 0 /\ CertPaths = Newest => Whole(CertPaths)
    <3>1. CertPaths # 0 => CertPaths \in Listed
      BY <1>t DEF CertPaths, VolumeInv, VolumeTypes, StoreTypeOK, Listed, Numbers
    <3>2. QED
      BY <2>1, <3>1 DEF NewestIInv, Whole, Listed
  <2>3. \A g \in Listed : g \in Nat
    BY ExcessIsListed DEF Numbers
  <2>4. /\ at' = "renewal" /\ planned' = CertPaths /\ seen' = Newest
        /\ gens' = gens /\ store' = store
    BY <1>1 DEF PlanStage, fileVars
  <2>5. QED
    BY <2>1, <2>2, <2>3, <2>4, <1>s, NewestIsGreatest DEF PlannedIInv, Whole
<1>2. CASE RenewalSkips
  BY <1>2, <1>t, <1>s
  DEF PlannedIInv, RenewalSkips, RenewalFrame, fileVars, stateVars, runVars, proxyVars,
      Whole
<1>3. CASE RenewalAttempts
  BY <1>3, <1>t, <1>s
  DEF PlannedIInv, RenewalAttempts, RenewalFrame, fileVars, stateVars, runVars, proxyVars,
      Whole
<1>4. CASE StoreRename
  <2>1. NextGen \in Numbers /\ \A g \in Listed : g < NextGen
    BY <1>4, NewestIsGreatest, ExcessIsListed
    DEF StoreRename, VolumeInv, AttemptIInv, NextGen, Numbers
  <2>2. \A g \in Numbers \ {NextGen} : gens'[g] = gens[g]
    BY <1>4, <1>t DEF StoreRename, StoreTypeOK
  <2>3. Listed' \subseteq Listed \cup {NextGen}
    BY <2>2 DEF Listed
  <2>4. /\ planned' = planned /\ seen' = seen /\ at = "attempt" /\ at' = at
        /\ store = "no" /\ store' = "pointer"
    BY <1>4 DEF StoreRename, StoreFrame
  <2>5. SUFFICES ASSUME Live PROVE PlannedIInv'
    BY <2>4 DEF PlannedIInv
  <2>6. Whole(planned) /\ planned \in Listed /\ \A g \in Listed : g <= planned
    BY <1>t, <2>4, <2>5 DEF PlannedIInv, Whole, Listed, Numbers
  <2>7. Whole(planned)'
    <3>1. planned \in Numbers \ {NextGen}
      BY <2>1, <2>6, ExcessIsListed DEF Numbers
    <3>2. gens'[planned'] = gens[planned]
      BY <2>2, <2>4, <3>1
    <3>3. QED
      BY <2>6, <3>2 DEF Whole
  <2>8. \A g, h \in Listed' : g > planned /\ h > planned => g = h
    BY <2>1, <2>3, <2>6, ExcessIsListed, <1>t DEF Numbers
  <2>9. QED
    BY <2>4, <2>7, <2>8 DEF PlannedIInv
<1>5. CASE StorePointer
  <2>1. at = "attempt"
    BY <1>5 DEF StorePointer, VolumeInv, AttemptIInv
  <2>2. QED
    BY <1>5, <2>1, <1>s DEF StorePointer, StoreFrame, PlannedIInv, Whole
<1>6. CASE StorePrune
  <2>1. /\ planned' = planned /\ seen' = seen /\ at' = at
        /\ store = "prune" /\ store' = store
    BY <1>6 DEF StorePrune, StoreFrame
  <2>2. at = "attempt"
    BY <2>1 DEF VolumeInv, AttemptIInv
  <2>3. SUFFICES ASSUME Live PROVE PlannedIInv'
    BY <2>1 DEF PlannedIInv
  <2>4. /\ Whole(planned) /\ planned \in Listed
        /\ \A g, h \in Listed : g > planned /\ h > planned => g = h
    BY <1>t, <2>2, <2>3 DEF PlannedIInv, Whole, Listed, Numbers
  <2>5. Min(Excess) # planned
    BY <1>6, <2>4, SecondKept, ExcessIsListed, MinIsLeast DEF StorePrune
  <2>6. \A g \in Numbers : gens'[g] # None => gens'[g] = gens[g]
    BY <1>6, <1>t DEF StorePrune, StoreTypeOK
  <2>7. gens'[planned] = gens[planned]
    BY <1>6, <2>4, <2>5, <1>t DEF StorePrune, StoreTypeOK, Listed
  <2>8. Listed' \subseteq Listed
    BY <2>6 DEF Listed
  <2>9. QED
    BY <2>1, <2>2, <2>4, <2>7, <2>8 DEF PlannedIInv, Whole
<1>7. CASE StoreEnds
  <2>1. at = "attempt"
    BY <1>7 DEF StoreEnds, VolumeInv, AttemptIInv
  <2>2. QED
    BY <1>7, <2>1, <1>s DEF StoreEnds, StoreFrame, PlannedIInv, Whole
<1>8. CASE AttemptOk
  BY <1>8, <1>t, <1>s
  DEF PlannedIInv, AttemptOk, AttemptFrame, fileVars, stateVars, runVars, proxyVars, Whole
<1>9. CASE WriteConfig
  BY <1>9, <1>t, <1>s
  DEF PlannedIInv, WriteConfig, fileVars, stateVars, runVars, proxyVars, Whole
<1>10. CASE ReloadProxy
  BY <1>10, <1>t, <1>s
  DEF PlannedIInv, ReloadProxy, NoContext, fileVars, stateVars, runVars, proxyVars, Whole
<1>11. CASE AttemptFails
  BY <1>11, <1>t, <1>s
  DEF PlannedIInv, AttemptFails, AttemptFrame, fileVars, stateVars, runVars, proxyVars,
      Whole
<1>12. CASE RunFails
  BY <1>12, <1>t, <1>s
  DEF PlannedIInv, RunFails, NoContext, fileVars, stateVars, runVars, proxyVars, Whole
<1>13. CASE RollbackCert
  BY <1>13, <1>t, <1>s
  DEF PlannedIInv, RollbackCert, fileVars, stateVars, runVars, proxyVars, Whole
<1>14. CASE CrashInPrune
  BY <1>14 DEF CrashInPrune, NoContext, PlannedIInv
<1>15. CASE Crash
  BY <1>15 DEF Crash, NoContext, PlannedIInv
<1>16. CASE Tick
  BY <1>16 DEF Tick, runVars, PlannedIInv
<1>17. ASSUME NEW n \in NameSets \cup {None}, ChangeNames(n) PROVE PlannedIInv'
  BY <1>17, <1>t, <1>s
  DEF PlannedIInv, ChangeNames, fileVars, stateVars, runVars, proxyVars, Whole
<1>18. CASE UNCHANGED vars
  BY <1>18, <1>t, <1>s DEF PlannedIInv, vars, fileVars, stateVars, runVars, proxyVars, Whole
<1>19. QED
  BY <1>1, <1>2, <1>3, <1>4, <1>5, <1>6, <1>7, <1>8, <1>9,
     <1>10, <1>11, <1>12, <1>13, <1>14, <1>15, <1>16, <1>17, <1>18
  DEF Next, Run

(* The generation that was newest when PLAN looked it up still has its     *)
(* files when EXECUTE reloads the proxy with it, although RENEWAL may have *)
(* stored and pruned in between.                                           *)
THEOREM ReloadSafe ==
    ASSUME Retained >= 2
    PROVE  SafetySpec => []ReloadFindsCert
<1>1. Init => NewestIInv /\ PlannedIInv
  BY DEF Init, NewestIInv, PlannedIInv, Listed
<1>2. VolumeInv /\ NewestIInv /\ PlannedIInv /\ [Next]_vars => NewestIInv' /\ PlannedIInv'
  BY NewestStep, PlannedStep
<1>3. PlannedIInv => ReloadFindsCert
  BY DEF PlannedIInv, ReloadFindsCert
<1>4. QED
  BY <1>1, <1>2, <1>3, VolumeInit, VolumeStep, PTL DEF SafetySpec

-----------------------------------------------------------------------------
(* The schedule, the proxy and the flags keep their types too.             *)
Flags == {degraded, ran, quiet} \subseteq BOOLEAN

BudgetRanges ==
    budget \in [faults : 0..MaxFaults, crashes : 0..MaxCrashes, torn : 0..MaxTorn,
                rollbacks : 0..MaxRollbacks, changes : 0..MaxChanges]

Schedule ==
    /\ since \in 0..Longest /\ failures \in 0..Len(Backoff)
    /\ config \in 0..MaxStores /\ served \in 0..MaxStores

(* A step leaves the budget alone or spends some of it.                    *)
LEMMA BudgetStep ==
    ASSUME BudgetRanges, [Next]_vars
    PROVE  BudgetRanges'
<1>1. CASE UNCHANGED budget
  BY <1>1 DEF BudgetRanges
<1>2. ASSUME NEW k \in {"faults", "crashes", "torn", "rollbacks", "changes"}, Spend(k)
      PROVE  BudgetRanges'
  <2>1. /\ MaxFaults \in Nat /\ MaxCrashes \in Nat /\ MaxTorn \in Nat
        /\ MaxRollbacks \in Nat /\ MaxChanges \in Nat
    BY CertsAssumption
  <2>2. budget[k] > 0 /\ budget' = [budget EXCEPT ![k] = @ - 1]
    BY <1>2 DEF Spend
  <2>3. CASE k = "faults"
    BY <2>1, <2>2, <2>3 DEF BudgetRanges
  <2>4. CASE k = "crashes"
    BY <2>1, <2>2, <2>4 DEF BudgetRanges
  <2>5. CASE k = "torn"
    BY <2>1, <2>2, <2>5 DEF BudgetRanges
  <2>6. CASE k = "rollbacks"
    BY <2>1, <2>2, <2>6 DEF BudgetRanges
  <2>7. CASE k = "changes"
    BY <2>1, <2>2, <2>7 DEF BudgetRanges
  <2>8. QED
    BY <2>3, <2>4, <2>5, <2>6, <2>7
<1>3. UNCHANGED budget \/ \E k \in {"faults", "crashes", "torn", "rollbacks", "changes"} : Spend(k)
  BY DEF Next, Run, PlanStage, RenewalSkips, RenewalAttempts, RenewalFrame, StoreRename,
         StorePointer, StorePrune, StoreEnds, StoreFrame, AttemptOk, AttemptFrame,
         WriteConfig, ReloadProxy, AttemptFails, RunFails, RollbackCert, ChangeNames,
         Crash, CrashInPrune, Tick, vars
<1>4. QED
  BY <1>1, <1>2, <1>3

(* The schedule is set to now, ages up to its cap, or stays.               *)
LEMMA ScheduleStep ==
    ASSUME VolumeInv, Schedule, [Next]_vars
    PROVE  Schedule'
<1> USE CertsAssumption DEF Schedule
<1>t. planned \in 0..MaxStores
  BY DEF VolumeInv, VolumeTypes
<1>1. CASE AttemptOk
  BY <1>1 DEF AttemptOk, AttemptFrame, proxyVars
<1>2. CASE AttemptFails
  BY <1>2 DEF AttemptFails, AttemptFrame, proxyVars
<1>3. CASE WriteConfig
  BY <1>3, <1>t DEF WriteConfig, stateVars
<1>4. CASE ReloadProxy
  BY <1>4, <1>t DEF ReloadProxy, stateVars
<1>5. CASE Tick
  <2>1. /\ since' = IF since < Longest THEN since + 1 ELSE since
        /\ UNCHANGED <<failures, config, served>>
    BY <1>5, Zenon DEF Tick, proxyVars
  <2>2. QED
    BY <2>1
<1>6. CASE UNCHANGED <<stateVars, proxyVars>>
  BY <1>6 DEF stateVars, proxyVars
<1>7. QED
  BY <1>1, <1>2, <1>3, <1>4, <1>5, <1>6
  DEF Next, Run, PlanStage, RenewalSkips, RenewalAttempts, RenewalFrame, StoreRename,
      StorePointer, StorePrune, StoreEnds, StoreFrame, RunFails, RollbackCert, ChangeNames,
      Crash, CrashInPrune, vars, stateVars, proxyVars

(* Flags are set to truth values.                                          *)
LEMMA FlagStep == Flags /\ [Next]_vars => Flags'
<1> SUFFICES ASSUME Flags, [Next]_vars PROVE Flags'
  OBVIOUS
<1> USE DEF Flags
<1>1. CASE PlanStage \/ ReloadProxy \/ RunFails \/ Crash \/ CrashInPrune \/ Tick
  BY <1>1, Zenon DEF PlanStage, ReloadProxy, RunFails, Crash, CrashInPrune, Tick, NoContext,
                     runVars
<1>2. CASE RenewalSkips \/ RenewalAttempts
  <2>1. degraded' \in BOOLEAN /\ ran' = ran /\ quiet' = quiet
    BY <1>2, Zenon DEF RenewalSkips, RenewalAttempts, Escalation, RenewalFrame
  <2>2. QED
    BY <2>1, Zenon
<1>3. CASE StoreRename \/ RollbackCert \/ \E n \in NameSets \cup {None} : ChangeNames(n)
  <2>1. degraded' = degraded /\ ran' = ran /\ quiet' = FALSE
    BY <1>3 DEF StoreRename, StoreFrame, RollbackCert, ChangeNames, runVars
  <2>2. QED
    BY <2>1, Zenon
<1>4. CASE AttemptOk
  <2>1. degraded' = degraded /\ ran' = ran /\ quiet' \in BOOLEAN
    BY <1>4, Zenon DEF AttemptOk, AttemptFrame
  <2>2. QED
    BY <2>1, Zenon
<1>5. CASE UNCHANGED <<degraded, ran, quiet>>
  BY <1>5, Zenon
<1>6. QED
  BY <1>1, <1>2, <1>3, <1>4, <1>5
  DEF Next, Run, StorePointer, StorePrune, StoreEnds, StoreFrame, AttemptFails,
      AttemptFrame, WriteConfig, vars

(* The types of the model, as parts.                                       *)
Types == VolumeInv /\ Schedule /\ Flags /\ BudgetRanges

(* Initially no attempt was made and nothing is spent.                     *)
LEMMA TypesInit == Init => Types
<1> SUFFICES ASSUME Init PROVE Schedule /\ Flags /\ BudgetRanges
  BY VolumeInit DEF Types
<1>1. Schedule /\ BudgetRanges
  BY CertsAssumption DEF Init, Schedule, BudgetRanges
<1>2. Flags
  BY Zenon DEF Init, Flags
<1>3. QED
  BY <1>1, <1>2

(* The parts are inductive and make up the type invariant.                 *)
LEMMA TypesStep == Types /\ [Next]_vars => Types'
BY VolumeStep, ScheduleStep, FlagStep, BudgetStep DEF Types

(* The parts make up the type invariant.                                   *)
LEMMA TypesTypeOK == Types => TypeOK
<1> SUFFICES ASSUME Types PROVE TypeOK
  OBVIOUS
<1>1. degraded \in BOOLEAN /\ ran \in BOOLEAN /\ quiet \in BOOLEAN
  BY Zenon DEF Types, Flags
<1>2. QED
  BY <1>1 DEF Types, VolumeInv, VolumeTypes, Schedule, BudgetRanges, TypeOK, RunTypeOK

-----------------------------------------------------------------------------
(* A tick changes nothing of a generation but its age.                     *)
LEMMA TickAges ==
    ASSUME VolumeInv, Tick, NEW g \in Listed
    PROVE  /\ gens'[g].names = gens[g].names
           /\ gens'[g].chain = gens[g].chain
           /\ gens'[g].meta = gens[g].meta
<1>1. g \in Numbers /\ gens[g] \in Generations
  BY DEF VolumeInv, VolumeTypes, StoreTypeOK, Listed
<1>2. gens'[g] = IF gens[g] # None /\ gens[g].age < Lifetime
                 THEN [gens[g] EXCEPT !.age = @ + 1] ELSE gens[g]
  BY <1>1 DEF Tick
<1>3. QED
  BY <1>1, <1>2 DEF Generations

(* A tick lists what was listed.                                           *)
LEMMA TickListed ==
    ASSUME VolumeInv, Tick
    PROVE  Listed' = Listed
BY TickKeeps DEF Listed

(* What a store renames into place is listed, is the newest and covers the *)
(* names of its run.                                                       *)
LEMMA RenameListed ==
    ASSUME VolumeInv, StoreRename
    PROVE  /\ NextGen \in Numbers
           /\ gens'[NextGen] = [names |-> ctxNames, age |-> 0, chain |-> TRUE,
                                files |-> TRUE, meta |-> TRUE]
           /\ Listed' = Listed \cup {NextGen}
           /\ \A g \in Listed : g # NextGen /\ gens'[g] = gens[g]
           /\ Newest' = NextGen
<1>t. gens \in [Numbers -> Generations \cup {None}] /\ Listed \subseteq Numbers
  BY DEF VolumeInv, VolumeTypes, StoreTypeOK, Listed
<1>1. NextGen \in Numbers /\ \A g \in Listed : g < NextGen
  BY NewestIsGreatest, ExcessIsListed, CertsAssumption
  DEF StoreRename, VolumeInv, AttemptIInv, NextGen, Numbers
<1>2. gens'[NextGen] = [names |-> ctxNames, age |-> 0, chain |-> TRUE, files |-> TRUE,
                        meta |-> TRUE]
  BY <1>t, <1>1 DEF StoreRename
<1>3. gens'[NextGen] # None
  <2>1. ctxNames \in NameSets
    BY DEF StoreRename, VolumeInv, AttemptIInv
  <2>2. gens'[NextGen] \in Generations
    BY <1>2, <2>1, CertsAssumption DEF Generations
  <2>3. QED
    BY <2>2, NoGeneration
<1>4. \A g \in Numbers \ {NextGen} : gens'[g] = gens[g]
  BY <1>t DEF StoreRename
<1>5. Listed' = Listed \cup {NextGen}
  BY <1>1, <1>3, <1>4 DEF Listed
<1>6. \A g \in Listed : g # NextGen /\ gens'[g] = gens[g]
  BY <1>t, <1>1, <1>4, CertsAssumption DEF Numbers
<1>7. Newest' = NextGen
  <2>1. (Newest \in Listed /\ \A g \in Listed : g <= Newest)'
    BY <1>5, NewestPrimed
  <2>2. QED
    BY <1>t, <1>1, <1>5, <2>1, CertsAssumption DEF Numbers
<1>8. QED
  BY <1>1, <1>2, <1>5, <1>6, <1>7

(* A removal leaves every other generation as it was, and the newest too.  *)
LEMMA PruneListed ==
    ASSUME VolumeInv, StorePrune
    PROVE  /\ Listed' \subseteq Listed
           /\ \A g \in Listed' : gens'[g] = gens[g]
           /\ Newest \in Listed' /\ Newest' = Newest
<1>t. gens \in [Numbers -> Generations \cup {None}] /\ Listed \subseteq Numbers
  BY DEF VolumeInv, VolumeTypes, StoreTypeOK, Listed
<1> DEFINE m == Min(Excess)
<1>1. m \in Excess /\ m \in Listed
  BY ExcessIsListed, MinIsLeast DEF StorePrune
<1>2. Newest \in Listed /\ \A g \in Listed : g <= Newest
  BY <1>1, NewestIsGreatest, CertsAssumption
<1>3. m # Newest
  BY <1>1, <1>2, GreatestKept
<1>4. gens' = [gens EXCEPT ![m] = None]
  BY DEF StorePrune
<1> HIDE DEF m
<1>5. Listed' = Listed \ {m} /\ \A g \in Listed' : gens'[g] = gens[g]
  BY <1>t, <1>1, <1>4 DEF Listed
<1>6. Newest \in Listed'
  BY <1>2, <1>3, <1>5
<1>7. (Newest \in Listed /\ \A g \in Listed : g <= Newest)'
  BY <1>6, NewestPrimed
<1>8. Newest' = Newest
  BY <1>t, <1>2, <1>5, <1>6, <1>7, CertsAssumption DEF Numbers
<1>9. QED
  BY <1>5, <1>6, <1>8

-----------------------------------------------------------------------------
(* Crashes are only ever added.                                            *)
Unhurt == budget.crashes = MaxCrashes /\ budget.torn = MaxTorn

(* A step after which nothing was hurt hurts nothing.                      *)
LEMMA UnhurtBefore ==
    ASSUME BudgetRanges, [Next]_vars, Unhurt'
    PROVE  Unhurt /\ ~Crash /\ ~CrashInPrune
<1>0. /\ budget.crashes \in 0..MaxCrashes /\ budget.torn \in 0..MaxTorn
      /\ MaxCrashes \in Nat /\ MaxTorn \in Nat
  BY CertsAssumption DEF BudgetRanges
<1>1. ~Crash
  <2> SUFFICES ASSUME Crash PROVE FALSE
    OBVIOUS
  <2>1. budget'.crashes = budget.crashes - 1
    BY DEF Crash, Spend, BudgetRanges
  <2>2. QED
    BY <1>0, <2>1 DEF Unhurt
<1>2. ~CrashInPrune
  <2> SUFFICES ASSUME CrashInPrune PROVE FALSE
    OBVIOUS
  <2>1. budget'.torn = budget.torn - 1
    BY DEF CrashInPrune, Spend, BudgetRanges
  <2>2. QED
    BY <1>0, <2>1 DEF Unhurt
<1>3. CASE UNCHANGED budget
  BY <1>1, <1>2, <1>3 DEF Unhurt
<1>4. CASE \E k \in {"faults", "rollbacks", "changes"} : Spend(k)
  <2>1. PICK k \in {"faults", "rollbacks", "changes"} :
           budget' = [budget EXCEPT ![k] = @ - 1]
    BY <1>4 DEF Spend
  <2>2. budget'.crashes = budget.crashes /\ budget'.torn = budget.torn
    BY <2>1 DEF BudgetRanges
  <2>3. QED
    BY <1>1, <1>2, <2>2 DEF Unhurt
<1>5. QED
  BY <1>1, <1>2, <1>3, <1>4
  DEF Next, Run, PlanStage, RenewalSkips, RenewalAttempts, RenewalFrame, StoreRename,
      StorePointer, StorePrune, StoreEnds, StoreFrame, AttemptOk, AttemptFrame,
      WriteConfig, ReloadProxy, AttemptFails, RunFails, RollbackCert, ChangeNames,
      Tick, vars

(* Where no generation is listed RENEWAL flags the run.                    *)
LEMMA NothingListedEscalates ==
    ASSUME StoreTypeOK, Listed = {}
    PROVE  IsEscalated
<1>1. MetaOf \in 0..MaxStores
  BY NewestIsGreatest, CertsAssumption DEF MetaOf, StoreTypeOK
<1>2. MetaOf # 0 => gens[MetaOf] = None
  BY <1>1, CertsAssumption DEF Listed, Numbers
<1>3. QED
  BY <1>2 DEF IsEscalated, HasMeta

(* Every step keeps CoveredIInv.                                           *)
LEMMA CoveredStep ==
    ASSUME Types, PointerIInv, CoveredIInv, [Next]_vars
    PROVE  CoveredIInv'
<1> SUFFICES ASSUME Unhurt' PROVE CoveredIInv'
  BY DEF CoveredIInv, Unhurt
<1>u. Unhurt /\ ~Crash /\ ~CrashInPrune
  BY UnhurtBefore DEF Types
<1>t. StoreTypeOK /\ AttemptIInv /\ VolumeInv
  BY DEF Types, VolumeInv, VolumeTypes
<1>s. gens' = gens => Listed' = Listed
  BY DEF Listed
<1>c. /\ current = 0 /\ store # "pointer" => Listed = {}
      /\ \A g \in Listed : gens[g].chain
      /\ at = "renewal" /\ planned = 0 => Listed = {}
      /\ at \in {"attempt", "stored", "execute"} /\ ctxNames # None /\ planned = 0 => degraded
  BY <1>u DEF CoveredIInv, Unhurt
<1>1. CASE PlanStage
  <2>1. store = "no"
    BY <1>1, <1>t DEF PlanStage, AttemptIInv
  <2>2. current # 0 => current \in Listed
    BY <1>u, <1>t, CertsAssumption
    DEF Unhurt, PointerIInv, ListedWhole, Listed, StoreTypeOK, Numbers
  <2>3. CertPaths = 0 => Listed = {}
    BY <1>c, <2>1, <2>2 DEF CertPaths, Listed
  <2>4. /\ at' = "renewal" /\ planned' = CertPaths
        /\ UNCHANGED <<gens, current, store>>
    BY <1>1 DEF PlanStage, fileVars
  <2>5. QED
    BY <1>c, <1>s, <2>3, <2>4 DEF CoveredIInv
<1>2. CASE RenewalSkips \/ RenewalAttempts
  <2>1. /\ at = "renewal" /\ at' \in {"attempt", "execute"}
        /\ UNCHANGED <<gens, current, store, ctxNames, planned>>
    BY <1>2 DEF RenewalSkips, RenewalAttempts, RenewalFrame, fileVars
  <2>2. planned = 0 /\ ctxNames # None => degraded'
    <3>1. planned = 0 => IsEscalated
      BY <1>c, <1>t, <2>1, NothingListedEscalates
    <3>2. degraded' = (ctxNames # None /\ IsEscalated)
      BY <1>2 DEF RenewalSkips, RenewalAttempts, Escalation
    <3>3. QED
      BY <3>1, <3>2, Zenon
  <2>3. QED
    BY <1>c, <1>s, <2>1, <2>2 DEF CoveredIInv
<1>3. CASE StoreRename
  <2>1. gens'[NextGen].chain
    BY <1>3, <1>t, RenameListed
  <2>2. \A g \in Listed' : gens'[g].chain
    BY <1>3, <1>t, <1>c, <2>1, RenameListed
  <2>3. /\ store' = "pointer" /\ at = "attempt"
        /\ UNCHANGED <<at, ctxNames, planned, degraded>>
    BY <1>3 DEF StoreRename, StoreFrame
  <2>4. QED
    BY <1>c, <2>2, <2>3 DEF CoveredIInv
<1>4. CASE StorePointer
  <2>1. Newest # 0
    BY <1>4, <1>t, NewestIsGreatest, ExcessIsListed, CertsAssumption
    DEF StorePointer, AttemptIInv, Numbers
  <2>2. /\ current' = Newest /\ UNCHANGED <<gens, at, ctxNames, planned, degraded>>
    BY <1>4 DEF StorePointer, StoreFrame
  <2>3. QED
    BY <1>c, <1>s, <2>1, <2>2 DEF CoveredIInv
<1>5. CASE StorePrune
  <2>1. /\ Listed' \subseteq Listed /\ \A g \in Listed' : gens'[g] = gens[g]
        /\ UNCHANGED <<store, current, at, ctxNames, planned, degraded>>
    BY <1>5, <1>t, PruneListed DEF StorePrune, StoreFrame
  <2>2. QED
    BY <1>c, <2>1 DEF CoveredIInv
<1>6. CASE StoreEnds
  <2>1. /\ store = "prune" /\ at' = "stored"
        /\ UNCHANGED <<gens, current, ctxNames, planned, degraded>>
    BY <1>6 DEF StoreEnds, StoreFrame
  <2>2. at = "attempt"
    BY <1>t, <2>1 DEF AttemptIInv
  <2>3. QED
    BY <1>c, <1>s, <2>1, <2>2 DEF CoveredIInv
<1>7. CASE AttemptOk \/ AttemptFails
  <2>1. /\ at \in {"attempt", "stored"} /\ at' = "execute"
        /\ UNCHANGED <<gens, current, store, ctxNames, planned, degraded>>
    BY <1>7 DEF AttemptOk, AttemptFails, AttemptFrame, fileVars
  <2>2. QED
    BY <1>c, <1>s, <2>1 DEF CoveredIInv
<1>8. CASE WriteConfig \/ ReloadProxy \/ RunFails
  <2>1. at' \in {"idle", "reload"} /\ UNCHANGED <<gens, current, store>>
    BY <1>8 DEF WriteConfig, ReloadProxy, RunFails, NoContext, fileVars
  <2>2. QED
    BY <1>c, <1>s, <2>1 DEF CoveredIInv
<1>9. CASE RollbackCert
  <2>1. Max(Older(current)) \in Numbers
    BY <1>9, OlderMax, CertsAssumption DEF RollbackCert
  <2>2. /\ current' = Max(Older(current))
        /\ UNCHANGED <<gens, at, ctxNames, planned, degraded>>
    BY <1>9 DEF RollbackCert, runVars
  <2>3. QED
    BY <1>c, <1>s, <2>1, <2>2, CertsAssumption DEF CoveredIInv, Numbers
<1>10. CASE Tick
  <2>1. Listed' = Listed /\ \A g \in Listed : gens'[g].chain = gens[g].chain
    BY <1>10, <1>t, TickListed, TickAges
  <2>2. UNCHANGED <<current, store, at, ctxNames, planned, degraded>>
    BY <1>10 DEF Tick, runVars
  <2>3. QED
    BY <1>c, <2>1, <2>2 DEF CoveredIInv
<1>11. CASE \/ \E n \in NameSets \cup {None} : ChangeNames(n)
            \/ UNCHANGED vars
  <2>1. UNCHANGED <<gens, current, store, at, ctxNames, planned, degraded>>
    BY <1>11 DEF ChangeNames, fileVars, runVars, vars
  <2>2. QED
    BY <1>c, <1>s, <2>1 DEF CoveredIInv
<1>12. QED
  BY <1>u, <1>1, <1>2, <1>3, <1>4, <1>5, <1>6, <1>7, <1>8, <1>9, <1>10, <1>11
  DEF Next, Run

(* Every step keeps StoredIInv: pruning never removes what was just        *)
(* stored.                                                                 *)
LEMMA StoredStep ==
    ASSUME Types, StoredIInv, [Next]_vars
    PROVE  StoredIInv'
<1>t. StoreTypeOK /\ AttemptIInv /\ VolumeInv
  BY DEF Types, VolumeInv, VolumeTypes
<1>s. gens' = gens => Listed' = Listed /\ Newest' = Newest
  BY DEF Listed, Newest
<1>1. CASE StoreRename
  <2>1. /\ Listed' # {} /\ Newest' = NextGen
        /\ gens'[NextGen].names = ctxNames /\ gens'[NextGen].meta
    BY <1>1, <1>t, RenameListed
  <2>2. quiet' = FALSE /\ ctxNames' = ctxNames
    BY <1>1 DEF StoreRename, StoreFrame
  <2>3. QED
    BY <2>1, <2>2 DEF StoredIInv
<1>2. CASE StorePointer \/ StoreEnds
  <2>1. store \in {"pointer", "prune"} /\ UNCHANGED <<gens, ctxNames, quiet>>
    BY <1>2 DEF StorePointer, StoreEnds, StoreFrame
  <2>2. QED
    BY <1>s, <2>1 DEF StoredIInv
<1>3. CASE StorePrune
  <2>1. /\ Newest \in Listed' /\ Newest' = Newest
        /\ \A g \in Listed' : gens'[g] = gens[g]
    BY <1>3, <1>t, PruneListed
  <2>2. store = "prune" /\ UNCHANGED <<ctxNames, quiet>>
    BY <1>3 DEF StorePrune, StoreFrame
  <2>3. QED
    BY <2>1, <2>2 DEF StoredIInv
<1>4. CASE \/ PlanStage \/ RenewalSkips \/ RenewalAttempts \/ AttemptOk \/ AttemptFails
           \/ WriteConfig \/ ReloadProxy \/ RunFails \/ Crash \/ CrashInPrune
  <2>1. at' # "stored"
    BY <1>4
    DEF PlanStage, RenewalSkips, RenewalAttempts, AttemptOk, AttemptFails, WriteConfig,
        ReloadProxy, RunFails, Crash, CrashInPrune, NoContext
  <2>2. store' = "no"
    BY <1>4, <1>t
    DEF PlanStage, RenewalSkips, RenewalAttempts, RenewalFrame, AttemptOk, AttemptFails,
        AttemptFrame, WriteConfig, ReloadProxy, RunFails, Crash, CrashInPrune, NoContext,
        fileVars, AttemptIInv, StoreTypeOK
  <2>3. QED
    BY <2>1, <2>2 DEF StoredIInv
<1>5. CASE RollbackCert \/ \E n \in NameSets \cup {None} : ChangeNames(n)
  <2>1. quiet' = FALSE /\ UNCHANGED <<gens, store, at, ctxNames>>
    BY <1>5 DEF RollbackCert, ChangeNames, fileVars, runVars
  <2>2. QED
    BY <1>s, <2>1 DEF StoredIInv
<1>6. CASE Tick
  <2>1. store = "no" /\ at = "idle" /\ store' = store /\ at' = at
    BY <1>6, <1>t DEF Tick, AttemptIInv, runVars
  <2>2. QED
    BY <2>1 DEF StoredIInv
<1>7. CASE UNCHANGED vars
  BY <1>7, <1>s DEF vars, StoredIInv
<1>8. QED
  BY <1>1, <1>2, <1>3, <1>4, <1>5, <1>6, <1>7 DEF Next, Run

(* Every step keeps QuietIInv.                                             *)
LEMMA QuietStep ==
    ASSUME Types, StoredIInv, QuietIInv, [Next]_vars
    PROVE  QuietIInv'
<1> SUFFICES ASSUME quiet' PROVE QuietIInv'
  BY DEF QuietIInv
<1> USE DEF Remaining
<1>t. StoreTypeOK /\ AttemptIInv /\ VolumeInv
  BY DEF Types, VolumeInv, VolumeTypes
<1>q. quiet => /\ current # 0 /\ gens[current] # None
               /\ gens[current].names = names /\ gens[current].meta
               /\ at \in {"renewal", "attempt"} => ctxNames = names
               /\ at = "attempt" => Remaining(current) <= RenewWithin
  BY DEF QuietIInv
<1>1. CASE PlanStage
  <2>1. /\ at' = "renewal" /\ ctxNames' = names
        /\ UNCHANGED <<gens, current, names, quiet>>
    BY <1>1 DEF PlanStage, fileVars
  <2>2. QED
    BY <1>q, <2>1 DEF QuietIInv
<1>2. CASE RenewalAttempts
  <2>1. /\ at = "renewal" /\ Due /\ at' = "attempt"
        /\ UNCHANGED <<gens, current, names, ctxNames, quiet>>
    BY <1>2 DEF RenewalAttempts, RenewalFrame, fileVars
  <2>2. MetaOf = current /\ HasMeta /\ gens[MetaOf].names = ctxNames
    BY <1>q, <2>1 DEF MetaOf, HasMeta
  <2>3. Remaining(current) <= RenewWithin
    BY <2>1, <2>2 DEF Due
  <2>4. QED
    BY <1>q, <2>1, <2>3 DEF QuietIInv
<1>3. CASE StoreRename \/ RollbackCert \/ Crash \/ CrashInPrune
           \/ \E n \in NameSets \cup {None} : ChangeNames(n)
  BY <1>3 DEF StoreRename, RollbackCert, Crash, CrashInPrune, ChangeNames
<1>4. CASE StorePointer \/ StorePrune \/ StoreEnds
  BY <1>4 DEF StorePointer, StorePrune, StoreEnds, StoredIInv
<1>5. CASE AttemptOk
  <2>1. /\ at = "stored" /\ at' = "execute" /\ UNCHANGED <<gens, current, names>>
        /\ names = ctxNames /\ current = Newest
    BY <1>5 DEF AttemptOk, AttemptFrame, fileVars
  <2>2. Newest \in Listed /\ gens[Newest].names = ctxNames /\ gens[Newest].meta
    BY <2>1, NewestIsGreatest, CertsAssumption DEF StoredIInv
  <2>3. Newest # 0
    BY <2>2, ExcessIsListed, CertsAssumption DEF Numbers
  <2>4. QED
    BY <2>1, <2>2, <2>3 DEF QuietIInv, Listed
<1>6. CASE RenewalSkips \/ AttemptFails \/ WriteConfig \/ ReloadProxy \/ RunFails
  <2>1. at' \in {"idle", "execute", "reload"} /\ UNCHANGED <<gens, current, names, quiet>>
    BY <1>6 DEF RenewalSkips, RenewalFrame, AttemptFails, AttemptFrame, WriteConfig,
                ReloadProxy, RunFails, NoContext, fileVars
  <2>2. QED
    BY <1>q, <2>1 DEF QuietIInv
<1>7. CASE Tick
  <2>1. at = "idle" /\ UNCHANGED <<at, current, names, quiet>>
    BY <1>7 DEF Tick, runVars
  <2>2. current \in Listed
    BY <1>q, <1>t, <2>1, CertsAssumption DEF Listed, StoreTypeOK, Numbers
  <2>3. /\ gens'[current].names = gens[current].names
        /\ gens'[current].meta = gens[current].meta
        /\ gens'[current] # None
    BY <1>7, <1>t, <2>2, TickAges, TickKeeps DEF Listed
  <2>4. QED
    BY <1>q, <2>1, <2>3 DEF QuietIInv
<1>8. CASE UNCHANGED vars
  BY <1>8, <1>q DEF vars, QuietIInv
<1>9. QED
  BY <1>1, <1>2, <1>3, <1>4, <1>5, <1>6, <1>7, <1>8 DEF Next, Run

-----------------------------------------------------------------------------
(* A step after which all was calm starts from a calm state.               *)
LEMMA CalmBefore ==
    ASSUME BudgetRanges, [Next]_vars, Calm'
    PROVE  /\ Calm /\ ~RollbackCert
           /\ \A n \in NameSets \cup {None} : ~ChangeNames(n)
<1>0. /\ budget.rollbacks \in 0..MaxRollbacks /\ budget.changes \in 0..MaxChanges
      /\ MaxRollbacks \in Nat /\ MaxChanges \in Nat
  BY CertsAssumption DEF BudgetRanges
<1>1. ~RollbackCert
  <2> SUFFICES ASSUME RollbackCert PROVE FALSE
    OBVIOUS
  <2>1. budget'.rollbacks = budget.rollbacks - 1
    BY DEF RollbackCert, Spend, BudgetRanges
  <2>2. QED
    BY <1>0, <2>1 DEF Calm
<1>2. ASSUME NEW n \in NameSets \cup {None}, ChangeNames(n) PROVE FALSE
  <2>1. budget'.changes = budget.changes - 1
    BY <1>2 DEF ChangeNames, Spend, BudgetRanges
  <2>2. QED
    BY <1>0, <2>1 DEF Calm
<1>3. CASE UNCHANGED budget
  BY <1>1, <1>2, <1>3 DEF Calm
<1>4. CASE \E k \in {"faults", "crashes", "torn"} : Spend(k)
  <2>1. PICK k \in {"faults", "crashes", "torn"} :
           budget' = [budget EXCEPT ![k] = @ - 1]
    BY <1>4 DEF Spend
  <2>2. budget'.rollbacks = budget.rollbacks /\ budget'.changes = budget.changes
    BY <2>1 DEF BudgetRanges
  <2>3. QED
    BY <1>1, <1>2, <2>2 DEF Calm
<1>5. QED
  BY <1>1, <1>2, <1>3, <1>4
  DEF Next, Run, PlanStage, RenewalSkips, RenewalAttempts, RenewalFrame, StoreRename,
      StorePointer, StorePrune, StoreEnds, StoreFrame, AttemptOk, AttemptFrame,
      WriteConfig, ReloadProxy, AttemptFails, RunFails, Crash, CrashInPrune, Tick, vars

(* An interrupted removal leaves everything listed and, of the newest      *)
(* generation, everything; of the others, names and age.                   *)
LEMMA TornListed ==
    ASSUME VolumeInv, CrashInPrune
    PROVE  /\ Listed' = Listed /\ Newest' = Newest
           /\ gens'[Newest] = gens[Newest]
           /\ \A g \in Listed : gens'[g].names = gens[g].names
<1>t. gens \in [Numbers -> Generations \cup {None}] /\ Listed \subseteq Numbers
  BY DEF VolumeInv, VolumeTypes, StoreTypeOK, Listed
<1> DEFINE m == Min(Excess)
<1>1. m \in Excess /\ m \in Listed
  BY ExcessIsListed, MinIsLeast DEF CrashInPrune
<1>2. Newest \in Listed /\ \A g \in Listed : g <= Newest
  BY <1>1, NewestIsGreatest, CertsAssumption
<1>3. m # Newest
  BY <1>1, <1>2, GreatestKept
<1>4. PICK chain, meta \in BOOLEAN :
         gens' = [gens EXCEPT ![m] =
                     [@ EXCEPT !.chain = chain, !.files = FALSE, !.meta = meta]]
  BY DEF CrashInPrune
<1> HIDE DEF m
<1> DEFINE rest == [gens[m] EXCEPT !.chain = chain, !.files = FALSE, !.meta = meta]
<1>5. gens[m] \in Generations
  BY <1>t, <1>1 DEF Listed
<1>6. rest \in Generations /\ rest.names = gens[m].names
  BY <1>5 DEF Generations
<1>7. gens'[m] = rest /\ \A g \in Numbers \ {m} : gens'[g] = gens[g]
  BY <1>t, <1>1, <1>4
<1> HIDE DEF rest
<1>8. Listed' = Listed
  BY <1>1, <1>6, <1>7, NoGeneration DEF Listed
<1>9. QED
  BY <1>t, <1>2, <1>3, <1>6, <1>7, <1>8 DEF Newest

(* Every step keeps CalmIInv.                                              *)
LEMMA CalmStep ==
    ASSUME Types, StoredIInv, CalmIInv, [Next]_vars
    PROVE  CalmIInv'
<1> SUFFICES ASSUME Calm' PROVE CalmIInv'
  BY DEF CalmIInv
<1>u. /\ Calm /\ ~RollbackCert
      /\ \A n \in NameSets \cup {None} : ~ChangeNames(n)
  BY CalmBefore DEF Types
<1>t. StoreTypeOK /\ AttemptIInv /\ VolumeInv
  BY DEF Types, VolumeInv, VolumeTypes
<1>s. gens' = gens => Listed' = Listed /\ Newest' = Newest
  BY DEF Listed, Newest
<1>c. /\ at # "idle" => ctxNames = names
      /\ \A g \in Listed : gens[g].names = names
      /\ current # 0 => current \in Listed /\ gens[current].meta
      /\ store = "pointer" => gens[Newest].age = 0
      /\ store = "prune" \/ at = "stored" =>
            current = Newest /\ current # 0 /\ gens[current].age = 0
      /\ at = "attempt" /\ store = "no" /\ current # 0 =>
            Lifetime - gens[current].age <= RenewWithin
  BY <1>u DEF CalmIInv, Remaining
<1> USE DEF Remaining
<1>1. CASE PlanStage
  <2>1. /\ at' = "renewal" /\ ctxNames' = names /\ UNCHANGED <<gens, current, store, names>>
    BY <1>1 DEF PlanStage, fileVars
  <2>2. store = "no"
    BY <1>1, <1>t DEF PlanStage, AttemptIInv
  <2>3. QED
    BY <1>c, <1>s, <2>1, <2>2 DEF CalmIInv
<1>2. CASE RenewalAttempts
  <2>1. /\ at = "renewal" /\ Due /\ at' = "attempt"
        /\ UNCHANGED <<gens, current, store, names, ctxNames>>
    BY <1>2 DEF RenewalAttempts, RenewalFrame, fileVars
  <2>2. store = "no"
    BY <2>1, <1>t DEF AttemptIInv
  <2>3. current # 0 => MetaOf = current /\ HasMeta /\ gens[MetaOf].names = ctxNames
    BY <1>c, <2>1 DEF MetaOf, HasMeta, Listed
  <2>4. current # 0 => Lifetime - gens[current].age <= RenewWithin
    BY <2>1, <2>3 DEF Due
  <2>5. QED
    BY <1>c, <1>s, <2>1, <2>2, <2>4 DEF CalmIInv
<1>3. CASE StoreRename
  <2>1. /\ at = "attempt" /\ store' = "pointer"
        /\ UNCHANGED <<current, at, names, ctxNames>>
    BY <1>3 DEF StoreRename, StoreFrame
  <2>2. /\ NextGen \in Numbers /\ Listed' = Listed \cup {NextGen}
        /\ gens'[NextGen].names = ctxNames /\ gens'[NextGen].age = 0
        /\ \A g \in Listed : g # NextGen /\ gens'[g] = gens[g]
        /\ Newest' = NextGen
    BY <1>3, <1>t, RenameListed
  <2>3. QED
    BY <1>c, <2>1, <2>2 DEF CalmIInv
<1>4. CASE StorePointer
  <2>1. /\ store = "pointer" /\ store' = "prune" /\ current' = Newest
        /\ UNCHANGED <<gens, at, names, ctxNames>>
    BY <1>4 DEF StorePointer, StoreFrame
  <2>2. Newest \in Listed /\ gens[Newest].meta
    BY <2>1, NewestIsGreatest, CertsAssumption DEF StoredIInv
  <2>3. Newest # 0
    BY <2>2, ExcessIsListed, CertsAssumption DEF Numbers
  <2>4. QED
    BY <1>c, <1>s, <2>1, <2>2, <2>3 DEF CalmIInv
<1>5. CASE StorePrune
  <2>1. store = "prune" /\ UNCHANGED <<current, store, at, names, ctxNames>>
    BY <1>5 DEF StorePrune, StoreFrame
  <2>2. /\ Listed' \subseteq Listed
        /\ \A g \in Listed' : gens'[g] = gens[g]
        /\ Newest \in Listed' /\ Newest' = Newest
    BY <1>5, <1>t, PruneListed
  <2>3. QED
    BY <1>c, <2>1, <2>2 DEF CalmIInv
<1>6. CASE StoreEnds
  <2>1. /\ store = "prune" /\ store' = "no" /\ at' = "stored"
        /\ UNCHANGED <<gens, current, names, ctxNames>>
    BY <1>6 DEF StoreEnds, StoreFrame
  <2>2. at = "attempt"
    BY <1>t, <2>1 DEF AttemptIInv
  <2>3. QED
    BY <1>c, <1>s, <2>1, <2>2 DEF CalmIInv
<1>7. CASE RenewalSkips \/ AttemptOk \/ AttemptFails \/ WriteConfig
  <2>1. /\ at # "idle" /\ at' \in {"execute", "reload"}
        /\ UNCHANGED <<gens, current, store, names, ctxNames>>
    BY <1>7
    DEF RenewalSkips, RenewalFrame, AttemptOk, AttemptFails, AttemptFrame, WriteConfig,
        fileVars
  <2>2. store' = "no"
    BY <1>7, <1>t, <2>1
    DEF RenewalSkips, AttemptOk, AttemptFails, WriteConfig, AttemptIInv
  <2>3. QED
    BY <1>c, <1>s, <2>1, <2>2 DEF CalmIInv
<1>8. CASE ReloadProxy \/ RunFails \/ Crash
  <2>1. at' = "idle" /\ UNCHANGED <<gens, current, names>>
    BY <1>8 DEF ReloadProxy, RunFails, Crash, NoContext, fileVars
  <2>2. store' = "no"
    BY <1>8, <1>t DEF ReloadProxy, RunFails, Crash, AttemptIInv, fileVars
  <2>3. QED
    BY <1>c, <1>s, <2>1, <2>2 DEF CalmIInv
<1>9. CASE CrashInPrune
  <2>1. /\ store = "prune" /\ store' = "no" /\ at' = "idle"
        /\ UNCHANGED <<current, names>>
    BY <1>9 DEF CrashInPrune, NoContext
  <2>2. /\ Listed' = Listed /\ gens'[Newest] = gens[Newest]
        /\ \A g \in Listed : gens'[g].names = gens[g].names
    BY <1>9, <1>t, TornListed
  <2>3. QED
    BY <1>c, <2>1, <2>2 DEF CalmIInv
<1>10. CASE Tick
  <2>1. at = "idle" /\ UNCHANGED <<at, store, current, names>>
    BY <1>10 DEF Tick, runVars
  <2>2. store = "no"
    BY <1>t, <2>1 DEF AttemptIInv
  <2>3. /\ Listed' = Listed
        /\ \A g \in Listed : gens'[g].names = gens[g].names /\ gens'[g].meta = gens[g].meta
    BY <1>10, <1>t, TickListed, TickAges
  <2>4. QED
    BY <1>c, <2>1, <2>2, <2>3 DEF CalmIInv
<1>11. CASE UNCHANGED vars
  BY <1>11, <1>c, <1>s DEF vars, CalmIInv
<1>12. QED
  BY <1>u, <1>1, <1>2, <1>3, <1>4, <1>5, <1>6, <1>7, <1>8, <1>9, <1>10, <1>11
  DEF Next, Run

(* What the schedule waits for, and the ages, are numbers.                 *)
LEMMA TimeRanges ==
    ASSUME Types, CalmIInv, Calm
    PROVE  /\ current # 0 => gens[current].age \in 0..Lifetime
           /\ since \in 0..Longest /\ Wait \in 0..Longest
           /\ failures \in 0..Len(Backoff)
           /\ budget.faults \in 0..MaxFaults
<1>1. current # 0 => gens[current] \in Generations
  BY DEF CalmIInv, Types, VolumeInv, VolumeTypes, StoreTypeOK, Listed
<1>2. since \in 0..Longest /\ failures \in 0..Len(Backoff)
  BY DEF Types, Schedule
<1>3. Wait \in 0..Longest
  BY <1>2, CertsAssumption DEF Wait
<1>4. QED
  BY <1>1, <1>2, <1>3 DEF Generations, Types, BudgetRanges

(* The lengths of the schedule are numbers too.                            *)
LEMMA TimeConstants ==
    /\ Lifetime \in Nat /\ RenewWithin \in Nat /\ EscalateWithin \in Nat
    /\ Longest \in Nat /\ MaxFaults \in Nat /\ MaxStores \in Nat
    /\ EscalateWithin <= RenewWithin /\ RenewWithin <= Lifetime
BY CertsAssumption

(* Renewal stays on time when the clock stands and no run is over.         *)
LEMMA OnTimeStill ==
    ASSUME NEW late, OnTime(late), Calm, UNCHANGED <<current, since, failures>>,
           budget'.faults = budget.faults,
           current # 0 => gens'[current].age = gens[current].age,
           NextGen' <= MaxStores => NextGen <= MaxStores,
           ran' \/ at' \in {"execute", "reload"} => ran \/ at \in {"execute", "reload"}
    PROVE  OnTime(late)'
BY DEF OnTime, Wait, Remaining

(* Nor does a store that has replaced the certificate put it off.          *)
LEMMA OnTimeFresh ==
    ASSUME NEW late, Absorbs(late), current' # 0, gens'[current'].age = 0, since' \in Nat
    PROVE  OnTime(late)'
BY TimeConstants DEF OnTime, Absorbs, Remaining

(* One failure more puts renewal off by a tick at least, and by any        *)
(* backoff it can bring about.                                             *)
LEMMA LateNext ==
    ASSUME NEW late \in Lateness, Absorbs(late), NEW k \in 0..MaxFaults, k + 1 <= MaxFaults
    PROVE  /\ late[k] \in Nat /\ late[k + 1] \in Nat /\ late[k + 1] > late[k]
           /\ \A j \in 1..Len(Backoff) : j <= k + 1 => late[k + 1] >= late[k] + Backoff[j]
<1>1. MaxFaults \in Nat /\ RenewWithin - EscalateWithin \in Nat
  BY TimeConstants
<1>2. \A m \in 0..MaxFaults : late[m] \in Nat
  BY <1>1 DEF Lateness
<1>3. PICK m \in 1..MaxFaults : m = k + 1 /\ m - 1 = k
  BY <1>1
<1>4. /\ late[m] > late[m - 1]
      /\ \A j \in 1..Len(Backoff) : j <= m => late[m] >= late[m - 1] + Backoff[j]
  BY DEF Absorbs
<1>5. k \in 0..MaxFaults /\ k + 1 \in 0..MaxFaults
  BY <1>1
<1>6. QED
  BY <1>2, <1>3, <1>4, <1>5

(* The sums behind a failure and behind a wait.                            *)
LEMMA LateSums ==
    ASSUME NEW r \in Int, NEW w \in Nat, NEW x \in Nat, NEW y \in Nat,
           NEW s \in Nat, NEW n \in Nat
    PROVE  /\ y > x /\ r >= w - x => r > w - y
           /\ y > x /\ r + s >= w - x + n => r + s >= w - y + n
           /\ y >= x + n /\ r >= w - x => r >= w - y + n
OBVIOUS

(* A failing run costs a tick.                                             *)
LEMMA OnTimeFault ==
    ASSUME Types, CalmIInv, Calm, NEW late \in Lateness, Absorbs(late), OnTime(late),
           UNCHANGED <<gens, current, since, failures>>, Spend("faults")
    PROVE  OnTime(late)'
<1> SUFFICES ASSUME current # 0 PROVE OnTime(late)'
  BY DEF OnTime
<1> DEFINE k == MaxFaults - budget.faults
           R == Lifetime - gens[current].age
<1>1. /\ budget.faults \in 1..MaxFaults
      /\ budget'.faults = budget.faults - 1
  BY TimeRanges DEF Spend, Types, BudgetRanges
<1>2. /\ gens[current].age \in 0..Lifetime
      /\ since \in 0..Longest /\ Wait \in 0..Longest
  BY TimeRanges
<1>3. k \in 0..MaxFaults /\ k + 1 \in 1..MaxFaults /\ MaxFaults - budget'.faults = k + 1
  BY <1>1, TimeConstants
<1>4. late[k] \in Nat /\ late[k + 1] \in Nat /\ late[k + 1] > late[k]
  <2> HIDE DEF k
  <2>1. k + 1 <= MaxFaults
    BY <1>3, TimeConstants
  <2>2. QED
    BY <1>3, <2>1, LateNext
<1>5. /\ R > RenewWithin => since >= gens[current].age \/ since = Longest
      /\ R <= RenewWithin => /\ R >= RenewWithin - late[k]
                             /\ R + since >= RenewWithin - late[k] + Wait
  BY DEF OnTime, Remaining
<1>6. R <= RenewWithin => /\ R > RenewWithin - late[k + 1]
                          /\ R + since >= RenewWithin - late[k + 1] + Wait
  <2>1. R \in Int /\ RenewWithin \in Nat /\ since \in Nat /\ Wait \in Nat
    BY <1>2, TimeConstants
  <2> HIDE DEF k, R
  <2>2. QED
    BY <1>4, <1>5, <2>1, LateSums
<1>7. Wait' = Wait
  BY DEF Wait
<1>8. RenewWithin - late[k + 1] \in Int /\ R \in Int
  <2> HIDE DEF k
  <2>1. QED
    BY <1>2, <1>4, TimeConstants
<1> DEFINE least == RenewWithin - late[k + 1]
<1>9. /\ R > RenewWithin => since >= gens[current].age \/ since = Longest
      /\ R <= RenewWithin => R >= least /\ R > least /\ R + since >= least + Wait
  <2> HIDE DEF k, R
  <2>1. QED
    BY <1>5, <1>6, <1>8
<1>10. least = RenewWithin - late[MaxFaults - budget'.faults]
  <2> HIDE DEF k
  <2>1. QED
    BY <1>3
<1> HIDE DEF k, least
<1>11. QED
  BY <1>7, <1>9, <1>10 DEF OnTime, Remaining

(* A failing attempt costs a tick and the backoff that follows it.         *)
LEMMA OnTimeAttemptFails ==
    ASSUME Types, CalmIInv, Calm, failures + budget.faults <= MaxFaults,
           NEW late \in Lateness, Absorbs(late), OnTime(late), AttemptFails
    PROVE  OnTime(late)'
<1>0. /\ at \in {"attempt", "stored"} /\ store = "no" /\ since' = 0
      /\ Spend("faults") /\ UNCHANGED <<gens, current>>
      /\ failures' = IF failures < Len(Backoff) THEN failures + 1 ELSE failures
  BY DEF AttemptFails, AttemptFrame, fileVars
<1> SUFFICES ASSUME current # 0 PROVE OnTime(late)'
  BY <1>0 DEF OnTime
<1>1. CASE at = "stored"
  <2>1. gens'[current'].age = 0 /\ current' # 0 /\ since' \in Nat
    BY <1>0, <1>1 DEF CalmIInv
  <2>2. QED
    BY <2>1, OnTimeFresh
<1>2. CASE at = "attempt"
  <2> DEFINE k == MaxFaults - budget.faults
             R == Lifetime - gens[current].age
  <2>1. /\ budget.faults \in 1..MaxFaults
        /\ budget'.faults = budget.faults - 1
    BY <1>0, TimeRanges DEF Spend, Types, BudgetRanges
  <2>2. /\ gens[current].age \in 0..Lifetime
        /\ failures \in 0..Len(Backoff)
        /\ since \in 0..Longest /\ Wait \in 0..Longest
    BY TimeRanges
  <2>3. k \in 0..MaxFaults /\ k + 1 \in 1..MaxFaults /\ MaxFaults - budget'.faults = k + 1
    BY <2>1, TimeConstants
  <2>4. failures' \in 1..Len(Backoff) /\ failures' <= k + 1
    BY <1>0, <2>1, <2>2, CertsAssumption
  <2>5. /\ late[k] \in Nat /\ late[k + 1] \in Nat /\ late[k + 1] > late[k]
        /\ late[k + 1] >= late[k] + Backoff[failures']
    <3> HIDE DEF k
    <3>1. k + 1 <= MaxFaults
      BY <2>3, TimeConstants
    <3>2. QED
      BY <2>3, <2>4, <3>1, LateNext
  <2>6. Wait' = Backoff[failures'] /\ Backoff[failures'] \in 0..Longest
    BY <2>4, CertsAssumption DEF Wait
  <2>7. R <= RenewWithin /\ R >= RenewWithin - late[k]
    BY <1>0, <1>2 DEF OnTime, CalmIInv, Remaining
  <2> DEFINE least == RenewWithin - late[k + 1]
  <2>8. R > least /\ R >= least + Wait'
    <3>1. R \in Int /\ RenewWithin \in Nat /\ Backoff[failures'] \in Nat
      BY <2>2, <2>6, TimeConstants
    <3> HIDE DEF k, R
    <3>2. QED
      BY <2>5, <2>6, <2>7, <3>1, LateSums
  <2>9. least = RenewWithin - late[MaxFaults - budget'.faults]
    <3> HIDE DEF k
    <3>1. QED
      BY <2>3
  <2>10. R \in Int /\ least \in Int
    <3>1. R \in Int /\ RenewWithin \in Nat
      BY <2>2, TimeConstants
    <3> HIDE DEF k, R
    <3>2. QED
      BY <2>5, <3>1
  <2>11. R <= RenewWithin /\ R >= least /\ R > least /\ R + 0 >= least + Wait'
    <3> HIDE DEF k, R, least
    <3>1. QED
      BY <2>7, <2>8, <2>10
  <2>12. ~(R > RenewWithin)
    <3> HIDE DEF R
    <3>1. QED
      BY <2>7, <2>10, TimeConstants
  <2> HIDE DEF k, least
  <2>13. QED
    BY <1>0, <2>9, <2>11, <2>12 DEF OnTime, Remaining
<1>3. QED
  BY <1>0, <1>1, <1>2

(* Where RENEWAL finds nothing due for a certificate whose window is open, *)
(* there is a tick left to wait.                                           *)
LEMMA OnTimeSkipped ==
    ASSUME Types, CalmIInv, Calm, NEW late \in Lateness, Absorbs(late), OnTime(late),
           RenewalSkips, UNCHANGED budget
    PROVE  OnTime(late)'
<1>0. /\ at = "renewal" /\ at' = "execute"
      /\ ctxNames = None \/ ~Due \/ NextGen > MaxStores \/ Spend("faults")
      /\ UNCHANGED <<gens, current, since, failures, ran>>
  BY DEF RenewalSkips, RenewalFrame, fileVars, stateVars
<1>1. ~Spend("faults")
  <2> SUFFICES ASSUME Spend("faults") PROVE FALSE
    OBVIOUS
  <2>1. budget'.faults = budget.faults - 1 /\ budget.faults \in Nat
    BY DEF Spend, Types, BudgetRanges
  <2>2. QED
    BY <2>1
<1> SUFFICES ASSUME current # 0 PROVE OnTime(late)'
  BY <1>0 DEF OnTime
<1>2. /\ current \in Listed /\ gens[current].meta
      /\ gens[current].names = ctxNames
  BY <1>0 DEF CalmIInv
<1>3. ctxNames # None
  <2>1. gens[current] \in Generations
    BY <1>2 DEF Types, VolumeInv, VolumeTypes, StoreTypeOK, Listed
  <2>2. QED
    BY <1>2, <2>1, CertsAssumption DEF Generations
<1>4. MetaOf = current /\ HasMeta
  BY <1>2 DEF MetaOf, HasMeta, Listed
<1> DEFINE R == Lifetime - gens[current].age
<1>5. NextGen <= MaxStores /\ R <= RenewWithin => since < Wait
  <2>1. Newest \in 0..MaxStores
    BY NewestIsGreatest, TimeConstants
  <2>2. NextGen <= MaxStores => ~Due
    BY <1>0, <1>1, <1>3, <2>1, TimeConstants DEF NextGen
  <2>3. R <= RenewWithin /\ ~Due => ~(since >= Wait)
    BY <1>2, <1>4 DEF Due, DueByBackoffOrPace, Remaining, Wait
  <2>4. QED
    BY <2>2, <2>3, TimeRanges, TimeConstants
<1> DEFINE least == RenewWithin - late[MaxFaults - budget.faults]
<1>6. /\ R > RenewWithin => since >= gens[current].age \/ since = Longest
      /\ R <= RenewWithin => R >= least /\ R + since >= least + Wait
  BY DEF OnTime, Remaining
<1>7. least \in Int
  <2>1. MaxFaults - budget.faults \in 0..MaxFaults
    BY TimeRanges, TimeConstants
  <2>2. QED
    BY <2>1, TimeConstants DEF Lateness
<1> HIDE DEF least
<1>8. NextGen <= MaxStores /\ R <= RenewWithin => R > least
  <2>1. since \in Nat /\ Wait \in Nat /\ R \in Int
    BY TimeRanges, TimeConstants
  <2> HIDE DEF R
  <2>2. QED
    BY <1>5, <1>6, <1>7, <2>1
<1>9. Wait' = Wait /\ NextGen' = NextGen
  BY <1>0 DEF Wait, NextGen, Newest, Listed
<1>10. QED
  BY <1>0, <1>6, <1>8, <1>9 DEF OnTime, Remaining, least

(* A tick that finds the window open was allowed for; one that opens it    *)
(* finds every wait over.                                                  *)
LEMMA OnTimeTick ==
    ASSUME Types, CalmIInv, Calm, NEW late \in Lateness, Absorbs(late), OnTime(late), Tick
    PROVE  OnTime(late)'
<1>0. /\ ran /\ NextGen <= MaxStores /\ at = "idle"
      /\ UNCHANGED <<current, failures, budget, at>> /\ ran' = FALSE
      /\ since' = IF since < Longest THEN since + 1 ELSE since
  BY DEF Tick, runVars
<1> SUFFICES ASSUME current # 0 PROVE OnTime(late)'
  BY <1>0 DEF OnTime
<1> DEFINE a == gens[current].age
           least == RenewWithin - late[MaxFaults - budget.faults]
<1>1. gens'[current].age = IF a < Lifetime THEN a + 1 ELSE a
  <2>1. current \in Numbers /\ gens[current] \in Generations /\ gens[current] # None
    BY DEF CalmIInv, Types, VolumeInv, VolumeTypes, StoreTypeOK, Listed
  <2>2. gens'[current] = IF gens[current] # None /\ a < Lifetime
                         THEN [gens[current] EXCEPT !.age = @ + 1] ELSE gens[current]
    BY <2>1 DEF Tick
  <2>3. QED
    BY <2>1, <2>2 DEF Generations
<1>2. a \in 0..Lifetime /\ since \in 0..Longest /\ Wait \in 0..Longest
  BY TimeRanges
<1>3. /\ Lifetime - a > RenewWithin => since >= a \/ since = Longest
      /\ Lifetime - a <= RenewWithin => /\ Lifetime - a > least
                                        /\ Lifetime - a + since >= least + Wait
  BY <1>0 DEF OnTime, Remaining
<1>4. least \in 0..RenewWithin
  <2>1. MaxFaults - budget.faults \in 0..MaxFaults
    BY TimeRanges, TimeConstants
  <2>2. late[MaxFaults - budget.faults] \in 0..(RenewWithin - EscalateWithin)
    BY <2>1 DEF Lateness
  <2>3. QED
    BY <2>2, TimeConstants
<1>5. Wait' = Wait /\ least' = least
  BY <1>0 DEF Wait
<1>6. Lifetime \in Nat /\ RenewWithin \in Nat /\ Longest \in Nat
      /\ Lifetime > RenewWithin /\ Lifetime >= RenewWithin + Longest
  BY TimeConstants DEF Absorbs
<1> DEFINE b == gens'[current].age
<1> HIDE DEF a, b, least
<1>7. b = IF a < Lifetime THEN a + 1 ELSE a
  BY <1>1 DEF a, b
<1>8. /\ Lifetime - b > RenewWithin => since' >= b \/ since' = Longest
      /\ Lifetime - b <= RenewWithin => /\ Lifetime - b >= least
                                        /\ Lifetime - b + since' >= least + Wait
  BY <1>0, <1>2, <1>3, <1>4, <1>6, <1>7
<1>9. QED
  BY <1>0, <1>5, <1>8 DEF OnTime, Remaining, b, least

(* Every step keeps renewal on time.                                       *)
LEMMA OnTimeStep ==
    ASSUME Types, CalmIInv, failures + budget.faults <= MaxFaults,
           NEW late \in Lateness, Absorbs(late), OnTime(late), [Next]_vars
    PROVE  OnTime(late)'
<1> SUFFICES ASSUME Calm' PROVE OnTime(late)'
  BY DEF OnTime
<1>u. /\ Calm /\ ~RollbackCert
      /\ \A n \in NameSets \cup {None} : ~ChangeNames(n)
  BY CalmBefore DEF Types
<1>t. StoreTypeOK /\ AttemptIInv /\ VolumeInv /\ BudgetRanges
  BY DEF Types, VolumeInv, VolumeTypes
<1>s. gens' = gens => NextGen' = NextGen
  BY DEF Listed, Newest, NextGen
<1>1. CASE PlanStage \/ RenewalAttempts \/ WriteConfig \/ StoreEnds
  <2>1. /\ UNCHANGED <<gens, current, since, failures, budget, ran>>
        /\ at' \in {"execute", "reload"} => at \in {"execute", "reload"}
    BY <1>1
    DEF PlanStage, RenewalAttempts, RenewalFrame, WriteConfig, StoreEnds, StoreFrame,
        fileVars, stateVars
  <2>2. QED
    BY <1>u, <1>s, <2>1, OnTimeStill
<1>2. CASE RenewalSkips
  <2>1. UNCHANGED <<gens, current, since, failures>>
    BY <1>2 DEF RenewalSkips, RenewalFrame, fileVars, stateVars
  <2>2. CASE UNCHANGED budget
    BY <1>2, <1>u, <2>2, OnTimeSkipped
  <2>3. CASE Spend("faults")
    BY <1>u, <2>1, <2>3, OnTimeFault
  <2>4. QED
    BY <1>2, <2>2, <2>3 DEF RenewalSkips
<1>3. CASE StoreRename
  <2>1. UNCHANGED <<current, since, failures, budget, ran, at>>
    BY <1>3 DEF StoreRename, StoreFrame, stateVars
  <2>2. /\ NextGen \in Numbers
        /\ \A g \in Listed : gens'[g] = gens[g]
    BY <1>3, <1>t, RenameListed
  <2>3. NextGen <= MaxStores
    BY <2>2, CertsAssumption DEF Numbers
  <2>4. current # 0 => current \in Listed
    BY <1>u DEF CalmIInv
  <2>5. QED
    BY <1>u, <2>1, <2>2, <2>3, <2>4, OnTimeStill
<1>4. CASE StorePointer
  <2>1. /\ store = "pointer" /\ current' = Newest /\ UNCHANGED <<gens, since>>
    BY <1>4 DEF StorePointer, StoreFrame, stateVars
  <2>2. gens[Newest].age = 0
    BY <1>u, <2>1 DEF CalmIInv
  <2>3. Newest # 0
    BY <1>t, <2>1, NewestIsGreatest, ExcessIsListed, CertsAssumption
    DEF AttemptIInv, Numbers
  <2>4. since' \in Nat
    BY <1>u, <2>1, TimeRanges, CertsAssumption
  <2>5. QED
    BY <2>1, <2>2, <2>3, <2>4, OnTimeFresh
<1>5. CASE StorePrune
  <2>1. store = "prune" /\ UNCHANGED <<current, since>>
    BY <1>5 DEF StorePrune, StoreFrame, stateVars
  <2>2. current = Newest /\ current # 0 /\ gens[current].age = 0
    BY <1>u, <2>1 DEF CalmIInv
  <2>3. gens'[Newest] = gens[Newest]
    BY <1>5, <1>t, PruneListed
  <2>4. since' \in Nat
    BY <1>u, <2>1, TimeRanges, CertsAssumption
  <2>5. QED
    BY <2>1, <2>2, <2>3, <2>4, OnTimeFresh
<1>6. CASE AttemptOk
  <2>1. at = "stored" /\ since' = 0 /\ UNCHANGED <<gens, current>>
    BY <1>6 DEF AttemptOk, AttemptFrame, fileVars
  <2>2. current # 0 /\ gens[current].age = 0
    BY <1>u, <2>1 DEF CalmIInv
  <2>3. QED
    BY <2>1, <2>2, OnTimeFresh
<1>7. CASE AttemptFails
  BY <1>7, <1>u, OnTimeAttemptFails
<1>8. CASE ReloadProxy
  <2>1. /\ at = "reload"
        /\ UNCHANGED <<gens, current, since, failures, budget>>
    BY <1>8 DEF ReloadProxy, fileVars, stateVars
  <2>2. QED
    BY <1>u, <1>s, <2>1, OnTimeStill
<1>9. CASE RunFails
  <2>1. UNCHANGED <<gens, current, since, failures>> /\ Spend("faults")
    BY <1>9 DEF RunFails, fileVars, stateVars
  <2>2. QED
    BY <1>u, <2>1, OnTimeFault
<1>10. CASE Crash
  <2>1. /\ UNCHANGED <<gens, current, since, failures, ran>> /\ at' = "idle"
        /\ Spend("crashes")
    BY <1>10 DEF Crash, NoContext, stateVars
  <2>2. budget'.faults = budget.faults
    BY <1>t, <2>1 DEF Spend, BudgetRanges
  <2>3. QED
    BY <1>u, <1>s, <2>1, <2>2, OnTimeStill
<1>11. CASE CrashInPrune
  <2>1. /\ UNCHANGED <<current, since, failures, ran>> /\ at' = "idle"
        /\ Spend("torn") /\ store = "prune"
    BY <1>11 DEF CrashInPrune, NoContext, stateVars
  <2>2. budget'.faults = budget.faults
    BY <1>t, <2>1 DEF Spend, BudgetRanges
  <2>3. Newest' = Newest /\ gens'[Newest] = gens[Newest]
    BY <1>11, <1>t, TornListed
  <2>4. current = Newest
    BY <1>u, <2>1 DEF CalmIInv
  <2>5. QED
    BY <1>u, <2>1, <2>2, <2>3, <2>4, OnTimeStill DEF NextGen
<1>12. CASE Tick
  BY <1>12, <1>u, OnTimeTick
<1>13. CASE UNCHANGED vars
  BY <1>13, <1>u, <1>s, OnTimeStill DEF vars
<1>14. QED
  BY <1>u, <1>1, <1>2, <1>3, <1>4, <1>5, <1>6, <1>7, <1>8, <1>9, <1>10, <1>11, <1>12, <1>13
  DEF Next, Run

(* A failure is counted as often as it is spent.                           *)
LEMMA FailuresStep ==
    ASSUME Types, failures + budget.faults <= MaxFaults, [Next]_vars
    PROVE  (failures + budget.faults <= MaxFaults)'
<1>t. /\ failures \in Nat /\ budget.faults \in Nat /\ Len(Backoff) \in Nat
      /\ MaxFaults \in Nat
  BY CertsAssumption DEF Types, Schedule, BudgetRanges
<1>1. budget' = budget \/ \E k \in DOMAIN budget : Spend(k)
  BY DEF Next, Run, PlanStage, RenewalSkips, RenewalAttempts, RenewalFrame, StoreRename,
         StorePointer, StorePrune, StoreEnds, StoreFrame, AttemptOk, AttemptFrame,
         WriteConfig, ReloadProxy, AttemptFails, RunFails, RollbackCert, ChangeNames,
         Crash, CrashInPrune, Tick, vars, Types, BudgetRanges
<1>2. budget'.faults \in Nat /\ budget'.faults <= budget.faults
  <2>1. CASE budget' = budget
    BY <1>t, <2>1
  <2>2. ASSUME NEW k \in DOMAIN budget, Spend(k)
        PROVE  budget'.faults \in Nat /\ budget'.faults <= budget.faults
    BY <1>t, <2>2 DEF Spend, Types, BudgetRanges
  <2>3. QED
    BY <1>1, <2>1, <2>2
<1>3. CASE AttemptFails
  <2>1. /\ budget.faults > 0 /\ budget'.faults = budget.faults - 1
        /\ failures' = IF failures < Len(Backoff) THEN failures + 1 ELSE failures
    BY <1>3 DEF AttemptFails, Spend, Types, BudgetRanges
  <2>2. QED
    BY <1>t, <2>1
<1>4. CASE ~AttemptFails
  <2>1. failures' \in {0, failures}
    BY <1>4
    DEF Next, Run, PlanStage, RenewalSkips, RenewalAttempts, RenewalFrame, StoreRename,
        StorePointer, StorePrune, StoreEnds, StoreFrame, AttemptOk, WriteConfig,
        ReloadProxy, RunFails, RollbackCert, ChangeNames, Crash, CrashInPrune, Tick,
        vars, stateVars
  <2>2. QED
    BY <1>t, <1>2, <2>1
<1>5. QED
  BY <1>3, <1>4

(* Every step keeps LateIInv.                                              *)
LEMMA LateStep ==
    ASSUME Types, CalmIInv, LateIInv, [Next]_vars
    PROVE  LateIInv'
<1>1. (failures + budget.faults <= MaxFaults)'
  BY FailuresStep DEF LateIInv
<1>2. ASSUME NEW late \in Lateness, Absorbs(late)
      PROVE  OnTime(late)'
  BY <1>2, OnTimeStep DEF LateIInv
<1>3. QED
  BY <1>1, <1>2 DEF LateIInv, Lateness, Absorbs

(* The invariant of the runs is inductive, once two are retained.          *)
LEMMA CertsInductive ==
    ASSUME Retained >= 2, Types, IInv, [Next]_vars
    PROVE  Types' /\ IInv'
<1>1. Types'
  BY TypesStep
<1>2. VolumeInv
  BY DEF Types
<1>3. AttemptIInv'
  BY <1>1 DEF Types, VolumeInv
<1>4. PointerIInv' /\ NewestIInv' /\ PlannedIInv'
  BY <1>2, PointerStep, NewestStep, PlannedStep DEF IInv
<1>5. CoveredIInv' /\ StoredIInv' /\ QuietIInv'
  BY CoveredStep, StoredStep, QuietStep DEF IInv
<1>6. CalmIInv' /\ LateIInv'
  BY CalmStep, LateStep DEF IInv
<1>7. QED
  BY <1>1, <1>3, <1>4, <1>5, <1>6 DEF IInv

(* It holds initially.                                                     *)
LEMMA CertsInit == Init => Types /\ IInv
<1> SUFFICES ASSUME Init PROVE IInv
  BY TypesInit
<1>1. AttemptIInv
  BY VolumeInit DEF VolumeInv
<1>2. Listed = {}
  BY DEF Init, Listed
<1>3. PointerIInv /\ NewestIInv /\ PlannedIInv
  BY <1>2, CertsAssumption DEF Init, PointerIInv, ListedWhole, NewestIInv, PlannedIInv, Numbers
<1>4. CoveredIInv /\ StoredIInv /\ QuietIInv
  BY <1>2 DEF Init, CoveredIInv, StoredIInv, QuietIInv
<1>5. CalmIInv /\ LateIInv
  BY <1>2, CertsAssumption DEF Init, CalmIInv, LateIInv, OnTime
<1>6. QED
  BY <1>1, <1>3, <1>4, <1>5 DEF IInv

(* Types, the parts of the inductive invariant, and that a run which needs *)
(* a certificate and has none flags the framework as degraded, for every   *)
(* schedule and every interleaving of rollbacks, failures and ticks.       *)
THEOREM CertsInvariant ==
    ASSUME Retained >= 2
    PROVE  SafetySpec => []Inv
<1>1. IInv => UncoveredIsDegraded
  BY DEF IInv, CoveredIInv, UncoveredIsDegraded
<1>2. Types /\ IInv => Inv
  BY <1>1, TypesTypeOK DEF Inv
<1>3. Types /\ IInv /\ [Next]_vars => (Types /\ IInv)'
  BY CertsInductive
<1>4. QED
  BY <1>2, <1>3, CertsInit, PTL DEF SafetySpec

(* The authority is not asked twice: after a success nothing is issued     *)
(* before the renewal window opens, unless an operator, a change of names  *)
(* or a crash intervened.                                                  *)
THEOREM IssuesOnlyWhenDue == SafetySpec => NoReissue
<1> DEFINE J == Types /\ StoredIInv /\ QuietIInv
<1>1. Init => J
  BY CertsInit DEF IInv
<1>2. J /\ [Next]_vars => J'
  BY TypesStep, StoredStep, QuietStep
<1>3. J /\ [Next]_vars => [IssueIsDue]_vars
  BY DEF QuietIInv, IssueIsDue
<1>4. QED
  BY <1>1, <1>2, <1>3, PTL DEF SafetySpec, NoReissue

(* Renewal is in time for every schedule whose backoff is absorbed: if any *)
(* k failures put it off by at most late[k] ticks, and these lie between   *)
(* the renewal window and the escalation threshold, then no sequence of    *)
(* failing attempts, failing runs and crashes brings a certificate under   *)
(* the threshold, as long as nobody rolls back or changes the names.       *)
THEOREM RenewedInTime ==
    ASSUME NEW late \in Lateness, Absorbs(late)
    PROVE  SafetySpec => []InTime
<1> DEFINE J == Types /\ StoredIInv /\ CalmIInv /\ LateIInv
<1>1. Init => J
  BY CertsInit DEF IInv
<1>2. J /\ [Next]_vars => J'
  BY TypesStep, StoredStep, CalmStep, LateStep
<1>3. J => InTime
  <2> SUFFICES ASSUME J, Calm, current # 0 PROVE Remaining(current) >= EscalateWithin
    BY DEF InTime, Calm
  <2> DEFINE k == MaxFaults - budget.faults
             R == Lifetime - gens[current].age
  <2>1. k \in 0..MaxFaults /\ R \in Int
    <3>1. gens[current].age \in 0..Lifetime /\ budget.faults \in 0..MaxFaults
      BY TimeRanges
    <3>2. QED
      BY <3>1, TimeConstants
  <2>2. late[k] \in 0..(RenewWithin - EscalateWithin)
    <3> HIDE DEF k
    <3>1. QED
      BY <2>1 DEF Lateness
  <2>3. R <= RenewWithin => R >= RenewWithin - late[k]
    <3>1. OnTime(late)
      BY DEF LateIInv
    <3>2. QED
      BY <3>1 DEF OnTime, Remaining
  <2>4. R >= EscalateWithin
    <3> HIDE DEF k, R
    <3>1. QED
      BY <2>1, <2>2, <2>3, TimeConstants
  <2>5. QED
    BY <2>4 DEF Remaining
<1>4. QED
  BY <1>1, <1>2, <1>3, PTL DEF SafetySpec
=============================================================================
