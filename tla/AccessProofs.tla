---------------------------- MODULE AccessProofs ----------------------------
(***************************************************************************)
(* Who gets in: the proofs about plugins (Trust) and about the operator    *)
(* (FirstRun).  The two specifications share no variable; what they have   *)
(* in common are the facts about finite sets their proofs rest on.         *)
(*                                                                         *)
(* Trust: every request preserves the inductive invariant, whose parts say *)
(* what each place a bundle can be in owes to the others; then the grants  *)
(* and the validation follow from it.                                      *)
(* FirstRun: three inductive invariants that do not depend on each other,  *)
(* for the wizards, for the requests and for the limiter.                  *)
(***************************************************************************)
EXTENDS Trust, FirstRun, FiniteSetTheorems, SequenceTheorems, WellFoundedInduction, TLAPS

-----------------------------------------------------------------------------
(* The plugin trust flow.                                                  *)

(* Some bundle of every non-empty set has the latest version.              *)
LEMMA NewestExists ==
    ASSUME NEW S, S \subseteq Bundles, S # {}
    PROVE  \E b \in S : \A c \in S : VersionOf[c] <= VersionOf[b]
<1> DEFINE HasNewest(U) == \E b \in U : \A c \in U : VersionOf[c] <= VersionOf[b]
           Bad == {U \in SUBSET Bundles : U # {} /\ ~HasNewest(U)}
           Sizes == {Cardinality(U) : U \in Bad}
           R == OpToRel(<, Nat)
<1> SUFFICES ASSUME Bad # {} PROVE FALSE
  OBVIOUS
<1>1. \A U \in SUBSET Bundles : IsFiniteSet(U) /\ Cardinality(U) \in Nat
  BY TrustAssumption, FS_Subset, FS_CardinalityType
<1>2. Sizes \subseteq Nat /\ Sizes # {}
  BY <1>1
<1>3. PICK n \in Sizes : \A m \in Sizes : ~(m < n)
  <2>1. IsWellFoundedOn(R, Nat)
    BY NatLessThanWellFounded, Zenon
  <2> HIDE DEF R, Sizes
  <2>2. PICK n \in Sizes : \A m \in Sizes : ~(<<m, n>> \in R)
    BY <1>2, <2>1, WFMin
  <2>3. QED
    BY <1>2, <2>2 DEF R, OpToRel
<1>4. PICK U \in Bad : n = Cardinality(U)
  OBVIOUS
<1>5. PICK x : x \in U
  OBVIOUS
<1>6. Cardinality(U \ {x}) = n - 1 /\ n \in Nat /\ Cardinality(U \ {x}) \in Nat
  <2>1. U \in SUBSET Bundles /\ U \ {x} \in SUBSET Bundles
    OBVIOUS
  <2>2. IsFiniteSet(U) /\ Cardinality(U) \in Nat /\ Cardinality(U \ {x}) \in Nat
    BY <1>1, <2>1
  <2>3. Cardinality(U \ {x}) = Cardinality(U) - 1
    BY <1>5, <2>2, FS_RemoveElement
  <2>4. QED
    BY <1>4, <2>2, <2>3
<1>7. U \ {x} \notin Bad
  <2>1. ASSUME U \ {x} \in Bad PROVE FALSE
    <3>1. Cardinality(U \ {x}) \in Sizes
      BY <2>1
    <3>2. QED
      <4> HIDE DEF Sizes, Bad
      <4> QED
        BY <1>3, <1>6, <3>1
  <2>2. QED
    BY <2>1
<1>8. CASE U = {x}
  BY <1>4, <1>5, <1>8, TrustAssumption
<1>9. CASE U # {x}
  <2>1. PICK y \in U \ {x} : \A c \in U \ {x} : VersionOf[c] <= VersionOf[y]
    BY <1>4, <1>5, <1>7, <1>9
  <2>2. \A c \in U : VersionOf[c] \in Nat
    BY TrustAssumption
  <2>3. CASE VersionOf[x] <= VersionOf[y]
    BY <1>4, <2>1, <2>2, <2>3
  <2>4. CASE ~(VersionOf[x] <= VersionOf[y])
    <3>1. \A c \in U : VersionOf[c] <= VersionOf[x]
      BY <1>5, <2>1, <2>2, <2>4
    <3>2. QED
      BY <1>4, <1>5, <3>1
  <2>5. QED
    BY <2>3, <2>4
<1>10. QED
  BY <1>8, <1>9

(* The composed schema names a bundle, or none, for every plugin.          *)
LEMMA ComposedType ==
    ASSUME NEW R \in SUBSET Bundles
    PROVE  Composed(R) \in Schemas
<1>1. ASSUME NEW id \in Ids PROVE Composed(R)[id] \in Bundles \cup {NoBundle}
  <2> DEFINE of == {b \in R : IdOf[b] = id}
             pick == CHOOSE b \in of : \A c \in of : VersionOf[c] <= VersionOf[b]
  <2>1. Composed(R)[id] = IF of = {} THEN NoBundle ELSE pick
    BY DEF Composed
  <2>2. of # {} => \E b \in of : \A c \in of : VersionOf[c] <= VersionOf[b]
    BY NewestExists
  <2>3. of # {} => pick \in of
    BY <2>2
  <2>4. QED
    BY <2>1, <2>3
<1>2. QED
  BY <1>1 DEF Composed, Schemas

-----------------------------------------------------------------------------
(* Grants.                                                                 *)

(* The writes of recordTrustAndGrants, whole or cut short at caps.         *)
LEMMA GrantsAdded ==
    ASSUME StoreTypeOK, GrantsWithin, NEW b \in Bundles, NEW S \in SUBSET CapsOf[b],
           records' = RecordOf(b),
           grants' = [grants EXCEPT ![IdOf[b]] = @ \cup S],
           given' = [given EXCEPT ![IdOf[b]] = @ \cup {b}]
    PROVE  /\ records' \subseteq Bundles
           /\ \A c, d \in records' : Key(c) = Key(d) => c = d
           /\ grants' \in [Ids -> SUBSET Caps(Bundles)] /\ given' \in [Ids -> SUBSET Bundles]
           /\ IdOf[b] \in Ids
           /\ grants'[IdOf[b]] = grants[IdOf[b]] \cup S
           /\ given'[IdOf[b]] = given[IdOf[b]] \cup {b}
           /\ \A id \in Ids \ {IdOf[b]} : /\ grants'[id] = grants[id] /\ given'[id] = given[id]
                                         /\ LiveOf(id)' = LiveOf(id)
           /\ b \in LiveOf(IdOf[b])'
           /\ GrantsWithin'
<1>1. IdOf[b] \in Ids
  BY DEF Ids
<1>2. CapsOf[b] \subseteq Caps(Bundles)
  BY DEF Caps
<1>3. /\ grants' \in [Ids -> SUBSET Caps(Bundles)] /\ given' \in [Ids -> SUBSET Bundles]
      /\ grants'[IdOf[b]] = grants[IdOf[b]] \cup S
      /\ given'[IdOf[b]] = given[IdOf[b]] \cup {b}
      /\ \A id \in Ids \ {IdOf[b]} : grants'[id] = grants[id] /\ given'[id] = given[id]
  BY <1>1, <1>2 DEF StoreTypeOK
<1>4. /\ records' \subseteq Bundles
      /\ \A c, d \in records' : Key(c) = Key(d) => c = d
  BY DEF StoreTypeOK, RecordOf
<1>5. /\ b \in LiveOf(IdOf[b])'
      /\ \A id \in Ids \ {IdOf[b]} : LiveOf(id)' = LiveOf(id)
  BY DEF LiveOf, RecordOf, Key
<1>6. GrantsWithin'
  <2> SUFFICES ASSUME NEW id \in Ids PROVE grants'[id] \subseteq Caps(given'[id])
    BY DEF GrantsWithin
  <2>1. CASE id = IdOf[b]
    BY <1>1, <1>3, <2>1 DEF GrantsWithin, Caps
  <2>2. CASE id # IdOf[b]
    BY <1>3, <2>2 DEF GrantsWithin
  <2>3. QED
    BY <2>1, <2>2
<1>7. QED
  BY <1>1, <1>3, <1>4, <1>5, <1>6

StoreInv == StoreTypeOK /\ GrantsWithin /\ GrantsExact

(* Every step keeps the store's types, and the grants within what was      *)
(* declared and, where no crash cut a request short, exact.                *)
LEMMA StoreStep ==
    ASSUME StoreInv, RequestTypeOK, [Next]_vars
    PROVE  StoreInv'
<1>0. ASSUME UNCHANGED store PROVE StoreInv'
  BY <1>0 DEF store, StoreInv, StoreTypeOK, GrantsWithin, GrantsExact, LiveOf
<1>1. ASSUME NEW b \in Bundles, Records(b) PROVE StoreInv'
  <2>1. /\ records' = RecordOf(b) /\ torn' = torn
        /\ grants' = [grants EXCEPT ![IdOf[b]] = @ \cup CapsOf[b]]
        /\ given' = [given EXCEPT ![IdOf[b]] = @ \cup {b}]
    BY <1>1 DEF Records
  <2>2. /\ StoreTypeOK' /\ GrantsWithin' /\ IdOf[b] \in Ids
        /\ grants'[IdOf[b]] = grants[IdOf[b]] \cup CapsOf[b]
        /\ given'[IdOf[b]] = given[IdOf[b]] \cup {b}
        /\ \A id \in Ids \ {IdOf[b]} : /\ grants'[id] = grants[id] /\ given'[id] = given[id]
                                      /\ LiveOf(id)' = LiveOf(id)
        /\ b \in LiveOf(IdOf[b])'
    BY <2>1, GrantsAdded DEF StoreInv, StoreTypeOK
  <2>3. Caps(given[IdOf[b]] \cup {b}) = Caps(given[IdOf[b]]) \cup CapsOf[b]
    BY DEF Caps
  <2>4. ASSUME NEW id \in Ids \ torn'
        PROVE  grants'[id] = Caps(given'[id]) /\ (LiveOf(id)' = {} => grants'[id] = {})
    <3>1. grants[id] = Caps(given[id]) /\ (LiveOf(id) = {} => grants[id] = {})
      BY <2>1, <2>4 DEF StoreInv, GrantsExact
    <3>2. CASE id = IdOf[b]
      BY <2>2, <2>3, <3>1, <3>2
    <3>3. CASE id # IdOf[b]
      BY <2>2, <3>1, <3>3
    <3>4. QED
      BY <3>2, <3>3
  <2>5. GrantsExact'
    BY <2>4 DEF GrantsExact
  <2>6. QED
    BY <2>2, <2>5 DEF StoreInv
<1>2. ASSUME NEW r \in Reqs, CopyEnds(r) PROVE StoreInv'
  <2>1. req[r].b \in Bundles /\ Records(req[r].b)
    BY <1>2 DEF CopyEnds, RequestTypeOK
  <2>2. QED
    BY <1>1, <2>1
<1>3. ASSUME NEW r \in Reqs, CrashInRecords(r) PROVE StoreInv'
  <2>1. PICK b \in Bundles : b = req[r].b
    BY <1>3 DEF CrashInRecords, RequestTypeOK
  <2>2. PICK S \in SUBSET CapsOf[b] :
            /\ records' = RecordOf(b) /\ torn' = torn \cup {IdOf[b]}
            /\ grants' = [grants EXCEPT ![IdOf[b]] = @ \cup S]
            /\ given' = [given EXCEPT ![IdOf[b]] = @ \cup {b}]
    BY <1>3, <2>1 DEF CrashInRecords
  <2>3. /\ records' \subseteq Bundles
        /\ \A c, d \in records' : Key(c) = Key(d) => c = d
        /\ grants' \in [Ids -> SUBSET Caps(Bundles)] /\ given' \in [Ids -> SUBSET Bundles]
        /\ IdOf[b] \in Ids /\ GrantsWithin'
        /\ \A id \in Ids \ {IdOf[b]} : /\ grants'[id] = grants[id] /\ given'[id] = given[id]
                                      /\ LiveOf(id)' = LiveOf(id)
    <3>1. StoreTypeOK /\ GrantsWithin
      BY DEF StoreInv
    <3>2. QED
      BY <2>2, <3>1, GrantsAdded
  <2>4. StoreTypeOK'
    BY <2>2, <2>3 DEF StoreInv, StoreTypeOK
  <2>5. GrantsExact'
    BY <2>2, <2>3 DEF StoreInv, GrantsExact
  <2>6. QED
    BY <2>3, <2>4, <2>5 DEF StoreInv
<1>4. ASSUME NEW r \in Reqs, NEW id \in Ids, Untrust(r, id) PROVE StoreInv'
  <2>1. /\ records' = records \ LiveOf(id) /\ torn' = torn \ {id}
        /\ grants' = [grants EXCEPT ![id] = {}] /\ given' = [given EXCEPT ![id] = {}]
    BY <1>4 DEF Untrust, Revoke
  <2>2. /\ StoreTypeOK' /\ grants'[id] = {} /\ given'[id] = {}
        /\ \A i \in Ids \ {id} : grants'[i] = grants[i] /\ given'[i] = given[i]
    BY <2>1 DEF StoreInv, StoreTypeOK
  <2>3. \A i \in Ids \ {id} : LiveOf(i)' = LiveOf(i)
    BY <2>1 DEF LiveOf
  <2>4. Caps({}) = {}
    BY DEF Caps
  <2>5. GrantsWithin' /\ GrantsExact'
    BY <2>1, <2>2, <2>3, <2>4 DEF StoreInv, GrantsWithin, GrantsExact
  <2>6. QED
    BY <2>2, <2>5 DEF StoreInv
<1>5. ASSUME NEW id \in Ids, CrashInRevoke(id) PROVE StoreInv'
  <2>1. PICK R \in SUBSET LiveOf(id), S \in SUBSET grants[id] :
            /\ records' = records \ R /\ torn' = torn \cup {id} /\ given' = given
            /\ grants' = [grants EXCEPT ![id] = S]
    <3>1. CASE \E R \in SUBSET LiveOf(id) : records' = records \ R /\ grants' = grants
      <4>1. grants' = [grants EXCEPT ![id] = grants[id]]
        BY <3>1 DEF StoreInv, StoreTypeOK
      <4>2. QED
        BY <1>5, <3>1, <4>1 DEF CrashInRevoke
    <3>2. CASE /\ records' = records \ LiveOf(id)
               /\ \E S \in SUBSET grants[id] : grants' = [grants EXCEPT ![id] = S]
      BY <1>5, <3>2 DEF CrashInRevoke
    <3>3. QED
      BY <1>5, <3>1, <3>2 DEF CrashInRevoke
  <2>2. /\ StoreTypeOK' /\ grants'[id] = S
        /\ \A i \in Ids \ {id} : grants'[i] = grants[i]
    BY <2>1 DEF StoreInv, StoreTypeOK
  <2>3. \A i \in Ids \ {id} : LiveOf(i)' = LiveOf(i)
    BY <2>1 DEF LiveOf
  <2>4. GrantsWithin' /\ GrantsExact'
    BY <2>1, <2>2, <2>3 DEF StoreInv, GrantsWithin, GrantsExact
  <2>5. QED
    BY <2>2, <2>4 DEF StoreInv
<1>6. CASE Crash
  BY <1>0, <1>6 DEF Crash
<1>7. ASSUME NEW u \in Uploads,
             (\E b \in Bundles : UploadExtracted(u, b)) \/ UploadRemovesOld(u) \/ UploadRenames(u)
      PROVE  StoreInv'
  BY <1>0, <1>7 DEF UploadExtracted, UploadRemovesOld, UploadRenames
<1>8. ASSUME NEW r \in Reqs,
             \/ \E b \in Bundles : TrustStarts(r, b) \/ BuiltinCopies(r, b)
             \/ \E B \in Listings : BuiltinsStart(r, B)
             \/ BuiltinsFail(r) \/ CopyThrows(r) \/ PublishReads(r) \/ PublishWrites(r)
      PROVE  StoreInv'
  BY <1>0, <1>8 DEF TrustStarts, BuiltinCopies, BuiltinsStart, BuiltinsFail, CopyThrows,
                    PublishReads, PublishWrites
<1>9. CASE (\E id \in Ids, spec \in Specs : PlanRun(id, spec)) \/ ValidateRun \/ ExecuteRun
  BY <1>0, <1>9 DEF PlanRun, ValidateRun, ExecuteRun
<1>10. CASE UNCHANGED vars
  BY <1>0, <1>10 DEF vars
<1>11. QED
  BY <1>2, <1>3, <1>4, <1>5, <1>6, <1>7, <1>8, <1>9, <1>10 DEF Next

-----------------------------------------------------------------------------
(* Requests and what they leave on disk.                                   *)

(* The fields of a request that is not there.                              *)
LEMMA NoReqFields ==
    /\ NoReq \in ReqRecords /\ NoReq.pc = "idle" /\ NoReq.hit = "no" /\ NoReq.alone = "no"
    /\ NoReq.src = "none" /\ NoReq.todo = {}
BY DEF NoReq, ReqRecords

(* A request that starts marks the others as not alone, and the copies it  *)
(* clashes with as disturbed.                                              *)
LEMMA StartsFields ==
    ASSUME RequestTypeOK, NEW r \in Reqs, NEW q \in ReqRecords, Starts(r, q)
    PROVE  /\ req[r].pc = "idle"
           /\ req' \in [Reqs -> ReqRecords]
           /\ req'[r].pc = q.pc /\ req'[r].b = q.b /\ req'[r].src = q.src
           /\ req'[r].hit = "yes" => q.pc = "copy"
           /\ req'[r].snap = q.snap
           /\ req'[r].alone = IF Busy = {} THEN "yes" ELSE "no"
           /\ \A p \in Reqs \ {r} :
                 /\ req'[p].pc = req[p].pc /\ req'[p].b = req[p].b /\ req'[p].src = req[p].src
                 /\ req'[p].hit # req[p].hit => req[p].pc = "copy" /\ req[p].src # "host"
                 /\ req'[p].snap = req[p].snap /\ req'[p].alone = "no"
           /\ dirty' = IF Busy = {} THEN dirty ELSE "yes"
<1> DEFINE mark == IF Busy = {} THEN "yes" ELSE "no"
           struck == IF \E c \in Reqs : Clash(c, q) THEN "yes" ELSE "no"
           felt(p) == IF Clash(p, q) THEN "yes" ELSE req[p].hit
<1>1. /\ req[r].pc = "idle" /\ dirty' = IF Busy = {} THEN dirty ELSE "yes"
      /\ req' = [p \in Reqs |-> IF p = r THEN [q EXCEPT !.alone = mark, !.hit = struck]
                                ELSE [req[p] EXCEPT !.alone = "no", !.hit = felt(p)]]
  BY DEF Starts
<1>2. /\ mark \in {"no", "yes"} /\ struck \in {"no", "yes"} /\ (struck = "yes" => q.pc = "copy")
      /\ \A p \in Reqs : req[p].hit \in {"no", "yes"} => felt(p) \in {"no", "yes"}
      /\ \A p \in Reqs : felt(p) # req[p].hit => req[p].pc = "copy" /\ req[p].src # "host"
  BY DEF Clash
<1> HIDE DEF mark, struck, felt
<1>6. \A p \in Reqs : req[p] \in ReqRecords
  BY DEF RequestTypeOK
<1>7. \A p \in Reqs : felt(p) \in {"no", "yes"}
  BY <1>2, <1>6 DEF ReqRecords
<1>3. /\ [q EXCEPT !.alone = mark, !.hit = struck] \in ReqRecords
      /\ \A p \in Reqs : [req[p] EXCEPT !.alone = "no", !.hit = felt(p)] \in ReqRecords
  BY <1>2, <1>6, <1>7 DEF ReqRecords
<1>4. req' \in [Reqs -> ReqRecords]
  BY <1>1, <1>3
<1>5. /\ req'[r] = [q EXCEPT !.alone = mark, !.hit = struck]
      /\ \A p \in Reqs \ {r} : req'[p] = [req[p] EXCEPT !.alone = "no", !.hit = felt(p)]
  BY <1>1
<1>8. /\ req'[r].pc = q.pc /\ req'[r].b = q.b /\ req'[r].src = q.src
      /\ req'[r].hit = struck /\ req'[r].snap = q.snap /\ req'[r].alone = mark
  BY <1>5 DEF ReqRecords
<1>9. \A p \in Reqs \ {r} :
         /\ req'[p].pc = req[p].pc /\ req'[p].b = req[p].b /\ req'[p].src = req[p].src
         /\ req'[p].hit = felt(p) /\ req'[p].snap = req[p].snap /\ req'[p].alone = "no"
  <2> SUFFICES ASSUME NEW p \in Reqs \ {r}
               PROVE  /\ req'[p].pc = req[p].pc /\ req'[p].b = req[p].b
                      /\ req'[p].src = req[p].src /\ req'[p].hit = felt(p)
                      /\ req'[p].snap = req[p].snap /\ req'[p].alone = "no"
    OBVIOUS
  <2>1. PICK f : f = felt(p)
    OBVIOUS
  <2>2. req'[p] = [req[p] EXCEPT !.alone = "no", !.hit = f] /\ req[p] \in ReqRecords
    BY <1>5, <1>6, <2>1
  <2>3. QED
    BY <2>1, <2>2 DEF ReqRecords
<1>10. req[r].pc = "idle" /\ dirty' = IF Busy = {} THEN dirty ELSE "yes"
  BY <1>1
<1>11. /\ struck = "yes" => q.pc = "copy"
       /\ \A p \in Reqs : felt(p) # req[p].hit => req[p].pc = "copy" /\ req[p].src # "host"
  BY <1>2
<1>12. req'[r].hit = "yes" => q.pc = "copy"
  BY <1>8, <1>11
<1>13. req'[r].alone = IF Busy = {} THEN "yes" ELSE "no"
  BY <1>8 DEF mark
<1>14. \A p \in Reqs \ {r} :
          /\ req'[p].pc = req[p].pc /\ req'[p].b = req[p].b /\ req'[p].src = req[p].src
          /\ req'[p].hit # req[p].hit => req[p].pc = "copy" /\ req[p].src # "host"
          /\ req'[p].snap = req[p].snap /\ req'[p].alone = "no"
  BY <1>9, <1>11
<1>15. QED
  BY <1>4, <1>8, <1>10, <1>12, <1>13, <1>14

(* A copy that is disturbed only notices it.                               *)
LEMMA DisturbFields ==
    ASSUME RequestTypeOK, NEW b, NEW src, Disturb(b, src)
    PROVE  /\ req' \in [Reqs -> ReqRecords]
           /\ \A p \in Reqs :
                 /\ req'[p].pc = req[p].pc /\ req'[p].b = req[p].b /\ req'[p].src = req[p].src
                 /\ req'[p].snap = req[p].snap /\ req'[p].alone = req[p].alone
                 /\ req'[p].hit # req[p].hit => req[p].pc = "copy" /\ req[p].src = src
<1>1. \A p \in Reqs : req[p] \in ReqRecords /\ [req[p] EXCEPT !.hit = "yes"] \in ReqRecords
  BY DEF RequestTypeOK, ReqRecords
<1>2. \A p \in Reqs : \/ req'[p] = req[p]
                      \/ /\ req'[p] = [req[p] EXCEPT !.hit = "yes"]
                         /\ req[p].pc = "copy" /\ req[p].src = src
  BY DEF Disturb
<1>3. req' \in [Reqs -> ReqRecords]
  BY <1>1 DEF Disturb
<1>4. QED
  BY <1>1, <1>2, <1>3 DEF ReqRecords

(* A step of one request.                                                  *)
LEMMA ReqChanged ==
    ASSUME RequestTypeOK, SchemaIInv, NEW r \in Reqs, NEW q \in ReqRecords,
           req[r].pc # "idle", req' = [req EXCEPT ![r] = q]
    PROVE  /\ req' \in [Reqs -> ReqRecords] /\ req'[r] = q
           /\ \A p \in Reqs \ {r} : req'[p] = req[p] /\ req[p].alone = "no"
           /\ q.pc # "idle" => Busy' = Busy
           /\ q.pc = "idle" => Busy' = Busy \ {r}
           /\ req[r].alone = "yes" => Busy = {r}
<1>1. /\ req' \in [Reqs -> ReqRecords] /\ req'[r] = q
      /\ \A p \in Reqs \ {r} : req'[p] = req[p]
  BY DEF RequestTypeOK
<1>2. r \in Busy
  BY DEF Busy
<1>3. \A p \in Reqs \ {r} : req[p].alone # "yes"
  BY <1>2 DEF SchemaIInv
<1>4. \A p \in Reqs \ {r} : req[p].alone = "no"
  BY <1>3 DEF RequestTypeOK, ReqRecords
<1>5. req[r].alone = "yes" => Busy = {r}
  BY DEF SchemaIInv
<1>6. /\ q.pc # "idle" => Busy' = Busy
      /\ q.pc = "idle" => Busy' = Busy \ {r}
  BY <1>1 DEF Busy
<1>7. QED
  BY <1>1, <1>4, <1>5, <1>6

(* The firm sets depend on the records and on which bundles are all there. *)
LEMMA FirmKept ==
    ASSUME records' = records,
           \A b \in records : bundle'[b] \in {"whole", "rewritten"} <=>
                               bundle[b] \in {"whole", "rewritten"}
    PROVE  Firm' = Firm
BY DEF Firm

(* While nothing is rewritten, a firm set is one that can be read.         *)
LEMMA FirmIsReadable ==
    ASSUME \A b \in records : bundle[b] # "rewritten"
    PROVE  Firm = Readable
BY DEF Firm, Readable

(* A request that starts: the requests it meets, and itself, know it.      *)
LEMMA StartWell ==
    ASSUME RequestTypeOK, SchemaIInv, NEW r \in Reqs, NEW q \in ReqRecords, Starts(r, q),
           q.pc \notin {"idle", "write"}, q.pc = "copy" => q.b \in Bundles,
           UNCHANGED <<schema, run>>,
           q.pc = "copy" => q.src # "host" /\ Firm' = Firm
    PROVE  RequestTypeOK' /\ SchemaIInv'
<1>1. /\ req[r].pc = "idle"
      /\ req' \in [Reqs -> ReqRecords]
      /\ req'[r].pc = q.pc /\ req'[r].b = q.b /\ req'[r].src = q.src
      /\ req'[r].hit = "yes" => q.pc = "copy"
      /\ req'[r].snap = q.snap
      /\ req'[r].alone = IF Busy = {} THEN "yes" ELSE "no"
      /\ \A p \in Reqs \ {r} :
            /\ req'[p].pc = req[p].pc /\ req'[p].b = req[p].b /\ req'[p].src = req[p].src
            /\ req'[p].hit # req[p].hit => req[p].pc = "copy" /\ req[p].src # "host"
            /\ req'[p].snap = req[p].snap /\ req'[p].alone = "no"
      /\ dirty' = IF Busy = {} THEN dirty ELSE "yes"
  BY StartsFields
<1>2. RequestTypeOK'
  <2>1. dirty' \in {"no", "yes"}
    BY <1>1 DEF RequestTypeOK
  <2>2. \A p \in Reqs : /\ req'[p].pc = "copy" => req'[p].b \in Bundles
                        /\ req'[p].pc = "write" => req'[p].snap \in Schemas
    BY <1>1 DEF RequestTypeOK
  <2>3. QED
    BY <1>1, <2>1, <2>2 DEF RequestTypeOK
<1>3. Busy' = Busy \cup {r}
  BY <1>1 DEF Busy
<1>4. \A p \in Reqs :
         /\ req'[p].alone = "yes" => p = r /\ Busy = {}
         /\ req'[p].pc # "idle" /\ dirty' = "no" => req'[p].alone = "yes"
         /\ ~(req'[p].pc = "write" /\ req'[p].alone = "yes")
         /\ req'[p].hit = "yes" => req'[p].pc = "copy" /\ req'[p].src # "host"
  <2> SUFFICES ASSUME NEW p \in Reqs
               PROVE  /\ req'[p].alone = "yes" => p = r /\ Busy = {}
                      /\ req'[p].pc # "idle" /\ dirty' = "no" => req'[p].alone = "yes"
                      /\ ~(req'[p].pc = "write" /\ req'[p].alone = "yes")
                      /\ req'[p].hit = "yes" => req'[p].pc = "copy" /\ req'[p].src # "host"
    OBVIOUS
  <2>1. CASE p = r
    BY <1>1, <2>1
  <2>2. CASE p # r
    <3>1. req[p].pc # "idle" => Busy # {}
      BY DEF Busy
    <3>2. req[p].hit = "yes" => req[p].pc = "copy" /\ req[p].src # "host"
      BY DEF SchemaIInv
    <3>3. QED
      BY <1>1, <2>2, <3>1, <3>2
  <2>3. QED
    BY <2>1, <2>2
<1>5. ASSUME dirty' = "no", \A p \in Busy' : req'[p].pc = "copy" /\ req'[p].src # "host"
      PROVE  \E R \in Firm' : schema' = Composed(R)
  <2>1. q.pc = "copy" /\ Busy = {} /\ dirty = "no"
    BY <1>1, <1>3, <1>5
  <2>2. \E R \in Firm : schema = Composed(R)
    BY <2>1 DEF SchemaIInv
  <2>3. QED
    BY <2>1, <2>2
<1>6. SchemaIInv'
  BY <1>3, <1>4, <1>5 DEF SchemaIInv
<1>7. QED
  BY <1>2, <1>6

(* A restart leaves no request and a schema that fits the records.         *)
LEMMA RestartWell ==
    ASSUME RequestTypeOK, req' = [r \in Reqs |-> NoReq], run' = NoRun, dirty' = "no",
           records' \subseteq Bundles, \E R \in Readable' : schema' = Composed(R),
           \A b \in records' : bundle'[b] # "rewritten"
    PROVE  RequestTypeOK' /\ SchemaIInv'
<1>1. schema' \in Schemas /\ Firm' = Readable'
  BY ComposedType DEF Readable, Firm
<1>2. NoRun \in RunRecords /\ NoRun.pc = "idle"
  BY DEF NoRun, RunRecords
<1>3. \A r \in Reqs : req'[r] = NoReq
  OBVIOUS
<1>4. RequestTypeOK'
  BY <1>1, <1>2, <1>3, NoReqFields DEF RequestTypeOK
<1>5. SchemaIInv'
  BY <1>1, <1>3, NoReqFields DEF SchemaIInv
<1>6. QED
  BY <1>4, <1>5

DiskInv == DiskTypeOK /\ BundleIInv

(* After a restart no directory is being rewritten.                        *)
LEMMA RestartBundles ==
    ASSUME DiskInv, NEW done, NEW cut, Restarts(done, cut)
    PROVE  \A b \in Bundles : bundle'[b] # "rewritten"
<1>1. PICK B \in SUBSET cut :
          bundle' = [b \in Bundles |-> IF b \in B THEN "partial"
                                      ELSE IF b \in done \/ bundle[b] = "rewritten" THEN "whole"
                                      ELSE bundle[b]]
  BY DEF Restarts
<1>2. QED
  BY <1>1

(* Every step keeps the requests' types, and what SchemaCurrent rests on.  *)
LEMMA RequestsStep ==
    ASSUME DiskInv, StoreTypeOK, StoreTypeOK', RequestTypeOK, SchemaIInv, [Next]_vars
    PROVE  RequestTypeOK' /\ SchemaIInv'
<1> DEFINE Good == RequestTypeOK' /\ SchemaIInv'
<1> HIDE DEF Good
<1>t. \A r \in Reqs : req[r] \in ReqRecords
  BY DEF RequestTypeOK
<1>0. ASSUME UNCHANGED <<req, schema, dirty, records, bundle>>,
             run' \in RunRecords, run'.pc # "idle" => run'.id \in Ids
      PROVE  Good
  <2>1. Firm' = Firm
    BY <1>0, FirmKept
  <2>2. RequestTypeOK'
    BY <1>0 DEF RequestTypeOK
  <2>3. SchemaIInv'
    BY <1>0, <2>1 DEF SchemaIInv, Busy
  <2>4. QED
    BY <2>2, <2>3 DEF Good
<1>r. run \in RunRecords /\ (run.pc # "idle" => run.id \in Ids)
  BY DEF RequestTypeOK
<1>1. ASSUME NEW b, NEW src, Disturb(b, src), src # "host",
             UNCHANGED <<schema, run, dirty, records, bundle>>
      PROVE  Good
  <2>1. /\ req' \in [Reqs -> ReqRecords]
        /\ \A p \in Reqs :
              /\ req'[p].pc = req[p].pc /\ req'[p].b = req[p].b /\ req'[p].src = req[p].src
              /\ req'[p].snap = req[p].snap /\ req'[p].alone = req[p].alone
              /\ req'[p].hit # req[p].hit => req[p].pc = "copy" /\ req[p].src = src
    BY <1>1, DisturbFields
  <2>2. Firm' = Firm /\ Busy' = Busy
    BY <1>1, <2>1, FirmKept DEF Busy
  <2>3. RequestTypeOK'
    BY <1>1, <2>1 DEF RequestTypeOK
  <2>4. \A p \in Reqs : req'[p].hit = "yes" => req'[p].pc = "copy" /\ req'[p].src # "host"
    BY <1>1, <2>1 DEF SchemaIInv
  <2>5. (dirty' = "no" /\ \A p \in Busy' : req'[p].pc = "copy" /\ req'[p].src # "host")
           => \E R \in Firm' : schema' = Composed(R)
    BY <1>1, <2>1, <2>2 DEF SchemaIInv, Busy
  <2>6. SchemaIInv'
    BY <1>1, <2>1, <2>2, <2>4, <2>5 DEF SchemaIInv
  <2>7. QED
    BY <2>3, <2>6 DEF Good
<1>2. ASSUME NEW u \in Uploads,
             (\E b \in Bundles : UploadExtracted(u, b)) \/ UploadRemovesOld(u) \/ UploadRenames(u)
      PROVE  Good
  <2>1. CASE \E b \in Bundles : UploadExtracted(u, b)
    BY <1>0, <1>r, <2>1 DEF UploadExtracted, store
  <2>2. CASE UploadRemovesOld(u)
    BY <1>1, <2>2 DEF UploadRemovesOld, store
  <2>3. CASE UploadRenames(u)
    <3>1. UNCHANGED <<schema, run, dirty, records, bundle>>
      BY <2>3 DEF UploadRenames, store
    <3>2. CASE req' = req
      BY <1>0, <1>r, <3>1, <3>2
    <3>3. CASE req' # req
      BY <1>1, <2>3, <3>1, <3>3 DEF UploadRenames
    <3>4. QED
      BY <3>2, <3>3
  <2>4. QED
    BY <1>2, <2>1, <2>2, <2>3
<1>3. ASSUME NEW b \in Bundles, BeginsCopy(b), records' = records PROVE Firm' = Firm
  <2>1. \A c \in Bundles : bundle'[c] \in {"whole", "rewritten"} <=>
                            bundle[c] \in {"whole", "rewritten"}
    BY <1>3 DEF BeginsCopy, DiskInv, DiskTypeOK
  <2>2. QED
    BY <1>3, <2>1, FirmKept DEF StoreTypeOK
<1>4. ASSUME NEW r \in Reqs, NEW b \in Bundles, TrustStarts(r, b) PROVE Good
  <2>1. PICK src \in Sources(b) : Starts(r, [NoReq EXCEPT !.pc = "copy", !.b = b, !.src = src])
    BY <1>4 DEF TrustStarts
  <2>2. src \in {"dest", "tmp", "left"}
    BY DEF Sources
  <2> DEFINE q == [NoReq EXCEPT !.pc = "copy", !.b = b, !.src = src]
  <2>3. q \in ReqRecords /\ q.pc = "copy" /\ q.b = b /\ q.src = src
    BY <2>2 DEF NoReq, ReqRecords
  <2>4. Firm' = Firm /\ UNCHANGED <<schema, run>>
    BY <1>3, <1>4 DEF TrustStarts, store
  <2>5. Starts(r, q)
    BY <2>1
  <2> HIDE DEF q
  <2>6. QED
    BY <2>2, <2>3, <2>4, <2>5, StartWell DEF Good
<1>5. ASSUME NEW r \in Reqs, NEW B \in Listings, BuiltinsStart(r, B) PROVE Good
  <2> DEFINE q == [NoReq EXCEPT !.pc = "builtins", !.todo = B]
  <2>1. q \in ReqRecords /\ q.pc = "builtins"
    BY DEF NoReq, ReqRecords, Listings
  <2>2. Starts(r, q) /\ UNCHANGED <<schema, run>>
    BY <1>5 DEF BuiltinsStart
  <2> HIDE DEF q
  <2>3. QED
    BY <2>1, <2>2, StartWell DEF Good
<1>6. ASSUME NEW r \in Reqs, NEW id \in Ids, Untrust(r, id) PROVE Good
  <2> DEFINE q == [NoReq EXCEPT !.pc = "publish"]
  <2>1. q \in ReqRecords /\ q.pc = "publish"
    BY DEF NoReq, ReqRecords
  <2>2. Starts(r, q) /\ UNCHANGED <<schema, run>>
    BY <1>6 DEF Untrust
  <2> HIDE DEF q
  <2>3. QED
    BY <2>1, <2>2, StartWell DEF Good
<1>7. ASSUME NEW r \in Reqs, NEW q \in ReqRecords, req[r].pc # "idle", q.pc # "idle",
             req' = [req EXCEPT ![r] = q], q.alone = req[r].alone,
             q.pc = "copy" => q.b \in Bundles /\ q.src = "host",
             q.pc = "write" => q.snap \in Schemas,
             q.pc = "write" /\ q.alone = "yes" => \E R \in Firm' : q.snap = Composed(R),
             q.hit = "no", UNCHANGED <<schema, run, dirty>>
      PROVE  Good
  <2>1. /\ req' \in [Reqs -> ReqRecords] /\ req'[r] = q
        /\ \A p \in Reqs \ {r} : req'[p] = req[p] /\ req[p].alone = "no"
        /\ Busy' = Busy /\ (req[r].alone = "yes" => Busy = {r})
    BY <1>7, ReqChanged
  <2>2. RequestTypeOK'
    BY <1>7, <2>1 DEF RequestTypeOK
  <2>3. r \in Busy'
    BY <1>7, <2>1 DEF Busy
  <2>4. \A p \in Reqs :
           /\ req'[p].alone = "yes" => Busy' = {p}
           /\ req'[p].pc # "idle" /\ dirty' = "no" => req'[p].alone = "yes"
           /\ req'[p].pc = "write" /\ req'[p].alone = "yes" =>
                \E R \in Firm' : req'[p].snap = Composed(R)
           /\ req'[p].hit = "yes" => req'[p].pc = "copy" /\ req'[p].src # "host"
    <3> SUFFICES ASSUME NEW p \in Reqs
                 PROVE  /\ req'[p].alone = "yes" => Busy' = {p}
                        /\ req'[p].pc # "idle" /\ dirty' = "no" => req'[p].alone = "yes"
                        /\ req'[p].pc = "write" /\ req'[p].alone = "yes" =>
                             \E R \in Firm' : req'[p].snap = Composed(R)
                        /\ req'[p].hit = "yes" => req'[p].pc = "copy" /\ req'[p].src # "host"
      OBVIOUS
    <3>1. CASE p = r
      BY <1>7, <2>1, <3>1 DEF SchemaIInv
    <3>2. CASE p # r
      <4>1. req'[p] = req[p] /\ req[p].alone = "no"
        BY <2>1, <3>2
      <4>2. QED
        BY <1>7, <4>1 DEF SchemaIInv
    <3>3. QED
      BY <3>1, <3>2
  <2>5. ~(req'[r].pc = "copy" /\ req'[r].src # "host")
    BY <1>7, <2>1
  <2>6. SchemaIInv'
    BY <2>3, <2>4, <2>5 DEF SchemaIInv
  <2>7. QED
    BY <2>2, <2>6 DEF Good
<1>8. ASSUME NEW r \in Reqs, NEW b \in Bundles, BuiltinCopies(r, b) PROVE Good
  <2> DEFINE q == Read(req[r], b)
  <2>1. /\ req[r].pc = "builtins" /\ b \in req[r].todo /\ req' = [req EXCEPT ![r] = q]
        /\ UNCHANGED <<schema, run, dirty>>
    BY <1>8 DEF BuiltinCopies
  <2>2. /\ q \in ReqRecords /\ q.pc = "copy" /\ q.b = b /\ q.src = "host"
        /\ q.hit = req[r].hit /\ q.alone = req[r].alone
    BY <1>t, <2>1 DEF Read, ReqRecords
  <2>3. req[r].hit = "no"
    BY <1>t, <2>1 DEF SchemaIInv, ReqRecords
  <2> HIDE DEF q
  <2>4. QED
    BY <1>7, <2>1, <2>2, <2>3
<1>9. ASSUME NEW r \in Reqs, CopyEnds(r) PROVE Good
  <2> DEFINE q == After(req[r])
  <2>1. req[r].pc = "copy" /\ req' = [req EXCEPT ![r] = q] /\ UNCHANGED <<schema, run, dirty>>
    BY <1>9 DEF CopyEnds
  <2>2. /\ q \in ReqRecords /\ q.pc \in {"publish", "builtins"} /\ q.hit = "no"
        /\ q.alone = req[r].alone
    BY <1>t DEF After, ReqRecords
  <2> HIDE DEF q
  <2>3. QED
    BY <1>7, <2>1, <2>2
<1>10. ASSUME NEW r \in Reqs, PublishReads(r) PROVE Good
  <2>1. PICK R \in Readable :
            req' = [req EXCEPT ![r] = [req[r] EXCEPT !.pc = "write", !.snap = Composed(R)]]
    BY <1>10 DEF PublishReads
  <2>2. req[r].pc = "publish" /\ UNCHANGED <<schema, run, dirty, records, bundle>>
    BY <1>10 DEF PublishReads, store
  <2>3. Composed(R) \in Schemas /\ Firm' = Firm
    BY <2>2, ComposedType, FirmKept DEF Readable, StoreTypeOK
  <2>a. ASSUME req[r].alone = "yes" PROVE R \in Firm'
    <3>1. Busy = {r}
      BY <2>a DEF SchemaIInv
    <3>2. \A p \in Reqs : req[p].pc # "copy"
      BY <2>2, <3>1 DEF Busy
    <3>3. \A b \in records : bundle[b] # "rewritten"
      BY <3>2 DEF DiskInv, BundleIInv, Copiers, StoreTypeOK
    <3>4. QED
      BY <2>3, <3>3, FirmIsReadable
  <2> DEFINE q == [req[r] EXCEPT !.pc = "write", !.snap = Composed(R)]
  <2>4. /\ q \in ReqRecords /\ q.pc = "write" /\ q.snap = Composed(R)
        /\ q.hit = req[r].hit /\ q.alone = req[r].alone
    BY <1>t, <2>3 DEF ReqRecords
  <2>5. req[r].hit = "no"
    BY <1>t, <2>2 DEF SchemaIInv, ReqRecords
  <2>6. req' = [req EXCEPT ![r] = q]
    BY <2>1
  <2> HIDE DEF q
  <2>7. QED
    BY <1>7, <2>2, <2>3, <2>a, <2>4, <2>5, <2>6
<1>11. ASSUME NEW r \in Reqs, req[r].pc # "idle", req' = [req EXCEPT ![r] = NoReq],
              run' = run, schema' \in Schemas, dirty' \in {"no", "yes"},
              dirty' = "no" => req[r].alone = "yes" /\ \E R \in Firm' : schema' = Composed(R)
       PROVE  Good
  <2>1. /\ req' \in [Reqs -> ReqRecords] /\ req'[r] = NoReq
        /\ \A p \in Reqs \ {r} : req'[p] = req[p] /\ req[p].alone = "no"
        /\ Busy' = Busy \ {r} /\ (req[r].alone = "yes" => Busy = {r})
    BY <1>11, NoReqFields, ReqChanged
  <2>2. \A p \in Reqs : req'[p].pc = "idle" \/ req'[p] = req[p]
    BY <2>1, NoReqFields
  <2>3. RequestTypeOK'
    BY <1>11, <2>1, <2>2 DEF RequestTypeOK
  <2>4. dirty' = "no" => Busy' = {}
    BY <1>11, <2>1
  <2>5. \A p \in Reqs : /\ req'[p].alone = "no"
                        /\ req'[p].hit = "yes" => req'[p].pc = "copy" /\ req'[p].src # "host"
    <3> SUFFICES ASSUME NEW p \in Reqs
                 PROVE  /\ req'[p].alone = "no"
                        /\ req'[p].hit = "yes" => req'[p].pc = "copy" /\ req'[p].src # "host"
      OBVIOUS
    <3>1. CASE p = r
      BY <2>1, <3>1, NoReqFields
    <3>2. CASE p # r
      BY <2>1, <3>2 DEF SchemaIInv
    <3>3. QED
      BY <3>1, <3>2
  <2>6. \A p \in Reqs : req'[p].pc # "idle" => p \in Busy'
    BY DEF Busy
  <2>7. SchemaIInv'
    BY <1>11, <2>4, <2>5, <2>6 DEF SchemaIInv
  <2>8. QED
    BY <2>3, <2>7 DEF Good
<1>12. ASSUME NEW r \in Reqs, BuiltinsFail(r) PROVE Good
  BY <1>11, <1>12 DEF BuiltinsFail, RequestTypeOK
<1>13. ASSUME NEW r \in Reqs, CopyThrows(r) PROVE Good
  <2>1. /\ req[r].pc = "copy" /\ req[r].hit = "yes" /\ req' = [req EXCEPT ![r] = NoReq]
        /\ UNCHANGED <<schema, run, dirty, records>>
    BY <1>13 DEF CopyThrows, store
  <2>2. ASSUME dirty = "no" PROVE req[r].alone = "yes" /\ \E R \in Firm' : schema = Composed(R)
    <3>1. req[r].alone = "yes" /\ Busy = {r} /\ req[r].src # "host"
      BY <2>1, <2>2 DEF SchemaIInv
    <3>2. PICK R \in Firm : schema = Composed(R)
      BY <2>1, <2>2, <3>1 DEF SchemaIInv
    <3>3. \A b \in Bundles : bundle'[b] \in {"whole", "rewritten"} =>
                              bundle[b] \in {"whole", "rewritten"}
      BY <1>13 DEF CopyThrows, Filled, DiskInv, DiskTypeOK
    <3>4. R \in Firm'
      BY <2>1, <3>3 DEF Firm, StoreTypeOK
    <3>5. QED
      BY <3>1, <3>2, <3>4
  <2>3. schema \in Schemas /\ dirty \in {"no", "yes"}
    BY DEF RequestTypeOK
  <2>4. QED
    BY <1>11, <2>1, <2>2, <2>3
<1>14. ASSUME NEW r \in Reqs, PublishWrites(r) PROVE Good
  <2>1. /\ req[r].pc = "write" /\ schema' = req[r].snap /\ req' = [req EXCEPT ![r] = NoReq]
        /\ dirty' = IF req[r].alone = "yes" THEN "no" ELSE dirty
        /\ UNCHANGED <<run, records, bundle>>
    BY <1>14 DEF PublishWrites, store
  <2>2. req[r].snap \in Schemas /\ dirty' \in {"no", "yes"}
    BY <2>1 DEF RequestTypeOK
  <2>3. ASSUME dirty' = "no"
        PROVE  req[r].alone = "yes" /\ \E R \in Firm' : schema' = Composed(R)
    <3>1. req[r].alone = "yes"
      BY <2>1, <2>3 DEF SchemaIInv
    <3>2. PICK R \in Firm : req[r].snap = Composed(R)
      BY <2>1, <3>1 DEF SchemaIInv
    <3>3. Firm' = Firm
      BY <2>1, FirmKept
    <3>4. QED
      BY <2>1, <3>1, <3>2, <3>3
  <2>4. QED
    BY <1>11, <2>1, <2>2, <2>3
<1>15. ASSUME \/ Crash
              \/ \E id \in Ids : CrashInRevoke(id)
              \/ \E r \in Reqs : CrashInRecords(r)
       PROVE  Good
  <2>1. \E done, cut : Restarts(done, cut)
    BY <1>15 DEF Crash, CrashInRevoke, CrashInRecords
  <2>2. /\ req' = [r \in Reqs |-> NoReq] /\ run' = NoRun /\ dirty' = "no"
        /\ \E R \in Readable' : schema' = Composed(R)
    BY <2>1 DEF Restarts
  <2>3. records' \subseteq Bundles /\ \A b \in Bundles : bundle'[b] # "rewritten"
    BY <2>1, RestartBundles DEF StoreTypeOK
  <2>4. QED
    BY <2>2, <2>3, RestartWell DEF Good
<1>16. ASSUME NEW id \in Ids, NEW spec \in Specs, PlanRun(id, spec) PROVE Good
  <2>1. run' \in RunRecords /\ run'.id \in Ids
    BY <1>16 DEF PlanRun, RunRecords
  <2>2. QED
    BY <1>0, <1>16, <2>1 DEF PlanRun, store
<1>17. CASE ValidateRun \/ ExecuteRun
  <2>1. NoRun \in RunRecords /\ NoRun.pc = "idle"
    BY DEF NoRun, RunRecords
  <2>2. run' \in {NoRun, [run EXCEPT !.pc = "validated"]} /\ (run' = NoRun \/ run.pc = "planned")
    BY <1>17 DEF ValidateRun, ExecuteRun
  <2>3. run' \in RunRecords /\ (run'.pc # "idle" => run'.id \in Ids)
    BY <1>r, <2>1, <2>2 DEF RunRecords
  <2>4. UNCHANGED <<req, schema, dirty, records, bundle>>
    BY <1>17 DEF ValidateRun, ExecuteRun, store
  <2>5. QED
    BY <1>0, <2>3, <2>4 DEF Good
<1>18. CASE UNCHANGED vars
  <2>1. UNCHANGED <<req, schema, dirty, records, bundle, run>>
    BY <1>18 DEF vars, store
  <2>2. QED
    BY <1>0, <1>r, <2>1 DEF Good
<1>19. CASE Next
  <2>1. ASSUME NEW r \in Reqs,
               \/ \E b \in Bundles : TrustStarts(r, b) \/ BuiltinCopies(r, b)
               \/ \E B \in Listings : BuiltinsStart(r, B)
               \/ \E id \in Ids : Untrust(r, id)
               \/ BuiltinsFail(r) \/ CopyThrows(r) \/ CopyEnds(r)
               \/ PublishReads(r) \/ PublishWrites(r) \/ CrashInRecords(r)
        PROVE  Good
    <3>1. CASE \E b \in Bundles : TrustStarts(r, b) \/ BuiltinCopies(r, b)
      BY <1>4, <1>8, <3>1
    <3>2. CASE \E B \in Listings : BuiltinsStart(r, B)
      BY <1>5, <3>2
    <3>3. CASE \E id \in Ids : Untrust(r, id)
      BY <1>6, <3>3
    <3>4. CASE CopyEnds(r) \/ PublishReads(r)
      BY <1>9, <1>10, <3>4
    <3>5. CASE BuiltinsFail(r) \/ CopyThrows(r) \/ PublishWrites(r)
      BY <1>12, <1>13, <1>14, <3>5
    <3>6. CASE CrashInRecords(r)
      BY <1>15, <3>6
    <3>7. QED
      BY <2>1, <3>1, <3>2, <3>3, <3>4, <3>5, <3>6
  <2>2. ASSUME NEW id \in Ids, CrashInRevoke(id) \/ \E spec \in Specs : PlanRun(id, spec)
        PROVE  Good
    <3>1. CASE CrashInRevoke(id)
      BY <1>15, <3>1
    <3>2. CASE \E spec \in Specs : PlanRun(id, spec)
      BY <1>16, <3>2
    <3>3. QED
      BY <2>2, <3>1, <3>2
  <2>3. CASE Crash
    BY <1>15, <2>3 DEF Good
  <2>4. QED
    BY <1>2, <1>17, <1>19, <2>1, <2>2, <2>3 DEF Next, Good
<1>20. QED
  BY <1>18, <1>19 DEF Good

(* Every step keeps the directories' types, and every record's directory   *)
(* all there or known to be short.                                         *)
LEMMA DiskStep ==
    ASSUME DiskInv, StoreTypeOK, StoreTypeOK', RequestTypeOK, SchemaIInv, [Next]_vars
    PROVE  DiskInv'
<1>b. /\ bundle \in [Bundles -> {"none", "partial", "whole", "rewritten"}] /\ short \subseteq Bundles
      /\ \A b \in records : bundle[b] \in {"whole", "rewritten"} \/ b \in short
      /\ \A b \in Bundles : bundle[b] = "rewritten" =>
                            \E p \in Reqs : req[p].pc = "copy" /\ req[p].b = b
      /\ \A r \in Reqs : req[r].pc = "copy" =>
                          req[r].b \in Bundles /\ bundle[req[r].b] \in {"partial", "rewritten"}
  BY DEF DiskInv, DiskTypeOK, BundleIInv, Copiers, RequestTypeOK
<1>r. records \subseteq Bundles /\ records' \subseteq Bundles
  BY DEF StoreTypeOK
<1>q. \A r \in Reqs : req[r] \in ReqRecords
  BY DEF RequestTypeOK
<1> DEFINE SameCopies ==
        \A p \in Reqs : /\ req'[p].pc = "copy" <=> req[p].pc = "copy"
                        /\ req[p].pc = "copy" => req'[p].b = req[p].b
           Others(r) == \A p \in Reqs \ {r} : /\ req'[p].pc = "copy" <=> req[p].pc = "copy"
                                              /\ req[p].pc = "copy" => req'[p].b = req[p].b
<1>c. ASSUME UNCHANGED <<bundle, short>>, records' \subseteq records, SameCopies PROVE BundleIInv'
  <2>1. \A b \in Bundles : Copiers(b)' = Copiers(b)
    BY <1>c DEF Copiers
  <2>2. QED
    BY <1>c, <2>1 DEF DiskInv, BundleIInv, RequestTypeOK
<1>0. ASSUME UNCHANGED <<disk, bundle, short>>, records' \subseteq records, SameCopies PROVE DiskInv'
  <2>1. DiskTypeOK'
    BY <1>0 DEF DiskInv, DiskTypeOK, disk
  <2> HIDE DEF SameCopies
  <2>2. QED
    BY <1>0, <1>c, <2>1 DEF DiskInv
<1>1. ASSUME NEW u \in Uploads, UNCHANGED <<bundle, short, records>>, SameCopies,
             NEW v \in UploadRecords, up' = [up EXCEPT ![u] = v],
             v.pc # "none" => v.b \in Bundles,
             staged' \subseteq Bundles, left' \subseteq Bundles
      PROVE  DiskInv'
  <2>1. DiskTypeOK'
    BY <1>1 DEF DiskInv, DiskTypeOK
  <2> HIDE DEF SameCopies
  <2>2. QED
    BY <1>1, <1>c, <2>1 DEF DiskInv
<1>d. ASSUME NEW b, NEW src, Disturb(b, src) PROVE SameCopies
  BY <1>d, DisturbFields
<1>e. ASSUME req' = req PROVE SameCopies
  BY <1>e
<1>f. ASSUME NEW r \in Reqs, NEW q, req' = [req EXCEPT ![r] = q] PROVE req'[r] = q /\ Others(r)
  BY <1>f DEF RequestTypeOK
<1>g. ASSUME NEW r \in Reqs, Others(r), req[r].pc # "copy", req'[r].pc # "copy" PROVE SameCopies
  BY <1>g
<1>s. ASSUME NEW r \in Reqs, NEW q \in ReqRecords, Starts(r, q)
      PROVE  req[r].pc = "idle" /\ req'[r].pc = q.pc /\ req'[r].b = q.b /\ Others(r)
  BY <1>s, StartsFields
<1>2. ASSUME NEW u \in Uploads, NEW b \in Bundles, UploadExtracted(u, b) PROVE DiskInv'
  <2> DEFINE v == [pc |-> "extracted", b |-> b]
  <2>1. v \in UploadRecords /\ v.b = b
    BY DEF UploadRecords
  <2>2. /\ up' = [up EXCEPT ![u] = v] /\ staged' \subseteq Bundles /\ left' \subseteq Bundles
        /\ UNCHANGED <<bundle, short, records, req>>
    BY <1>2 DEF UploadExtracted, store, DiskInv, DiskTypeOK
  <2>3. SameCopies
    BY <1>e, <2>2
  <2> HIDE DEF v, SameCopies
  <2>4. QED
    BY <1>1, <2>1, <2>2, <2>3
<1>3. ASSUME NEW u \in Uploads, UploadRemovesOld(u) PROVE DiskInv'
  <2> DEFINE v == [up[u] EXCEPT !.pc = "removed"]
  <2>1. v \in UploadRecords /\ v.b = up[u].b /\ up[u].b \in Bundles
    BY <1>3 DEF UploadRemovesOld, DiskInv, DiskTypeOK, UploadRecords
  <2>2. /\ up' = [up EXCEPT ![u] = v] /\ staged' \subseteq Bundles /\ left' \subseteq Bundles
        /\ UNCHANGED <<bundle, short, records>>
    BY <1>3 DEF UploadRemovesOld, store, DiskInv, DiskTypeOK
  <2>3. SameCopies
    BY <1>3, <1>d DEF UploadRemovesOld
  <2> HIDE DEF v, SameCopies
  <2>4. QED
    BY <1>1, <2>1, <2>2, <2>3
<1>4. ASSUME NEW u \in Uploads, UploadRenames(u) PROVE DiskInv'
  <2>1. NoUpload \in UploadRecords /\ NoUpload.pc = "none" /\ up[u].b \in Bundles
    BY <1>4 DEF UploadRenames, NoUpload, UploadRecords, DiskInv, DiskTypeOK
  <2>2. /\ up' = [up EXCEPT ![u] = NoUpload]
        /\ staged' \in {staged, staged \cup {up[u].b}} /\ left' \in {left, left \cup {up[u].b}}
        /\ UNCHANGED <<bundle, short, records>>
    BY <1>4 DEF UploadRenames, store
  <2>3. staged' \subseteq Bundles /\ left' \subseteq Bundles
    BY <2>1, <2>2 DEF DiskInv, DiskTypeOK
  <2>4. SameCopies
    <3>1. req' = req \/ Disturb(up[u].b, "tmp")
      BY <1>4 DEF UploadRenames
    <3>2. QED
      BY <1>d, <1>e, <3>1
  <2> HIDE DEF SameCopies
  <2>5. QED
    BY <1>1, <2>1, <2>2, <2>3, <2>4
<1> HIDE DEF SameCopies, Others
<1>5. ASSUME UNCHANGED disk,
             bundle' \in [Bundles -> {"none", "partial", "whole", "rewritten"}],
             short' \subseteq Bundles,
             \A b \in records' : bundle'[b] \in {"whole", "rewritten"} \/ b \in short',
             \A b \in Bundles : bundle'[b] = "rewritten" =>
                                \E p \in Reqs : req'[p].pc = "copy" /\ req'[p].b = b,
             \A p \in Reqs : req'[p].pc = "copy" => bundle'[req'[p].b] \in {"partial", "rewritten"}
      PROVE  DiskInv'
  <2>1. DiskTypeOK'
    BY <1>5 DEF DiskInv, DiskTypeOK, disk
  <2>2. BundleIInv'
    BY <1>5 DEF BundleIInv, Copiers
  <2>3. QED
    BY <2>1, <2>2 DEF DiskInv
<1>6. ASSUME NEW r \in Reqs, NEW b \in Bundles, BeginsCopy(b), UNCHANGED <<disk, records, short>>,
             req[r].pc # "copy", req'[r].pc = "copy", req'[r].b = b, Others(r)
      PROVE  DiskInv'
  <2>1. /\ bundle' \in [Bundles -> {"none", "partial", "whole", "rewritten"}]
        /\ bundle'[b] = IF bundle[b] \in {"whole", "rewritten"} THEN "rewritten" ELSE "partial"
        /\ \A c \in Bundles \ {b} : bundle'[c] = bundle[c]
    BY <1>6, <1>b DEF BeginsCopy
  <2>2. \A c \in records' : bundle'[c] \in {"whole", "rewritten"} \/ c \in short'
    BY <1>6, <1>b, <1>r, <2>1
  <2>3. ASSUME NEW c \in Bundles, bundle'[c] = "rewritten"
        PROVE  \E p \in Reqs : req'[p].pc = "copy" /\ req'[p].b = c
    <3>1. CASE c = b
      BY <1>6, <3>1
    <3>2. CASE c # b
      <4>1. PICK p \in Reqs : req[p].pc = "copy" /\ req[p].b = c
        BY <1>b, <2>1, <2>3, <3>2
      <4>2. p # r
        BY <1>6, <4>1
      <4>3. QED
        BY <1>6, <4>1, <4>2 DEF Others
    <3>3. QED
      BY <3>1, <3>2
  <2>4. ASSUME NEW p \in Reqs, req'[p].pc = "copy"
        PROVE  bundle'[req'[p].b] \in {"partial", "rewritten"}
    <3>1. CASE req'[p].b = b
      BY <2>1, <3>1
    <3>2. CASE req'[p].b # b
      <4>1. p # r /\ req[p].pc = "copy" /\ req'[p].b = req[p].b
        BY <1>6, <2>4, <3>2 DEF Others
      <4>2. QED
        BY <1>b, <2>1, <3>2, <4>1
    <3>3. QED
      BY <3>1, <3>2
  <2>5. QED
    BY <1>5, <1>6, <1>b, <2>1, <2>2, <2>3, <2>4
<1>7. ASSUME NEW r \in Reqs, NEW b \in Bundles, TrustStarts(r, b) \/ BuiltinCopies(r, b)
      PROVE  DiskInv'
  <2>1. BeginsCopy(b) /\ UNCHANGED <<disk, records, short>>
    BY <1>7 DEF TrustStarts, BuiltinCopies, store
  <2>2. /\ req[r].pc # "copy" /\ req'[r].pc = "copy" /\ req'[r].b = b /\ Others(r)
    <3>1. CASE TrustStarts(r, b)
      <4>1. PICK src \in Sources(b) : Starts(r, [NoReq EXCEPT !.pc = "copy", !.b = b, !.src = src])
        BY <3>1 DEF TrustStarts
      <4>2. src \in {"dest", "tmp", "left"}
        BY DEF Sources
      <4> DEFINE q == [NoReq EXCEPT !.pc = "copy", !.b = b, !.src = src]
      <4>3. q \in ReqRecords /\ q.pc = "copy" /\ q.b = b
        BY <4>2 DEF NoReq, ReqRecords
      <4>4. Starts(r, q)
        BY <4>1
      <4> HIDE DEF q
      <4>5. QED
        BY <1>s, <4>3, <4>4
    <3>2. CASE BuiltinCopies(r, b)
      <4>1. req[r].pc = "builtins" /\ req' = [req EXCEPT ![r] = Read(req[r], b)]
        BY <3>2 DEF BuiltinCopies
      <4>2. Read(req[r], b).pc = "copy" /\ Read(req[r], b).b = b
        BY <1>q DEF Read, ReqRecords
      <4>3. QED
        BY <1>f, <4>1, <4>2
    <3>3. QED
      BY <1>7, <3>1, <3>2
  <2>3. QED
    BY <1>6, <2>1, <2>2
<1>8. ASSUME NEW r \in Reqs, NEW b \in Bundles, req[r].pc = "copy", req[r].b = b,
             req'[r].pc # "copy", Others(r), UNCHANGED disk,
             short' \subseteq Bundles, records' \subseteq records \cup {b},
             bundle' = [bundle EXCEPT ![b] = bundle'[b]],
             \/ bundle' = Filled(b, Copiers(b) \ {r}) /\ short' \in {short, short \ {b}}
             \/ bundle'[b] = "partial" /\ short' = short \cup {b}
      PROVE  DiskInv'
  <2>1. CASE bundle'[b] = "partial" /\ short' = short \cup {b}
    <3>1. /\ bundle' \in [Bundles -> {"none", "partial", "whole", "rewritten"}]
          /\ \A c \in Bundles \ {b} : bundle'[c] = bundle[c]
      BY <1>8, <1>b, <2>1
    <3>2. \A c \in records' : bundle'[c] \in {"whole", "rewritten"} \/ c \in short'
      BY <1>8, <1>b, <1>r, <2>1, <3>1
    <3>3. ASSUME NEW c \in Bundles, bundle'[c] = "rewritten"
          PROVE  \E p \in Reqs : req'[p].pc = "copy" /\ req'[p].b = c
      <4>1. c # b
        BY <2>1, <3>3
      <4>2. PICK p \in Reqs : req[p].pc = "copy" /\ req[p].b = c
        BY <1>b, <3>1, <3>3, <4>1
      <4>3. QED
        BY <1>8, <4>1, <4>2 DEF Others
    <3>4. ASSUME NEW p \in Reqs, req'[p].pc = "copy"
          PROVE  bundle'[req'[p].b] \in {"partial", "rewritten"}
      <4>1. p # r /\ req[p].pc = "copy" /\ req'[p].b = req[p].b
        BY <1>8, <3>4 DEF Others
      <4>2. QED
        BY <1>b, <2>1, <3>1, <4>1
    <3>5. QED
      BY <1>5, <1>8, <3>1, <3>2, <3>3, <3>4
  <2>2. CASE bundle' = Filled(b, Copiers(b) \ {r}) /\ short' \in {short, short \ {b}}
    <3>1. /\ bundle' \in [Bundles -> {"none", "partial", "whole", "rewritten"}]
          /\ bundle'[b] = IF Copiers(b) \ {r} = {} THEN "whole" ELSE "rewritten"
          /\ \A c \in Bundles \ {b} : bundle'[c] = bundle[c]
      BY <1>b, <2>2 DEF Filled
    <3>2. \A c \in records' : bundle'[c] \in {"whole", "rewritten"} \/ c \in short'
      BY <1>8, <1>b, <1>r, <2>2, <3>1
    <3>3. ASSUME NEW c \in Bundles, bundle'[c] = "rewritten"
          PROVE  \E p \in Reqs : req'[p].pc = "copy" /\ req'[p].b = c
      <4>1. PICK p \in Reqs : req[p].pc = "copy" /\ req[p].b = c /\ p # r
        <5>1. CASE c = b
          BY <3>1, <3>3, <5>1 DEF Copiers
        <5>2. CASE c # b
          BY <1>8, <1>b, <3>1, <3>3, <5>2
        <5>3. QED
          BY <5>1, <5>2
      <4>2. QED
        BY <1>8, <4>1 DEF Others
    <3>4. ASSUME NEW p \in Reqs, req'[p].pc = "copy"
          PROVE  bundle'[req'[p].b] \in {"partial", "rewritten"}
      <4>1. p # r /\ req[p].pc = "copy" /\ req'[p].b = req[p].b
        BY <1>8, <3>4 DEF Others
      <4>2. req[p].b = b => p \in Copiers(b) \ {r}
        BY <4>1 DEF Copiers
      <4>3. QED
        BY <1>b, <3>1, <4>1, <4>2
    <3>5. QED
      BY <1>5, <1>8, <3>1, <3>2, <3>3, <3>4
  <2>3. QED
    BY <1>8, <2>1, <2>2
<1>9. ASSUME NEW r \in Reqs, CopyEnds(r) PROVE DiskInv'
  <2>1. PICK b \in Bundles : b = req[r].b
    BY <1>9 DEF CopyEnds, RequestTypeOK
  <2>2. /\ \/ bundle' = Filled(b, Copiers(b) \ {r}) /\ short' = short \ {b}
           \/ bundle[b] = "partial" /\ bundle' = bundle /\ short' = short \cup {b}
        /\ records' = RecordOf(b) /\ UNCHANGED disk /\ req[r].pc = "copy"
        /\ req' = [req EXCEPT ![r] = After(req[r])]
    BY <1>9, <2>1 DEF CopyEnds, Records
  <2>3. After(req[r]).pc # "copy"
    BY <1>q DEF After, ReqRecords
  <2>4. req'[r].pc # "copy" /\ Others(r)
    BY <1>f, <2>2, <2>3
  <2>5. records' \subseteq records \cup {b} /\ short' \subseteq Bundles
    BY <1>b, <2>2 DEF RecordOf
  <2>6. bundle' = [bundle EXCEPT ![b] = bundle'[b]]
    BY <1>b, <2>2 DEF Filled
  <2>7. QED
    BY <1>8, <2>1, <2>2, <2>4, <2>5, <2>6
<1>10. ASSUME NEW r \in Reqs, CopyThrows(r) PROVE DiskInv'
  <2>1. PICK b \in Bundles : b = req[r].b
    BY <1>10 DEF CopyThrows, RequestTypeOK
  <2>2. /\ \/ bundle' = Filled(b, Copiers(b) \ {r}) /\ short' = short
           \/ bundle' = [bundle EXCEPT ![b] = "partial"] /\ short' = short \cup {b}
        /\ UNCHANGED <<disk, records>> /\ req[r].pc = "copy" /\ req' = [req EXCEPT ![r] = NoReq]
    BY <1>10, <2>1 DEF CopyThrows, store
  <2>3. req'[r].pc # "copy" /\ Others(r)
    BY <1>f, <2>2, NoReqFields
  <2>4. records' \subseteq records \cup {b} /\ short' \subseteq Bundles
    BY <1>b, <2>2
  <2>5. bundle' = [bundle EXCEPT ![b] = bundle'[b]]
    BY <1>b, <2>2 DEF Filled
  <2>6. \/ bundle' = Filled(b, Copiers(b) \ {r}) /\ short' = short
        \/ bundle'[b] = "partial" /\ short' = short \cup {b}
    BY <1>b, <2>2
  <2>7. QED
    BY <1>8, <2>1, <2>2, <2>3, <2>4, <2>5, <2>6
<1>11. ASSUME NEW done, NEW cut, Restarts(done, cut), cut \subseteq Bundles,
              records' \subseteq records \cup done
       PROVE  DiskInv'
  <2>1. PICK B \in SUBSET cut :
            /\ bundle' = [b \in Bundles |->
                            IF b \in B THEN "partial"
                            ELSE IF b \in done \/ bundle[b] = "rewritten" THEN "whole"
                            ELSE bundle[b]]
            /\ short' = (short \ done) \cup B
    BY <1>11 DEF Restarts
  <2>2. UNCHANGED disk /\ req' = [p \in Reqs |-> NoReq]
    BY <1>11 DEF Restarts
  <2>3. \A p \in Reqs : req'[p].pc = "idle"
    BY <2>2, NoReqFields
  <2>4. /\ bundle' \in [Bundles -> {"none", "partial", "whole", "rewritten"}] /\ short' \subseteq Bundles
        /\ \A c \in Bundles : bundle'[c] # "rewritten"
    BY <1>11, <1>b, <2>1
  <2>5. ASSUME NEW c \in records' PROVE bundle'[c] \in {"whole", "rewritten"} \/ c \in short'
    BY <1>11, <1>b, <1>r, <2>1
  <2>6. QED
    BY <1>5, <2>2, <2>3, <2>4, <2>5
<1>x. ASSUME NEW Q, Q \subseteq Reqs PROVE Copying(Q) \subseteq Bundles
  BY <1>b, <1>x DEF Copying
<1>12. ASSUME \/ Crash
              \/ \E id \in Ids : CrashInRevoke(id)
              \/ \E r \in Reqs : CrashInRecords(r)
       PROVE  DiskInv'
  <2>1. CASE Crash \/ \E id \in Ids : CrashInRevoke(id)
    <3>1. Restarts({}, Copying(Reqs)) /\ records' \subseteq records
      BY <2>1 DEF Crash, CrashInRevoke, store
    <3>2. QED
      BY <1>11, <1>x, <3>1
  <2>2. CASE \E r \in Reqs : CrashInRecords(r)
    <3>1. PICK r \in Reqs : CrashInRecords(r)
      BY <2>2
    <3>2. PICK b \in Bundles : b = req[r].b
      BY <3>1 DEF CrashInRecords, RequestTypeOK
    <3> DEFINE cut == Copying(Reqs \ {r}) \cup (IF req[r].hit = "yes" THEN {b} ELSE {})
    <3>3. Restarts({b}, cut) /\ records' = RecordOf(b)
      BY <3>1, <3>2 DEF CrashInRecords
    <3>4. cut \subseteq Bundles /\ records' \subseteq records \cup {b}
      BY <1>x, <3>3 DEF RecordOf
    <3> HIDE DEF cut
    <3>5. QED
      BY <1>11, <3>3, <3>4
  <2>3. QED
    BY <1>12, <2>1, <2>2
<1>13. ASSUME NEW r \in Reqs,
              \/ \E B \in Listings : BuiltinsStart(r, B)
              \/ \E id \in Ids : Untrust(r, id)
              \/ BuiltinsFail(r) \/ PublishReads(r) \/ PublishWrites(r)
       PROVE  DiskInv'
  <2>1. UNCHANGED <<disk, bundle, short>> /\ records' \subseteq records
    BY <1>13 DEF BuiltinsStart, Untrust, Revoke, BuiltinsFail, PublishReads, PublishWrites, store
  <2>2. CASE \E B \in Listings : BuiltinsStart(r, B)
    <3>1. PICK B \in Listings : Starts(r, [NoReq EXCEPT !.pc = "builtins", !.todo = B])
      BY <2>2 DEF BuiltinsStart
    <3> DEFINE q == [NoReq EXCEPT !.pc = "builtins", !.todo = B]
    <3>2. q \in ReqRecords /\ q.pc = "builtins" /\ Starts(r, q)
      BY <3>1 DEF NoReq, ReqRecords, Listings
    <3> HIDE DEF q
    <3>3. QED
      BY <1>0, <1>g, <1>s, <2>1, <3>2
  <2>3. CASE \E id \in Ids : Untrust(r, id)
    <3> DEFINE q == [NoReq EXCEPT !.pc = "publish"]
    <3>1. q \in ReqRecords /\ q.pc = "publish" /\ Starts(r, q)
      BY <2>3 DEF NoReq, ReqRecords, Untrust
    <3> HIDE DEF q
    <3>2. QED
      BY <1>0, <1>g, <1>s, <2>1, <3>1
  <2>4. CASE BuiltinsFail(r) \/ PublishWrites(r)
    <3>1. req[r].pc # "copy" /\ req' = [req EXCEPT ![r] = NoReq]
      BY <2>4 DEF BuiltinsFail, PublishWrites
    <3>2. QED
      BY <1>0, <1>f, <1>g, <2>1, <3>1, NoReqFields
  <2>5. CASE PublishReads(r)
    <3>1. PICK R \in Readable :
              req' = [req EXCEPT ![r] = [req[r] EXCEPT !.pc = "write", !.snap = Composed(R)]]
      BY <2>5 DEF PublishReads
    <3>2. [req[r] EXCEPT !.pc = "write", !.snap = Composed(R)].pc = "write" /\ req[r].pc = "publish"
      BY <1>q, <2>5 DEF ReqRecords, PublishReads
    <3>3. QED
      BY <1>0, <1>f, <1>g, <2>1, <3>1, <3>2
  <2>6. QED
    BY <1>13, <2>2, <2>3, <2>4, <2>5
<1>14. CASE (\E id \in Ids, spec \in Specs : PlanRun(id, spec)) \/ ValidateRun \/ ExecuteRun
  <2>1. UNCHANGED <<disk, bundle, short, records, req>>
    BY <1>14 DEF PlanRun, ValidateRun, ExecuteRun, store
  <2>2. QED
    BY <1>0, <1>e, <2>1
<1>15. CASE UNCHANGED vars
  <2>1. UNCHANGED <<disk, bundle, short, records, req>>
    BY <1>15 DEF vars, store
  <2>2. QED
    BY <1>0, <1>e, <2>1
<1>16. CASE Next
  <2>1. ASSUME NEW r \in Reqs,
               \/ \E b \in Bundles : TrustStarts(r, b) \/ BuiltinCopies(r, b)
               \/ \E B \in Listings : BuiltinsStart(r, B)
               \/ \E id \in Ids : Untrust(r, id)
               \/ BuiltinsFail(r) \/ CopyThrows(r) \/ CopyEnds(r)
               \/ PublishReads(r) \/ PublishWrites(r) \/ CrashInRecords(r)
        PROVE  DiskInv'
    BY <2>1, <1>7, <1>9, <1>10, <1>12, <1>13
  <2>2. ASSUME NEW u \in Uploads,
               (\E b \in Bundles : UploadExtracted(u, b)) \/ UploadRemovesOld(u) \/ UploadRenames(u)
        PROVE  DiskInv'
    BY <2>2, <1>2, <1>3, <1>4
  <2>3. QED
    BY <1>12, <1>14, <1>16, <2>1, <2>2 DEF Next
<1>17. QED
  BY <1>15, <1>16

CountTypeOK == count \in [up : 0..MaxUploads, req : 0..MaxRequests, trouble : 0..MaxTrouble]

(* The counters stay within their bounds.                                  *)
LEMMA CountStep ==
    ASSUME CountTypeOK, [Next]_vars
    PROVE  CountTypeOK'
<1>1. \/ Once("up", MaxUploads) \/ Once("req", MaxRequests) \/ Once("trouble", MaxTrouble)
      \/ count' = count
  BY DEF Next, vars, UploadExtracted, UploadRemovesOld, UploadRenames, TrustStarts, Starts,
         BuiltinCopies, BuiltinsStart, Untrust, BuiltinsFail, CopyThrows, CopyEnds, PublishReads,
         PublishWrites, CrashInRecords, Crash, CrashInRevoke, Restarts, PlanRun, ValidateRun,
         ExecuteRun
<1>2. QED
  BY <1>1, TrustAssumption DEF Once, CountTypeOK

-----------------------------------------------------------------------------
(* The theorems about trust.                                               *)

TrustInv == StoreInv /\ DiskInv /\ RequestTypeOK /\ SchemaIInv /\ CountTypeOK

(* Nothing is staged, trusted or under way.                                *)
LEMMA TrustInitWell == Init => TrustInv
<1> SUFFICES ASSUME Init PROVE TrustInv
  OBVIOUS
<1>1. NoUpload \in UploadRecords /\ NoUpload.pc = "none"
  BY DEF NoUpload, UploadRecords
<1>2. NoRun \in RunRecords /\ NoRun.pc = "idle"
  BY DEF NoRun, RunRecords
<1>3. Caps({}) = {} /\ records = {} /\ torn = {}
  BY DEF Init, Caps
<1>4. StoreInv
  BY <1>3 DEF Init, StoreInv, StoreTypeOK, GrantsWithin, GrantsExact
<1>6. \A r \in Reqs : req[r] = NoReq
  BY DEF Init
<1>5. DiskInv
  BY <1>1, <1>6, NoReqFields DEF Init, DiskInv, DiskTypeOK, BundleIInv
<1>7. RequestTypeOK
  BY <1>2, <1>6, NoReqFields, ComposedType DEF Init, RequestTypeOK
<1>8. \E R \in Firm : schema = Composed(R)
  BY <1>3 DEF Init, Firm
<1>9. SchemaIInv
  BY <1>6, <1>8, NoReqFields DEF SchemaIInv
<1>10. CountTypeOK
  BY TrustAssumption DEF Init, CountTypeOK
<1>11. QED
  BY <1>4, <1>5, <1>7, <1>9, <1>10 DEF TrustInv

(* The invariant of uploads, admin requests and restarts.                  *)
LEMMA TrustInvariant == Spec => []TrustInv
<1>1. TrustInv /\ [Next]_vars => TrustInv'
  <2> SUFFICES ASSUME TrustInv, [Next]_vars PROVE TrustInv'
    OBVIOUS
  <2>1. /\ StoreInv /\ DiskInv /\ RequestTypeOK /\ SchemaIInv /\ CountTypeOK
        /\ StoreTypeOK /\ DiskTypeOK
    BY DEF TrustInv, StoreInv, DiskInv
  <2>2. StoreInv' /\ StoreTypeOK'
    BY <2>1, StoreStep DEF StoreInv
  <2>3. DiskInv'
    BY <2>1, <2>2, DiskStep
  <2>4. RequestTypeOK' /\ SchemaIInv'
    BY <2>1, <2>2, RequestsStep
  <2>5. CountTypeOK'
    BY <2>1, CountStep
  <2>6. QED
    BY <2>2, <2>3, <2>4, <2>5 DEF TrustInv
<1>2. QED
  BY TrustInitWell, <1>1, PTL DEF Spec

(* Whatever uploads, requests and restarts overlap: a recorded bundle's    *)
(* directory is whole but while it is copied again, unless a copy that was *)
(* disturbed, threw or was cut by a crash left it short; and the published *)
(* schema is that of the trusted set whenever nothing is under way and no  *)
(* request overlapped another or failed half way.                          *)
THEOREM RequestsLeaveOrder == Spec => []Inv
<1>1. TrustInv => Inv
  <2> SUFFICES ASSUME TrustInv PROVE Inv
    OBVIOUS
  <2>1. TypeOK
    BY DEF TrustInv, StoreInv, DiskInv, CountTypeOK, TypeOK
  <2>2. RecordedIsWhole
    BY DEF TrustInv, StoreInv, StoreTypeOK, DiskInv, BundleIInv, RecordedIsWhole
  <2>3. Firm \subseteq Readable
    BY DEF Firm, Readable
  <2>4. SchemaCurrent
    BY <2>3 DEF TrustInv, SchemaIInv, SchemaCurrent, SchemaFits
  <2>5. QED
    BY <2>1, <2>2, <2>4 DEF Inv
<1>2. QED
  BY <1>1, TrustInvariant, PTL

(* A plugin's live grants are exactly the capabilities of what was trusted *)
(* under its id since it was last untrusted, and none without a record, for *)
(* any bundles, requests and restarts, save a crash between two writes.    *)
THEOREM GrantsAreExact == Spec => []GrantsExact
<1>1. TrustInv => GrantsExact
  BY DEF TrustInv, StoreInv
<1>2. QED
  BY <1>1, TrustInvariant, PTL

(* What VALIDATE lets through, it lets through by capabilities that trusted *)
(* content declared and no untrust took back, crashes between the writes   *)
(* of a request included.                                                  *)
THEOREM ValidatesByContent == Spec => ValidatedByContent
<1>1. TrustInv /\ [Next]_vars => [ValidationIsByContent]_vars
  <2> SUFFICES ASSUME TrustInv, Next, run.pc = "planned", run'.pc = "validated"
               PROVE  Violations(run.spec, Caps(given[run.id])) = {}
    BY DEF ValidationIsByContent
  <2>1. NoRun.pc = "idle"
    BY DEF NoRun
  <2>2. ValidateRun
    <3>1. run' # run /\ run' # NoRun
      BY <2>1
    <3>2. ASSUME NEW id \in Ids, NEW spec \in Specs PROVE ~PlanRun(id, spec)
      BY DEF PlanRun
    <3>3. ASSUME NEW r \in Reqs PROVE ~CrashInRecords(r)
      BY <3>1 DEF CrashInRecords, Restarts
    <3>4. (\A done, cut : ~Restarts(done, cut)) /\ ~ExecuteRun
      BY <3>1 DEF Restarts, ExecuteRun
    <3>5. QED
      BY <3>1, <3>2, <3>3, <3>4
      DEF Next, UploadExtracted, UploadRemovesOld, UploadRenames, TrustStarts, BuiltinCopies,
          BuiltinsStart, Untrust, BuiltinsFail, CopyThrows, CopyEnds, PublishReads,
          PublishWrites, Crash, CrashInRevoke
  <2>3. Violations(run.spec, grants[run.id]) = {}
    BY <2>1, <2>2 DEF ValidateRun
  <2>4. grants[run.id] \subseteq Caps(given[run.id])
    BY DEF TrustInv, StoreInv, GrantsWithin, RequestTypeOK
  <2>5. ASSUME NEW cap, NEW value, HasGrant(grants[run.id], cap, value)
        PROVE  HasGrant(Caps(given[run.id]), cap, value)
    BY <2>4, <2>5 DEF HasGrant
  <2>6. QED
    BY <2>3, <2>5 DEF Violations
<1>2. QED
  BY <1>1, TrustInvariant, PTL DEF Spec, ValidatedByContent

-----------------------------------------------------------------------------
(* The setup wizard.                                                       *)

WizardInv == WizardTypeOK /\ WizardIInv

(* The fields of a terminal without a wizard.                              *)
LEMMA IdleWizardFields ==
    IdleWizard \in WizardRecords /\ IdleWizard.pc = "idle"
BY FirstRunAssumption DEF IdleWizard, WizardRecords

(* A step of one wizard: the others see that nothing done is undone, and   *)
(* one that is alone has no others.                                        *)
LEMMA WizardMoves ==
    ASSUME WizardInv, WizardTypeOK', NEW t \in Terminals, wizard[t].pc # "idle",
           \A u \in Terminals \ {t} : wizard'[u] = wizard[u],
           trusted = "all" => trusted' = "all",
           \A s \in 1..Secrets : secret[s] # 0 => secret'[s] # 0,
           framework # 0 => framework' # 0,
           TokenMeansReady', HasDone(t)',
           wizard'[t].pc # "idle" /\ wizard'[t].alone = "yes" =>
              /\ wizard[t].alone = "yes"
              /\ wizard'[t].pc = "secrets" =>
                    \A s \in 1..wizard'[t].k : secret'[s] = wizard'[t].run
              /\ wizard'[t].pc \in PastSecrets =>
                    \A s \in 1..Secrets : secret'[s] = wizard'[t].run
              /\ wizard'[t].pc \in PastFramework => framework' = wizard'[t].run
              /\ wizard'[t].pc = "info" => token'.id = wizard'[t].run
    PROVE  WizardInv'
<1>1. \A u \in Terminals : HasDone(u) /\ HasLeftOwn(u)
  BY DEF WizardInv, WizardIInv
<1>2. ASSUME NEW u \in Terminals \ {t} PROVE HasDone(u)'
  <2>1. HasDone(u) /\ wizard'[u] = wizard[u]
    BY <1>1
  <2>2. wizard[u].pc = "secrets" => \A s \in 1..wizard[u].k : s \in 1..Secrets
    <3>1. wizard[u] \in WizardRecords
      BY DEF WizardInv, WizardTypeOK
    <3>2. wizard[u].k \in 0..(Secrets + MaxPolls)
      BY <3>1 DEF WizardRecords
    <3>3. Secrets \in Nat /\ MaxPolls \in Nat
      BY FirstRunAssumption
    <3>4. wizard[u].pc = "secrets" => wizard[u].k < Secrets
      BY <2>1 DEF HasDone
    <3>5. QED
      BY <3>2, <3>3, <3>4
  <2>3. QED
    BY <2>1, <2>2 DEF HasDone
<1>3. ASSUME NEW u \in Terminals \ {t} PROVE HasLeftOwn(u)'
  <2>1. ~(wizard[u].alone = "yes" /\ wizard[u].pc # "idle")
    BY <1>1 DEF HasLeftOwn
  <2>2. QED
    BY <2>1 DEF HasLeftOwn
<1>4. HasLeftOwn(t)'
  <2>1. wizard[t].alone = "yes" => \A u \in Terminals \ {t} : wizard[u].pc = "idle"
    BY <1>1 DEF HasLeftOwn
  <2>2. QED
    BY <2>1 DEF HasLeftOwn
<1>5. QED
  BY <1>2, <1>3, <1>4 DEF WizardInv, WizardIInv

(* What a wizard is, field by field.                                       *)
LEMMA WizardFields ==
    ASSUME WizardInv, NEW t \in Terminals
    PROVE  /\ wizard[t] \in WizardRecords
           /\ wizard[t].run \in 0..MaxRuns /\ wizard[t].k \in 0..(Secrets + MaxPolls)
           /\ wizard[t].alone \in {"yes", "no"}
           /\ HasDone(t) /\ HasLeftOwn(t)
<1>1. wizard[t] \in WizardRecords
  BY DEF WizardInv, WizardTypeOK
<1>2. QED
  BY <1>1 DEF WizardInv, WizardIInv, WizardRecords

(* The wizard that goes on to its next step.                               *)
LEMMA GoesFields ==
    ASSUME WizardInv, NEW t \in Terminals,
           NEW pc \in {"secrets", "framework", "wait", "token", "info"}, Goes(t, pc)
    PROVE  /\ wizard' \in [Terminals -> WizardRecords]
           /\ wizard'[t].pc = pc /\ wizard'[t].k = 0
           /\ wizard'[t].run = wizard[t].run /\ wizard'[t].alone = wizard[t].alone
           /\ \A u \in Terminals \ {t} : wizard'[u] = wizard[u]
<1>1. wizard[t] \in WizardRecords /\ wizard \in [Terminals -> WizardRecords]
  BY DEF WizardInv, WizardTypeOK
<1>2. wizard' = [wizard EXCEPT ![t] = [wizard[t] EXCEPT !.pc = pc, !.k = 0]]
  BY <1>1 DEF Goes, WizardRecords
<1>3. [wizard[t] EXCEPT !.pc = pc, !.k = 0] \in WizardRecords
  <2>1. 0 \in 0..(Secrets + MaxPolls)
    BY FirstRunAssumption
  <2>2. QED
    BY <1>1, <2>1 DEF WizardRecords
<1>4. QED
  BY <1>1, <1>2, <1>3 DEF WizardRecords

(* The wizard that repeats its step with the next counter.                 *)
LEMMA CountsFields ==
    ASSUME WizardInv, NEW t \in Terminals, NEW k \in 0..(Secrets + MaxPolls),
           wizard' = [wizard EXCEPT ![t].k = k]
    PROVE  /\ wizard' \in [Terminals -> WizardRecords]
           /\ wizard'[t].pc = wizard[t].pc /\ wizard'[t].k = k
           /\ wizard'[t].run = wizard[t].run /\ wizard'[t].alone = wizard[t].alone
           /\ \A u \in Terminals \ {t} : wizard'[u] = wizard[u]
<1>1. wizard[t] \in WizardRecords /\ wizard \in [Terminals -> WizardRecords]
  BY DEF WizardInv, WizardTypeOK
<1>2. wizard' = [wizard EXCEPT ![t] = [wizard[t] EXCEPT !.k = k]]
  BY <1>1 DEF WizardRecords
<1>3. [wizard[t] EXCEPT !.k = k] \in WizardRecords
  BY <1>1 DEF WizardRecords
<1>4. QED
  BY <1>1, <1>2, <1>3 DEF WizardRecords

(* A terminal whose wizard ended.                                          *)
LEMMA EndsFields ==
    ASSUME WizardInv, NEW t \in Terminals, Ends(t)
    PROVE  /\ wizard' \in [Terminals -> WizardRecords]
           /\ wizard'[t].pc = "idle" /\ HasDone(t)'
           /\ \A u \in Terminals \ {t} : wizard'[u] = wizard[u]
<1>1. wizard \in [Terminals -> WizardRecords]
  BY DEF WizardInv, WizardTypeOK
<1>2. /\ wizard' \in [Terminals -> WizardRecords] /\ wizard'[t] = IdleWizard
      /\ \A u \in Terminals \ {t} : wizard'[u] = wizard[u]
  BY <1>1, IdleWizardFields DEF Ends
<1>3. QED
  BY <1>2, IdleWizardFields DEF HasDone, PastSecrets, PastFramework

(* POST /plugins/trust-builtins.                                           *)
LEMMA TrustsWizard ==
    ASSUME WizardInv, NEW t \in Terminals, Trusts(t), UNCHANGED token
    PROVE  WizardInv'
<1>1. wizard[t].pc = "trust" /\ UNCHANGED <<runs, secret, framework, token>>
  BY DEF Trusts, At
<1>2. trusted' \in {"none", "some", "all"} /\ (trusted = "all" => trusted' = "all")
  BY DEF Trusts
<1>3. TokenMeansReady'
  BY <1>1, <1>2 DEF WizardInv, WizardIInv, TokenMeansReady
<1>4. CASE Ends(t)
  <2>1. WizardTypeOK'
    BY <1>1, <1>2, <1>4, EndsFields DEF WizardInv, WizardTypeOK
  <2>2. QED
    BY <1>1, <1>2, <1>3, <1>4, <2>1, EndsFields, WizardMoves
<1>5. CASE trusted' = "all" /\ Goes(t, "secrets")
  <2>1. WizardTypeOK'
    BY <1>1, <1>2, <1>5, GoesFields DEF WizardInv, WizardTypeOK
  <2>2. /\ wizard'[t].pc = "secrets" /\ wizard'[t].k = 0 /\ wizard'[t].run = wizard[t].run
        /\ wizard'[t].alone = wizard[t].alone
        /\ \A u \in Terminals \ {t} : wizard'[u] = wizard[u]
    BY <1>5, GoesFields
  <2>3. HasDone(t)'
    BY <1>1, <1>5, <2>2, WizardFields, FirstRunAssumption
    DEF HasDone, PastSecrets, PastFramework
  <2>4. \A s \in 1..wizard'[t].k : secret'[s] = wizard'[t].run
    BY <2>2
  <2>5. QED
    BY <1>1, <1>2, <1>3, <2>1, <2>2, <2>3, <2>4, WizardMoves DEF PastSecrets, PastFramework
<1>6. QED
  BY <1>4, <1>5 DEF Trusts

(* POST /secrets: the next credential becomes the run's.                   *)
LEMMA StoresWizard ==
    ASSUME WizardInv, NEW t \in Terminals, Stores(t), UNCHANGED token
    PROVE  WizardInv'
<1> DEFINE k == wizard[t].k + 1
           n == wizard[t].run
<1>1. wizard[t].pc = "secrets" /\ UNCHANGED <<runs, trusted, framework, token>>
  BY DEF Stores, At
<1>2. /\ k \in 1..Secrets /\ k \in 0..(Secrets + MaxPolls) /\ n \in 1..MaxRuns
      /\ \A s \in 1..(k - 1) : secret[s] # 0
      /\ trusted = "all"
      /\ secret \in [1..Secrets -> 0..MaxRuns]
  <2>1. Secrets \in Nat /\ MaxPolls \in Nat /\ MaxRuns \in Nat
    BY FirstRunAssumption
  <2>2. wizard[t].k \in 0..(Secrets + MaxPolls) /\ n \in 0..MaxRuns /\ HasDone(t)
    BY WizardFields
  <2>3. wizard[t].k < Secrets /\ n # 0 /\ trusted = "all"
        /\ \A s \in 1..wizard[t].k : secret[s] # 0
    BY <1>1, <2>2 DEF HasDone
  <2>4. QED
    BY <2>1, <2>2, <2>3 DEF WizardInv, WizardTypeOK
<1>3. CASE Refused(t) /\ UNCHANGED secret
  <2>1. Ends(t)
    BY <1>3 DEF Refused
  <2>2. WizardTypeOK' /\ TokenMeansReady'
    BY <1>1, <1>3, <2>1, EndsFields
    DEF WizardInv, WizardIInv, WizardTypeOK, TokenMeansReady
  <2>3. QED
    BY <1>1, <1>3, <2>1, <2>2, EndsFields, WizardMoves
<1>4. ASSUME PutSecret(k, n)
      PROVE  /\ secret' \in [1..Secrets -> 0..MaxRuns] /\ secret'[k] = n
             /\ \A s \in 1..Secrets : secret[s] # 0 => secret'[s] # 0
             /\ \A s \in 1..Secrets : s # k => secret'[s] = secret[s]
             /\ TokenMeansReady'
  <2>1. secret' = [secret EXCEPT ![k] = n]
    BY <1>4 DEF PutSecret
  <2> HIDE DEF k, n
  <2>2. n # 0 /\ n \in 0..MaxRuns
    BY <1>2, FirstRunAssumption
  <2>3. /\ secret' \in [1..Secrets -> 0..MaxRuns] /\ secret'[k] = n
        /\ \A s \in 1..Secrets : secret[s] # 0 => secret'[s] # 0
        /\ \A s \in 1..Secrets : s # k => secret'[s] = secret[s]
    BY <1>2, <2>1, <2>2
  <2>4. QED
    BY <1>1, <2>3 DEF WizardInv, WizardIInv, TokenMeansReady
<1>5. CASE PutSecret(k, n) /\ Ends(t)
  <2>1. WizardTypeOK'
    BY <1>1, <1>4, <1>5, EndsFields DEF WizardInv, WizardTypeOK
  <2>2. QED
    BY <1>1, <1>4, <1>5, <2>1, EndsFields, WizardMoves
<1>6. wizard[t].alone = "yes" => \A s \in 1..(k - 1) : secret[s] = n
  <2>1. HasLeftOwn(t) /\ wizard[t].k \in Int
    BY WizardFields, FirstRunAssumption
  <2>2. QED
    BY <1>1, <2>1 DEF HasLeftOwn
<1>7. CASE PutSecret(k, n) /\ k # Secrets /\ wizard' = [wizard EXCEPT ![t].k = k]
  <2> HIDE DEF k
  <2>1. /\ wizard' \in [Terminals -> WizardRecords]
        /\ wizard'[t].pc = "secrets" /\ wizard'[t].k = k /\ wizard'[t].run = n
        /\ wizard'[t].alone = wizard[t].alone
        /\ \A u \in Terminals \ {t} : wizard'[u] = wizard[u]
    BY <1>1, <1>2, <1>7, CountsFields
  <2> HIDE DEF n
  <2>2. WizardTypeOK'
    BY <1>1, <1>4, <1>7, <2>1 DEF WizardInv, WizardTypeOK
  <2>3. \A s \in 1..k : s # k => s \in 1..(k - 1) /\ s \in 1..Secrets
    BY <1>2, FirstRunAssumption
  <2>4. \A s \in 1..k : secret'[s] # 0 /\ (wizard[t].alone = "yes" => secret'[s] = n)
    BY <1>2, <1>4, <1>6, <1>7, <2>3, FirstRunAssumption
  <2>5. k < Secrets /\ n # 0
    BY <1>2, <1>7, FirstRunAssumption
  <2>6. HasDone(t)'
    BY <1>1, <1>2, <2>1, <2>4, <2>5 DEF HasDone, PastSecrets, PastFramework
  <2>7. QED
    BY <1>1, <1>4, <1>7, <2>1, <2>2, <2>4, <2>6, WizardMoves DEF PastSecrets, PastFramework
<1>8. CASE PutSecret(k, n) /\ k = Secrets /\ Goes(t, "framework")
  <2>1. /\ wizard' \in [Terminals -> WizardRecords]
        /\ wizard'[t].pc = "framework" /\ wizard'[t].k = 0 /\ wizard'[t].run = n
        /\ wizard'[t].alone = wizard[t].alone
        /\ \A u \in Terminals \ {t} : wizard'[u] = wizard[u]
    BY <1>8, GoesFields
  <2> HIDE DEF k, n
  <2>2. WizardTypeOK'
    BY <1>1, <1>4, <1>8, <2>1 DEF WizardInv, WizardTypeOK
  <2>3. \A s \in 1..Secrets : s # k => s \in 1..(k - 1)
    BY <1>2, <1>8, FirstRunAssumption
  <2>4. \A s \in 1..Secrets : secret'[s] # 0 /\ (wizard[t].alone = "yes" => secret'[s] = n)
    BY <1>2, <1>4, <1>6, <1>8, <2>3, FirstRunAssumption
  <2>5. n # 0
    BY <1>2, FirstRunAssumption
  <2>6. HasDone(t)'
    BY <1>1, <1>2, <2>1, <2>4, <2>5 DEF HasDone, PastSecrets, PastFramework
  <2>7. QED
    BY <1>1, <1>4, <1>8, <2>1, <2>2, <2>4, <2>6, WizardMoves DEF PastSecrets, PastFramework
<1>9. QED
  BY <1>3, <1>5, <1>7, <1>8 DEF Stores

(* A wizard past its credentials goes on, or repeats its poll, and leaves  *)
(* them as they are.                                                       *)
LEMMA GoesOnWizard ==
    ASSUME WizardInv, NEW t \in Terminals, wizard[t].pc \in PastSecrets \ {"info"},
           wizard' \in [Terminals -> WizardRecords],
           wizard'[t].pc \in {"wait", "token", "info"},
           wizard'[t].pc = "wait" => wizard'[t].k < MaxPolls,
           wizard'[t].run = wizard[t].run, wizard'[t].alone = wizard[t].alone,
           \A u \in Terminals \ {t} : wizard'[u] = wizard[u],
           framework' \in 0..MaxRuns, framework' # 0,
           \/ framework' = wizard[t].run
           \/ framework' = framework /\ wizard[t].pc \in PastFramework,
           token' \in [id : 0..MaxRuns, at : 0..MaxTime],
           token' = token \/ token'.id = wizard[t].run,
           wizard'[t].pc = "info" => token'.id = wizard[t].run,
           UNCHANGED <<runs, trusted, secret>>
    PROVE  WizardInv'
<1>1. HasDone(t) /\ HasLeftOwn(t)
  BY WizardFields
<1>2. /\ trusted = "all" /\ \A s \in 1..Secrets : secret[s] # 0
      /\ wizard[t].pc \notin {"idle", "trust", "secrets"} /\ wizard[t].run # 0
  BY <1>1 DEF HasDone, PastSecrets
<1>3. WizardTypeOK' /\ TokenMeansReady'
  BY <1>2 DEF WizardInv, WizardIInv, WizardTypeOK, TokenMeansReady
<1>4. HasDone(t)'
  BY <1>2 DEF HasDone, PastSecrets, PastFramework
<1>5. wizard[t].alone = "yes" =>
         (\A s \in 1..Secrets : secret[s] = wizard[t].run) /\ framework' = wizard[t].run
  BY <1>1, <1>2 DEF HasLeftOwn, PastSecrets
<1>6. QED
  BY <1>2, <1>3, <1>4, <1>5, WizardMoves

(* A wizard that ends, killed or not, with nothing undone.                 *)
LEMMA EndsWizard ==
    ASSUME WizardInv, NEW t \in Terminals, wizard[t].pc # "idle", Ends(t),
           framework' \in 0..MaxRuns, framework # 0 => framework' # 0,
           UNCHANGED <<runs, trusted, secret, token>>
    PROVE  WizardInv'
<1>1. WizardTypeOK' /\ TokenMeansReady'
  BY EndsFields DEF WizardInv, WizardIInv, WizardTypeOK, TokenMeansReady
<1>2. QED
  BY <1>1, EndsFields, WizardMoves

(* POST /framework.                                                        *)
LEMMA WritesFrameworkWizard ==
    ASSUME WizardInv, NEW t \in Terminals, WritesFramework(t), UNCHANGED token
    PROVE  WizardInv'
<1>1. wizard[t].pc = "framework" /\ UNCHANGED <<runs, trusted, secret, token>>
  BY DEF WritesFramework, At
<1>2. wizard[t].run \in 0..MaxRuns /\ wizard[t].run # 0
  BY <1>1, WizardFields DEF HasDone
<1>3. framework \in 0..MaxRuns /\ token \in [id : 0..MaxRuns, at : 0..MaxTime]
  BY DEF WizardInv, WizardTypeOK
<1>4. CASE framework' = wizard[t].run /\ Goes(t, "wait")
  <2>1. 0 < MaxPolls
    BY FirstRunAssumption
  <2>2. QED
    BY <1>1, <1>2, <1>3, <1>4, <2>1, GoesFields, GoesOnWizard DEF PastSecrets, PastFramework
<1>5. CASE framework' = wizard[t].run /\ Ends(t)
  BY <1>1, <1>2, <1>5, EndsWizard
<1>6. CASE Refused(t) /\ UNCHANGED framework
  BY <1>1, <1>3, <1>6, EndsWizard DEF Refused
<1>7. QED
  BY <1>4, <1>5, <1>6 DEF WritesFramework

(* GET /status.                                                            *)
LEMMA PollsWizard ==
    ASSUME WizardInv, NEW t \in Terminals, Polls(t), UNCHANGED token
    PROVE  WizardInv'
<1>1. wizard[t].pc = "wait" /\ UNCHANGED <<runs, trusted, secret, framework, token>>
  BY DEF Polls, At
<1>2. framework # 0 /\ framework \in 0..MaxRuns
  BY <1>1, WizardFields DEF HasDone, PastFramework, WizardInv, WizardTypeOK
<1>3. token \in [id : 0..MaxRuns, at : 0..MaxTime]
  BY DEF WizardInv, WizardTypeOK
<1>4. CASE Goes(t, "token")
  BY <1>1, <1>2, <1>3, <1>4, GoesFields, GoesOnWizard DEF PastSecrets, PastFramework
<1>5. ASSUME wizard[t].k + 1 < MaxPolls, wizard' = [wizard EXCEPT ![t].k = wizard[t].k + 1]
      PROVE  WizardInv'
  <2>1. wizard[t].k \in 0..(Secrets + MaxPolls) /\ Secrets \in Nat /\ MaxPolls \in Nat
    BY WizardFields, FirstRunAssumption
  <2>2. wizard[t].k + 1 \in 0..(Secrets + MaxPolls)
    BY <1>5, <2>1
  <2>3. /\ wizard' \in [Terminals -> WizardRecords]
        /\ wizard'[t].pc = wizard[t].pc /\ wizard'[t].k = wizard[t].k + 1
        /\ wizard'[t].run = wizard[t].run /\ wizard'[t].alone = wizard[t].alone
        /\ \A u \in Terminals \ {t} : wizard'[u] = wizard[u]
    <3>1. PICK k \in 0..(Secrets + MaxPolls) : k = wizard[t].k + 1
      BY <2>2
    <3>2. wizard' = [wizard EXCEPT ![t].k = k]
      BY <1>5, <3>1
    <3>3. QED
      BY <3>1, <3>2, CountsFields
  <2>4. QED
    BY <1>1, <1>2, <1>3, <1>5, <2>3, GoesOnWizard DEF PastSecrets, PastFramework
<1>6. CASE Ends(t)
  BY <1>1, <1>2, <1>6, EndsWizard
<1>7. QED
  BY <1>4, <1>5, <1>6 DEF Polls

(* The token is written only by a wizard that has done everything else.    *)
LEMMA IssuesTokenWizard ==
    ASSUME WizardInv, now \in 0..MaxTime, NEW t \in Terminals, IssuesToken(t)
    PROVE  WizardInv'
<1>1. /\ wizard[t].pc = "token" /\ UNCHANGED <<runs, trusted, secret, framework>>
      /\ token' = [id |-> wizard[t].run, at |-> now] /\ Goes(t, "info")
  BY DEF IssuesToken, At
<1>2. framework # 0 /\ framework \in 0..MaxRuns
  BY <1>1, WizardFields DEF HasDone, PastFramework, WizardInv, WizardTypeOK
<1>3. token' \in [id : 0..MaxRuns, at : 0..MaxTime] /\ token'.id = wizard[t].run
  BY <1>1, WizardFields
<1>4. QED
  BY <1>1, <1>2, <1>3, GoesFields, GoesOnWizard DEF PastSecrets, PastFramework

(* A new run: nothing is done, and whoever else runs is no longer alone.   *)
LEMMA InitStartsWizard ==
    ASSUME WizardInv, NEW t \in Terminals, InitStarts(t), UNCHANGED token
    PROVE  WizardInv'
<1> DEFINE others == {u \in Terminals \ {t} : ~At(u, "idle")}
           fresh == [pc |-> "trust", run |-> runs + 1, k |-> 0,
                     alone |-> IF others = {} THEN "yes" ELSE "no"]
<1>1. /\ wizard[t].pc = "idle" /\ runs < MaxRuns /\ runs' = runs + 1
      /\ UNCHANGED <<trusted, secret, framework, token>>
      /\ wizard' = [u \in Terminals |->
            IF u = t THEN fresh
            ELSE IF u \in others THEN [wizard[u] EXCEPT !.alone = "no"] ELSE wizard[u]]
  BY DEF InitStarts, At
<1>2. runs \in 0..MaxRuns /\ MaxRuns \in Nat /\ 0 \in 0..(Secrets + MaxPolls)
  BY FirstRunAssumption DEF WizardInv, WizardTypeOK
<1>3. runs + 1 \in 0..MaxRuns /\ runs + 1 # 0
  BY <1>1, <1>2
<1>4. /\ fresh \in WizardRecords /\ fresh.pc = "trust" /\ fresh.run # 0
      /\ (fresh.alone = "yes" => others = {})
  BY <1>2, <1>3 DEF WizardRecords
<1>5. ASSUME NEW u \in Terminals \ {t}
      PROVE  /\ wizard'[u] \in WizardRecords /\ wizard'[u].pc = wizard[u].pc
             /\ wizard'[u].run = wizard[u].run /\ wizard'[u].k = wizard[u].k
             /\ (wizard'[u].alone = "yes" => wizard[u].pc = "idle")
  <2>1. wizard[u] \in WizardRecords
    BY WizardFields
  <2>2. CASE u \in others
    BY <1>1, <2>1, <2>2 DEF WizardRecords
  <2>3. CASE u \notin others
    BY <1>1, <2>1, <2>3 DEF At
  <2>4. QED
    BY <2>2, <2>3
<1>6. wizard'[t] = fresh
  BY <1>1
<1> HIDE DEF fresh
<1>7. wizard' \in [Terminals -> WizardRecords]
  BY <1>1, <1>4, <1>5, <1>6
<1>8. WizardTypeOK' /\ TokenMeansReady'
  BY <1>1, <1>3, <1>7 DEF WizardInv, WizardIInv, WizardTypeOK, TokenMeansReady
<1>9. ASSUME NEW u \in Terminals PROVE HasDone(u)' /\ HasLeftOwn(u)'
  <2>1. CASE u = t
    <3>1. wizard'[t].alone = "yes" => \A v \in Terminals \ {t} : wizard'[v].pc = "idle"
      BY <1>4, <1>5, <1>6 DEF At
    <3>2. QED
      BY <1>4, <1>6, <2>1, <3>1 DEF HasDone, HasLeftOwn, PastSecrets, PastFramework
  <2>2. CASE u # t
    <3>1. HasDone(u)
      BY WizardFields
    <3>2. QED
      BY <1>1, <1>5, <2>2, <3>1 DEF HasDone, HasLeftOwn
  <2>3. QED
    BY <2>1, <2>2
<1>10. QED
  BY <1>8, <1>9 DEF WizardInv, WizardIInv

(* A step that is none of a wizard's leaves the wizards' invariant alone.  *)
LEMMA WizardsUntouched ==
    ASSUME WizardInv, UNCHANGED <<wizardVars, token>> PROVE WizardInv'
BY DEF WizardInv, WizardTypeOK, WizardIInv, TokenMeansReady, HasDone, HasLeftOwn, wizardVars

(* Every step preserves it.                                                *)
LEMMA WizardsNext ==
    ASSUME WizardInv, now \in 0..MaxTime, [FirstRunNext]_firstRunVars PROVE WizardInv'
<1>1. ASSUME NEW t \in Terminals, WizardStep(t) PROVE WizardInv'
  <2>1. CASE UNCHANGED token /\ Trusts(t)
    BY <2>1, TrustsWizard
  <2>2. CASE UNCHANGED token /\ Stores(t)
    BY <2>2, StoresWizard
  <2>3. CASE UNCHANGED token /\ WritesFramework(t)
    BY <2>3, WritesFrameworkWizard
  <2>4. CASE UNCHANGED token /\ Polls(t)
    BY <2>4, PollsWizard
  <2>5. CASE UNCHANGED token /\ SendsInfo(t)
    BY <2>5, EndsWizard DEF SendsInfo, At, WizardInv, WizardTypeOK
  <2>6. CASE IssuesToken(t)
    BY <2>6, IssuesTokenWizard
  <2>7. QED
    BY <1>1, <2>1, <2>2, <2>3, <2>4, <2>5, <2>6 DEF WizardStep
<1>2. ASSUME NEW t \in Terminals, InitStarts(t), UNCHANGED token PROVE WizardInv'
  BY <1>2, InitStartsWizard
<1>3. ASSUME NEW t \in Terminals, Killed(t), UNCHANGED token PROVE WizardInv'
  BY <1>3, EndsWizard DEF Killed, At, WizardInv, WizardTypeOK
<1>4. CASE UNCHANGED <<wizardVars, token>>
  BY <1>4, WizardsUntouched
<1>5. CASE \E t \in Terminals :
             \/ WizardStep(t) /\ UNCHANGED <<tierVars, now>>
             \/ (InitStarts(t) \/ Killed(t)) /\ UNCHANGED <<tierVars, now, token>>
  BY <1>1, <1>2, <1>3, <1>5
<1>6. CASE ~ \E t \in Terminals :
             \/ WizardStep(t) /\ UNCHANGED <<tierVars, now>>
             \/ (InitStarts(t) \/ Killed(t)) /\ UNCHANGED <<tierVars, now, token>>
  <2>1. UNCHANGED <<wizardVars, token>>
    BY <1>6 DEF FirstRunNext, firstRunVars, wizardVars
  <2>2. QED
    BY <2>1, WizardsUntouched
<1>7. QED
  BY <1>5, <1>6

-----------------------------------------------------------------------------
(* Requests and sessions.                                                  *)

LoginInv == LoginTypeOK /\ RequestIInv

(* What LoginInv says of the parts the steps use.                          *)
LEMMA LoginFields ==
    ASSUME LoginInv
    PROVE  /\ admin \in Browsers \cup {NoUser}
           /\ request \in [Browsers -> RequestRecords]
           /\ sessions \in Seq(SessionRecords)
           /\ Len(sessions) \in Nat
           /\ cookie \in [Browsers -> 0..Len(sessions)]
           /\ seeds \in 0..MaxSeeds
           /\ inForce \in [Browsers -> SUBSET (Browsers \cup {NoUser})]
           /\ IsFiniteSet(Waiting) /\ Cardinality(Waiting) \in Nat
           /\ Len(sessions) + Cardinality(Waiting) <= MaxSessions
<1>1. IsFiniteSet(Waiting)
  BY FS_Subset, FirstRunAssumption DEF Waiting
<1>2. sessions \in Seq(SessionRecords)
  BY DEF LoginInv, LoginTypeOK
<1>3. Len(sessions) \in Nat /\ Cardinality(Waiting) \in Nat
  BY <1>1, <1>2, FS_CardinalityType
<1>4. QED
  BY <1>1, <1>2, <1>3 DEF LoginInv, LoginTypeOK, RequestIInv

(* A request comes in, and room for its session is kept.                   *)
LEMMA AsksLogin ==
    ASSUME LoginInv, NEW b \in Browsers, NEW r \in RequestRecords, r.pc # "idle",
           Asks(b, r), UNCHANGED <<admin, cookie, sessions, seeds>>,
           r.pc = "verify" => r.proof = admin /\ admin # NoUser,
           r.pc \in {"token", "hash"} => admin = NoUser
    PROVE  LoginInv'
<1>1. /\ request[b].pc = "idle" /\ Len(sessions) + Cardinality(Waiting) < MaxSessions
      /\ request' = [request EXCEPT ![b] = r] /\ inForce' = [inForce EXCEPT ![b] = {admin}]
  BY DEF Asks
<1>2. Waiting' = Waiting \cup {b} /\ b \notin Waiting
  BY <1>1, LoginFields DEF Waiting
<1>3. Cardinality(Waiting') = Cardinality(Waiting) + 1
  BY <1>2, LoginFields, FS_AddElement
<1>4. Len(sessions') + Cardinality(Waiting') <= MaxSessions
  BY <1>1, <1>3, LoginFields, FirstRunAssumption
<1>5. request'[b] = r /\ inForce'[b] = {admin}
      /\ \A c \in Browsers \ {b} : request'[c] = request[c] /\ inForce'[c] = inForce[c]
  BY <1>1, LoginFields
<1>6. request' \in [Browsers -> RequestRecords]
      /\ inForce' \in [Browsers -> SUBSET (Browsers \cup {NoUser})]
  BY <1>1, LoginFields
<1>7. LoginTypeOK'
  BY <1>5, <1>6 DEF LoginInv, LoginTypeOK
<1>8. ASSUME NEW c \in Browsers
      PROVE  /\ request'[c].pc \in {"token", "hash"} => NoUser \in inForce'[c]
             /\ request'[c].pc = "verify" => request'[c].proof \in inForce'[c]
  <2>1. CASE c = b
    BY <1>5, <2>1
  <2>2. CASE c # b
    BY <1>5, <2>2 DEF LoginInv, RequestIInv
  <2>3. QED
    BY <2>1, <2>2
<1>9. QED
  BY <1>4, <1>7, <1>8 DEF LoginInv, RequestIInv

(* A row of its own for the session that a request has room for.           *)
LEMMA CreatesRow ==
    ASSUME LoginInv, NEW b \in Browsers, CreateSession(b), now \in 0..MaxTime
    PROVE  /\ sessions' \in Seq(SessionRecords) /\ Len(sessions') = Len(sessions) + 1
           /\ cookie' \in [Browsers -> 0..Len(sessions')]
<1> DEFINE row == [row |-> "live", exp |-> now + SessionTtl]
<1>1. row \in SessionRecords
  BY FirstRunAssumption DEF SessionRecords
<1>2. sessions' = Append(sessions, row) /\ cookie' = [cookie EXCEPT ![b] = Len(sessions) + 1]
  BY DEF CreateSession
<1> HIDE DEF row
<1>3. sessions' \in Seq(SessionRecords) /\ Len(sessions') = Len(sessions) + 1
  BY <1>1, <1>2, LoginFields
<1>4. \A n \in 0..Len(sessions) : n \in 0..Len(sessions')
  BY <1>3, LoginFields
<1>5. Len(sessions) + 1 \in 0..Len(sessions')
  BY <1>3, LoginFields
<1>6. QED
  BY <1>2, <1>3, <1>4, <1>5, LoginFields

(* A request is answered, with or without a session.                       *)
LEMMA EndsLogin ==
    ASSUME LoginInv, NEW b \in Browsers, request[b].pc # "idle", now \in 0..MaxTime,
           request' = [request EXCEPT ![b] = NoRequest],
           CreateSession(b) \/ UNCHANGED <<sessions, cookie>>,
           admin' \in Browsers \cup {NoUser}, seeds' = seeds,
           inForce' \in [Browsers -> SUBSET (Browsers \cup {NoUser})],
           \A c \in Browsers \ {b} : request[c].pc # "idle" => inForce[c] \subseteq inForce'[c]
    PROVE  LoginInv'
<1>1. NoRequest \in RequestRecords /\ NoRequest.pc = "idle"
  BY FirstRunAssumption DEF NoRequest, RequestRecords
<1>2. /\ request' \in [Browsers -> RequestRecords] /\ request'[b] = NoRequest
      /\ \A c \in Browsers \ {b} : request'[c] = request[c]
  BY <1>1, LoginFields
<1>3. Waiting' = Waiting \ {b} /\ b \in Waiting
  BY <1>1, <1>2 DEF Waiting
<1>4. Cardinality(Waiting') = Cardinality(Waiting) - 1
  BY <1>3, LoginFields, FS_RemoveElement
<1>5. /\ sessions' \in Seq(SessionRecords) /\ Len(sessions') \in Nat
      /\ Len(sessions') <= Len(sessions) + 1
      /\ cookie' \in [Browsers -> 0..Len(sessions')]
  BY CreatesRow, LoginFields
<1>6. Len(sessions') + Cardinality(Waiting') <= MaxSessions
  <2>1. MaxSessions \in Nat
    BY FirstRunAssumption
  <2>2. /\ Len(sessions) \in Nat /\ Cardinality(Waiting) \in Nat
        /\ Len(sessions) + Cardinality(Waiting) <= MaxSessions
    BY LoginFields
  <2>3. QED
    BY <1>4, <1>5, <2>1, <2>2
<1>7. Cardinality(Waiting') \in Nat
  BY <1>3, LoginFields, FS_RemoveElement, FS_CardinalityType
<1>8. Len(sessions') <= MaxSessions
  BY <1>5, <1>6, <1>7, FirstRunAssumption
<1>9. ASSUME NEW c \in Browsers
      PROVE  /\ request'[c].pc = "verify" => request'[c].proof # NoUser
             /\ request'[c].pc \in {"token", "hash"} => NoUser \in inForce'[c]
             /\ request'[c].pc = "verify" => request'[c].proof \in inForce'[c]
  <2>1. CASE c = b
    BY <1>1, <1>2, <2>1
  <2>2. CASE c # b
    BY <1>2, <2>2 DEF LoginInv, RequestIInv, LoginTypeOK
  <2>3. QED
    BY <2>1, <2>2
<1>10. LoginTypeOK'
  BY <1>2, <1>5, <1>8, <1>9, LoginFields DEF LoginTypeOK
<1>11. QED
  BY <1>6, <1>9, <1>10 DEF LoginInv, RequestIInv

(* What Becomes does to the accounts that were in force.                   *)
LEMMA BecomesInForce ==
    ASSUME LoginInv, NEW pw \in Browsers, NEW done \in SUBSET Browsers, Becomes(pw, done)
    PROVE  /\ admin' \in Browsers \cup {NoUser}
           /\ inForce' \in [Browsers -> SUBSET (Browsers \cup {NoUser})]
           /\ \A c \in Browsers \ done :
                 request[c].pc # "idle" => inForce[c] \subseteq inForce'[c]
BY LoginFields DEF Becomes

(* A step that is about no request leaves LoginInv alone, whatever the     *)
(* passage of time or a wizard changes.                                    *)
LEMMA LoginsUntouched ==
    ASSUME LoginInv, UNCHANGED <<admin, request, cookie, sessions, seeds, inForce>>
    PROVE  LoginInv'
BY DEF LoginInv, LoginTypeOK, RequestIInv, Waiting

(* The steps of a browser's requests.                                      *)
LEMMA RequestsLogin ==
    ASSUME LoginInv, NEW b \in Browsers, RequestStep(b), now \in 0..MaxTime, seeds' = seeds
    PROVE  LoginInv'
<1>1. request \in [Browsers -> RequestRecords] /\ request[b] \in RequestRecords
      /\ inForce \in [Browsers -> SUBSET (Browsers \cup {NoUser})]
      /\ admin \in Browsers \cup {NoUser}
  BY LoginFields
<1>2. ASSUME Answered(b), request[b].pc # "idle", admin' = admin,
             CreateSession(b) \/ UNCHANGED <<sessions, cookie>>
      PROVE  LoginInv'
  <2>1. request' = [request EXCEPT ![b] = NoRequest] /\ inForce' = [inForce EXCEPT ![b] = {}]
    BY <1>2 DEF Answered
  <2>2. /\ inForce' \in [Browsers -> SUBSET (Browsers \cup {NoUser})]
        /\ \A c \in Browsers \ {b} : inForce[c] \subseteq inForce'[c]
    BY <1>1, <2>1
  <2>3. QED
    BY <1>1, <1>2, <2>1, <2>2, EndsLogin
<1>3. CASE SetupVerifies(b) /\ request' = [request EXCEPT ![b].pc = "hash"] /\ inForce' = inForce
  <2>1. request[b].pc = "token" /\ UNCHANGED <<admin, cookie, sessions, seeds, inForce>>
    BY <1>3 DEF SetupVerifies
  <2>2. /\ request' \in [Browsers -> RequestRecords]
        /\ request'[b].pc = "hash"
        /\ \A c \in Browsers \ {b} : request'[c] = request[c]
    BY <1>1, <1>3 DEF RequestRecords
  <2>3. Waiting' = Waiting
    BY <2>1, <2>2 DEF Waiting
  <2>4. ASSUME NEW c \in Browsers
        PROVE  /\ request'[c].pc = "verify" => request'[c].proof # NoUser
               /\ request'[c].pc \in {"token", "hash"} => NoUser \in inForce'[c]
               /\ request'[c].pc = "verify" => request'[c].proof \in inForce'[c]
    <3>1. CASE c = b
      BY <2>1, <2>2, <3>1 DEF LoginInv, RequestIInv
    <3>2. CASE c # b
      BY <2>1, <2>2, <3>2 DEF LoginInv, RequestIInv, LoginTypeOK
    <3>3. QED
      BY <3>1, <3>2
  <2>5. LoginTypeOK'
    BY <2>1, <2>2, <2>4 DEF LoginInv, LoginTypeOK
  <2>6. Len(sessions') + Cardinality(Waiting') <= MaxSessions
    BY <2>1, <2>3, LoginFields
  <2>7. QED
    BY <2>4, <2>5, <2>6 DEF LoginInv, RequestIInv
<1>4. CASE SetupVerifies(b) /\ Answered(b)
  BY <1>2, <1>4 DEF SetupVerifies
<1>5. CASE SetupFinishes(b)
  <2>1. /\ request[b].pc = "hash" /\ Becomes(request[b].pw, {b}) /\ CreateSession(b)
        /\ request' = [request EXCEPT ![b] = NoRequest]
    BY <1>5 DEF SetupFinishes
  <2>2. PICK pw \in Browsers \cup {NoUser} : pw = request[b].pw
    BY <1>1 DEF RequestRecords
  <2>3. /\ admin' \in Browsers \cup {NoUser}
        /\ inForce' \in [Browsers -> SUBSET (Browsers \cup {NoUser})]
        /\ \A c \in Browsers \ {b} :
              request[c].pc # "idle" => inForce[c] \subseteq inForce'[c]
    BY <1>1, <2>1, <2>2 DEF Becomes
  <2>4. QED
    BY <2>1, <2>3, EndsLogin
<1>6. CASE LoginFinishes(b)
  BY <1>2, <1>6 DEF LoginFinishes
<1>7. QED
  BY <1>3, <1>4, <1>5, <1>6 DEF RequestStep, SetupVerifies

(* Logging out marks one row, which was valid, and changes no other.       *)
LEMMA LogoutRow ==
    ASSUME LoginInv, NEW b \in Browsers, Logout(b)
    PROVE  /\ cookie[b] \in 1..Len(sessions)
           /\ sessions' \in Seq(SessionRecords) /\ Len(sessions') = Len(sessions)
           /\ sessions'[cookie[b]].row = "deleted"
           /\ \A id \in 1..Len(sessions) : id # cookie[b] => sessions'[id] = sessions[id]
<1>1. cookie[b] \in 1..Len(sessions)
      /\ sessions' = [sessions EXCEPT ![cookie[b]].row = "deleted"]
  BY LoginFields DEF Logout, IsSessionValid
<1>2. sessions \in Seq(SessionRecords) /\ sessions[cookie[b]] \in SessionRecords
  BY <1>1, LoginFields
<1> DEFINE e == [sessions[cookie[b]] EXCEPT !.row = "deleted"]
<1>3. e \in SessionRecords /\ e.row = "deleted"
  BY <1>2 DEF SessionRecords
<1>4. sessions' = [sessions EXCEPT ![cookie[b]] = e]
  BY <1>1
<1> HIDE DEF e
<1>5. /\ sessions' \in Seq(SessionRecords) /\ Len(sessions') = Len(sessions)
      /\ \A j \in 1..Len(sessions) : sessions'[j] = IF j = cookie[b] THEN e ELSE sessions[j]
  BY <1>1, <1>2, <1>3, <1>4, ExceptSeq
<1>6. QED
  BY <1>1, <1>3, <1>5

(* What a browser can begin.                                               *)
LEMMA ClicksLogin ==
    ASSUME LoginInv, NEW b \in Browsers, Clicks(b), runs \in 0..MaxRuns, seeds' = seeds
    PROVE  LoginInv'
<1>1. admin \in Browsers \cup {NoUser} /\ MaxRuns \in Nat
  BY LoginFields, FirstRunAssumption
<1>2. ASSUME NEW tok \in 1..runs, SetupStarts(b, tok) PROVE LoginInv'
  <2> DEFINE r == [pc |-> "token", pw |-> b, proof |-> NoUser, token |-> tok]
  <2>1. tok \in 0..MaxRuns
    BY <1>1
  <2>2. r \in RequestRecords /\ r.pc = "token"
    BY <2>1 DEF RequestRecords
  <2>3. Asks(b, r) /\ admin = NoUser /\ UNCHANGED <<admin, cookie, sessions>>
    BY <1>2 DEF SetupStarts
  <2> HIDE DEF r
  <2>4. QED
    BY <2>2, <2>3, AsksLogin
<1>3. ASSUME NEW pw \in Browsers, LoginStarts(b, pw) PROVE LoginInv'
  <2>1. UNCHANGED <<admin, cookie, sessions>>
    BY <1>3 DEF LoginStarts
  <2>2. CASE admin # NoUser /\ Asks(b, [pc |-> "verify", pw |-> pw, proof |-> admin, token |-> 0])
    <3> DEFINE r == [pc |-> "verify", pw |-> pw, proof |-> admin, token |-> 0]
    <3>1. r \in RequestRecords /\ r.pc = "verify" /\ r.proof = admin
      BY <1>1 DEF RequestRecords
    <3>2. Asks(b, r)
      BY <2>2
    <3> HIDE DEF r
    <3>3. PICK q \in RequestRecords : q = r
      BY <3>1
    <3>4. QED
      BY <2>1, <2>2, <3>1, <3>2, <3>3, AsksLogin
  <2>3. CASE UNCHANGED <<request, inForce>>
    BY <2>1, <2>3, LoginsUntouched
  <2>4. QED
    BY <1>3, <2>2, <2>3 DEF LoginStarts
<1>4. CASE LoginRefused(b)
  BY <1>4, LoginsUntouched DEF LoginRefused
<1>5. CASE Logout(b)
  <2>1. /\ cookie[b] \in 1..Len(sessions)
        /\ sessions' = [sessions EXCEPT ![cookie[b]].row = "deleted"]
        /\ cookie' = [cookie EXCEPT ![b] = 0] /\ UNCHANGED <<admin, request, inForce>>
    BY <1>5, LoginFields DEF Logout, IsSessionValid
  <2>2. sessions' \in Seq(SessionRecords) /\ Len(sessions') = Len(sessions)
    BY <1>5, LogoutRow
  <2>3. cookie' \in [Browsers -> 0..Len(sessions')]
    BY <2>1, <2>2, LoginFields
  <2>4. LoginTypeOK'
    BY <2>1, <2>2, <2>3 DEF LoginInv, LoginTypeOK
  <2>5. Waiting' = Waiting
    BY <2>1 DEF Waiting
  <2>6. QED
    BY <2>1, <2>2, <2>4, <2>5 DEF LoginInv, RequestIInv
<1>6. QED
  BY <1>2, <1>3, <1>4, <1>5 DEF Clicks

(* Every step preserves LoginInv.                                          *)
LEMMA LoginsNext ==
    ASSUME LoginInv, now \in 0..MaxTime, runs \in 0..MaxRuns, [FirstRunNext]_firstRunVars
    PROVE  LoginInv'
<1>1. ASSUME NEW b \in Browsers, RequestStep(b) \/ Clicks(b),
             UNCHANGED <<wizardVars, token, seeds, now>>
      PROVE  LoginInv'
  BY <1>1, RequestsLogin, ClicksLogin
<1>2. ASSUME NEW pw \in Browsers, Seed(pw) PROVE LoginInv'
  <2>1. /\ seeds' \in 0..MaxSeeds /\ Becomes(pw, {})
        /\ UNCHANGED <<request, cookie, sessions>>
    <3>1. MaxSeeds \in Nat
      BY FirstRunAssumption
    <3>2. seeds \in 0..MaxSeeds /\ seeds < MaxSeeds /\ seeds' = seeds + 1
      BY <1>2, LoginFields DEF Seed
    <3>3. QED
      BY <1>2, <3>1, <3>2 DEF Seed
  <2>2. /\ admin' \in Browsers \cup {NoUser}
        /\ inForce' \in [Browsers -> SUBSET (Browsers \cup {NoUser})]
        /\ \A c \in Browsers : request[c].pc # "idle" => inForce[c] \subseteq inForce'[c]
    BY <2>1, BecomesInForce
  <2>3. LoginTypeOK'
    BY <2>1, <2>2 DEF LoginInv, LoginTypeOK
  <2>4. Waiting' = Waiting
    BY <2>1 DEF Waiting
  <2>5. QED
    BY <2>1, <2>2, <2>3, <2>4 DEF LoginInv, RequestIInv
<1>3. CASE UNCHANGED <<admin, request, cookie, sessions, seeds, inForce>>
  BY <1>3, LoginsUntouched
<1>4. CASE \E b \in Browsers :
             (RequestStep(b) \/ Clicks(b)) /\ UNCHANGED <<wizardVars, token, seeds, now>>
  BY <1>1, <1>4
<1>5. CASE \E pw \in Browsers : Seed(pw) /\ UNCHANGED <<wizardVars, token, now>>
  BY <1>2, <1>5
<1>6. QED
  BY <1>3, <1>4, <1>5 DEF FirstRunNext, firstRunVars, tierVars

-----------------------------------------------------------------------------
(* The login limiter.                                                      *)

LimiterInv == LimitTypeOK /\ LimiterIInv

(* The row's own attempts and those of the row before it make up them all. *)
LEMMA LimiterFields ==
    ASSUME LimiterInv
    PROVE  /\ limit.count \in 0..MaxAttempts /\ limit.start \in 0..MaxTime
           /\ now \in 0..MaxTime /\ limit.start <= now
           /\ \A a \in tries : a[1] \in 0..MaxTime /\ a[2] \in Nat
           /\ IsFiniteSet(tries) /\ IsFiniteSet(Earlier) /\ IsFiniteSet(tries \ Earlier)
           /\ Cardinality(Earlier) \in Nat /\ Cardinality(tries \ Earlier) \in Nat
           /\ Cardinality(tries) = Cardinality(Earlier) + Cardinality(tries \ Earlier)
<1>1. IsFiniteSet(tries)
  BY DEF LimiterInv, LimiterIInv
<1>2. Earlier \subseteq tries /\ tries \ Earlier \subseteq tries
  BY DEF Earlier
<1>3. IsFiniteSet(Earlier) /\ IsFiniteSet(tries \ Earlier)
  BY <1>1, <1>2, FS_Subset
<1>4. tries \cap Earlier = Earlier
  BY <1>2
<1>5. /\ Cardinality(Earlier) \in Nat /\ Cardinality(tries \ Earlier) \in Nat
      /\ Cardinality(tries) = Cardinality(Earlier) + Cardinality(tries \ Earlier)
  <2>1. /\ Cardinality(Earlier) \in Nat /\ Cardinality(tries \ Earlier) \in Nat
        /\ Cardinality(tries) \in Nat
    BY <1>1, <1>3, FS_CardinalityType
  <2>2. Cardinality(tries \ Earlier) = Cardinality(tries) - Cardinality(Earlier)
    BY <1>1, <1>4, FS_Difference
  <2>3. QED
    BY <2>1, <2>2
<1>6. MaxAttempts \in Nat /\ MaxTime \in Nat
  BY FirstRunAssumption
<1>7. limit.count \in Nat /\ limit.start \in 0..MaxTime /\ now \in 0..MaxTime
      /\ tries \subseteq (0..MaxTime) \X Nat
  BY DEF LimiterInv, LimitTypeOK
<1>8. limit.count <= MaxAttempts /\ limit.start <= now
  BY DEF LimiterInv, LimiterIInv
<1>9. limit.count \in 0..MaxAttempts
  BY <1>6, <1>7, <1>8
<1>10. \A a \in tries : a[1] \in 0..MaxTime /\ a[2] \in Nat
  BY <1>7
<1>11. QED
  BY <1>1, <1>3, <1>5, <1>7, <1>8, <1>9, <1>10

(* An attempt let through.                                                 *)
LEMMA LoginStartsLimit ==
    ASSUME LimiterInv, WindowOver \/ ~LimitReached, now' = now,
           limit' = IF WindowOver THEN [count |-> 1, start |-> now]
                                  ELSE [limit EXCEPT !.count = @ + 1],
           tries' = tries \cup {<<now, limit'.count>>}
    PROVE  LimiterInv'
<1>1. Window \in Nat /\ MaxAttempts \in Nat \ {0} /\ MaxTime \in Nat
  BY FirstRunAssumption
<1>2. limit \in [count : Nat, start : 0..MaxTime]
      /\ tries \subseteq (0..MaxTime) \X Nat /\ now \in 0..MaxTime
  BY DEF LimiterInv, LimitTypeOK
<1>3. IsFiniteSet(tries)
  BY LimiterFields
<1> DEFINE a0 == <<now, limit'.count>>
<1>4. a0[1] = now /\ a0[2] = limit'.count
  OBVIOUS
<1>5. CASE WindowOver
  <2>1. limit' = [count |-> 1, start |-> now]
    BY <1>5
  <2>2. limit'.count = 1 /\ limit'.start = now /\ limit' # NoRow
    BY <2>1 DEF NoRow
  <2>3. ASSUME NEW a \in tries PROVE a[1] < now /\ a \notin Earlier
    <3>1. limit # NoRow
      BY <2>3 DEF LimiterInv, LimiterIInv
    <3>2. now - limit.start > Window
      BY <1>5, <3>1 DEF WindowOver
    <3>3. /\ a[1] \in 0..MaxTime /\ limit.start \in 0..MaxTime
          /\ now - Window <= a[1] /\ a[1] <= limit.start + Window
      BY <2>3, LimiterFields DEF LimiterInv, LimiterIInv
    <3>4. QED
      BY <1>1, <1>2, <3>2, <3>3 DEF Earlier
  <2>4. tries \ Earlier = tries
    BY <2>3
  <2>5. Cardinality(tries) <= MaxAttempts
    <3>1. Cardinality(tries \ Earlier) <= limit.count /\ limit.count <= MaxAttempts
      BY DEF LimiterInv, LimiterIInv
    <3>2. Cardinality(tries \ Earlier) \in Nat /\ limit.count \in Nat
      BY <1>2, LimiterFields
    <3>3. QED
      BY <1>1, <2>4, <3>1, <3>2
  <2>6. Earlier' = tries /\ tries' \ Earlier' = {a0}
    <3>1. a0 \notin tries
      BY <1>2, <1>4, <2>3
    <3>2. \A a \in tries' : a[1] < limit'.start <=> a \in tries
      BY <1>2, <1>4, <2>2, <2>3
    <3>3. Earlier' = tries
      BY <3>2 DEF Earlier
    <3>4. QED
      BY <3>1, <3>3
  <2>7. IsFiniteSet({a0}) /\ Cardinality({a0}) = 1
    BY FS_Singleton
  <2>8. IsFiniteSet(tries')
    BY <1>3, FS_AddElement
  <2>9. LimitTypeOK'
    BY <1>2, <2>1, <2>2 DEF LimitTypeOK
  <2>10. \A a \in tries' : /\ now' - Window <= a[1] /\ a[1] <= now'
                           /\ a[1] <= limit'.start + Window
                           /\ a[1] >= limit'.start => a[2] <= limit'.count
    <3>1. \A a \in tries : a[1] \in 0..MaxTime /\ now - Window <= a[1] /\ a[1] < now
      BY <2>3, LimiterFields DEF LimiterInv, LimiterIInv
    <3>2. QED
      BY <1>1, <1>2, <1>4, <2>2, <3>1
  <2>11. limit'.count <= MaxAttempts /\ limit'.start <= now'
    BY <1>1, <1>2, <2>2
  <2>12. Cardinality(tries' \ Earlier') = limit'.count
    BY <2>2, <2>6, <2>7
  <2>13. Cardinality(Earlier') <= MaxAttempts /\ limit'.count <= limit'.count
    BY <2>2, <2>5, <2>6
  <2>14. LimiterIInv'
    BY <2>2, <2>8, <2>10, <2>11, <2>12, <2>13 DEF LimiterIInv
  <2>15. QED
    BY <2>9, <2>14 DEF LimiterInv
<1>6. CASE ~WindowOver
  <2>1. limit' = [limit EXCEPT !.count = limit.count + 1] /\ limit.count < MaxAttempts
    <3>1. ~(limit.count >= MaxAttempts)
      BY <1>6 DEF LimitReached
    <3>2. QED
      BY <1>1, <1>2, <1>6, <3>1
  <2>2. limit'.count = limit.count + 1 /\ limit'.start = limit.start
        /\ limit' \in [count : Nat, start : 0..MaxTime]
    BY <1>2, <2>1
  <2>3. limit' # NoRow /\ now - limit.start <= Window
    <3>1. limit.count + 1 # 0 /\ ~(now - limit.start > Window)
      BY <1>2, <1>6 DEF WindowOver
    <3>2. limit' # NoRow
      BY <2>2, <3>1 DEF NoRow
    <3>3. QED
      BY <1>1, <1>2, <3>1, <3>2
  <2>4. \A a \in tries : /\ now - Window <= a[1] /\ a[1] <= now /\ a[1] <= limit.start + Window
                         /\ a[1] >= limit.start => a[2] <= limit.count
    BY DEF LimiterInv, LimiterIInv
  <2>5. a0 \notin tries
    BY <1>2, <1>4, <2>2, <2>4, LimiterFields
  <2>6. Earlier' = Earlier /\ tries' \ Earlier' = (tries \ Earlier) \cup {a0}
    <3>1. ~(a0[1] < limit.start)
      BY <1>2, <1>4, LimiterFields
    <3>2. Earlier' = Earlier
      BY <2>2, <3>1 DEF Earlier
    <3>3. a0 \notin Earlier
      BY <2>5 DEF Earlier
    <3>4. QED
      BY <3>2, <3>3
  <2>7. Cardinality(tries' \ Earlier') = Cardinality(tries \ Earlier) + 1
    BY <2>5, <2>6, LimiterFields, FS_AddElement
  <2>8. IsFiniteSet(tries')
    BY <1>3, FS_AddElement
  <2>9. LimitTypeOK'
    BY <1>2, <2>2 DEF LimitTypeOK
  <2>10. \A a \in tries' : /\ now' - Window <= a[1] /\ a[1] <= now'
                           /\ a[1] <= limit'.start + Window
                           /\ a[1] >= limit'.start => a[2] <= limit'.count
    <3>1. \A a \in tries : a[1] \in 0..MaxTime /\ a[2] \in Nat
      BY LimiterFields
    <3>2. \A a \in tries : a[1] >= limit.start => a[2] <= limit.count + 1
      BY <1>2, <2>4, <3>1
    <3>3. now <= limit.start + Window
      BY <1>1, <1>2, <2>3
    <3>4. QED
      BY <1>1, <1>2, <1>4, <2>2, <2>4, <3>2, <3>3
  <2>11. limit'.count <= MaxAttempts /\ limit'.start <= now'
    BY <1>1, <1>2, <2>1, <2>2, LimiterFields
  <2>12. Cardinality(tries' \ Earlier') = limit'.count
    BY <2>2, <2>3, <2>7 DEF LimiterInv, LimiterIInv
  <2>13. Cardinality(Earlier') <= MaxAttempts
    BY <2>6 DEF LimiterInv, LimiterIInv
  <2>14. limit'.count <= limit'.count
    BY <2>2
  <2>15. LimiterIInv'
    BY <2>3, <2>8, <2>10, <2>11, <2>12, <2>13, <2>14 DEF LimiterIInv
  <2>16. QED
    BY <2>9, <2>15 DEF LimiterInv
<1>7. QED
  BY <1>5, <1>6

(* Time passes: while the row lasts, none of its own attempts is forgotten. *)
LEMMA TickLimit ==
    ASSUME LimiterInv, Tick, limit' = limit PROVE LimiterInv'
<1>1. Window \in Nat /\ MaxAttempts \in Nat \ {0} /\ MaxTime \in Nat
  BY FirstRunAssumption
<1>2. /\ now' = now + 1 /\ now' \in 0..MaxTime
      /\ tries' = {a \in tries : a[1] >= now + 1 - Window}
  BY <1>1, LimiterFields DEF Tick
<1>3. tries' \subseteq tries /\ Earlier' \subseteq Earlier
      /\ tries' \ Earlier' \subseteq tries \ Earlier
  BY <1>2 DEF Earlier
<1>4. IsFiniteSet(tries')
  BY <1>3, LimiterFields, FS_Subset
<1>5. /\ Cardinality(Earlier') <= Cardinality(Earlier)
      /\ Cardinality(tries' \ Earlier') <= Cardinality(tries \ Earlier)
      /\ Cardinality(Earlier') \in Nat /\ Cardinality(tries' \ Earlier') \in Nat
  BY <1>3, LimiterFields, FS_Subset, FS_CardinalityType
<1>6. ASSUME now' - limit.start <= Window
      PROVE  Cardinality(tries' \ Earlier') = limit.count
  <2>1. \A a \in tries : a[1] >= limit.start => a \in tries'
    BY <1>1, <1>2, <1>6, LimiterFields
  <2>2. tries' \ Earlier' = tries \ Earlier
    <3>1. ASSUME NEW a \in tries \ Earlier PROVE a \in tries' \ Earlier'
      <4>1. a \in tries /\ ~(a[1] < limit.start) /\ a[1] \in 0..MaxTime
        BY <3>1, LimiterFields DEF Earlier
      <4>2. a[1] >= limit.start
        BY <4>1, LimiterFields
      <4>3. QED
        BY <2>1, <3>1, <4>1, <4>2, <1>3
    <3>2. QED
      BY <1>3, <3>1
  <2>3. now - limit.start <= Window
    BY <1>1, <1>2, <1>6, LimiterFields
  <2>4. QED
    BY <2>2, <2>3 DEF LimiterInv, LimiterIInv
<1>7. LimitTypeOK'
  BY <1>2, <1>3 DEF LimiterInv, LimitTypeOK
<1>8. \A a \in tries' : /\ now' - Window <= a[1] /\ a[1] <= now'
                        /\ a[1] <= limit'.start + Window
                        /\ a[1] >= limit'.start => a[2] <= limit'.count
  <2>1. \A a \in tries : /\ a[1] <= now /\ a[1] <= limit.start + Window
                         /\ a[1] >= limit.start => a[2] <= limit.count
    BY DEF LimiterInv, LimiterIInv
  <2>2. \A a \in tries' : a \in tries /\ a[1] \in 0..MaxTime /\ a[1] >= now + 1 - Window
    BY <1>2, LimiterFields
  <2>3. \A a \in tries' : now' - Window <= a[1] /\ a[1] <= now'
    BY <1>1, <1>2, <2>1, <2>2, LimiterFields
  <2>4. QED
    BY <2>1, <2>2, <2>3
<1>9. /\ limit = NoRow => tries' = {}
      /\ limit.count <= MaxAttempts /\ limit.start <= now'
      /\ Cardinality(Earlier') <= MaxAttempts
      /\ Cardinality(tries' \ Earlier') <= limit.count
  <2>1. /\ limit = NoRow => tries = {}
        /\ Cardinality(Earlier) <= MaxAttempts /\ Cardinality(tries \ Earlier) <= limit.count
    BY DEF LimiterInv, LimiterIInv
  <2>2. QED
    BY <1>1, <1>2, <1>3, <1>5, <2>1, LimiterFields
<1>10. LimiterIInv'
  BY <1>4, <1>6, <1>8, <1>9 DEF LimiterIInv
<1>11. QED
  BY <1>7, <1>10 DEF LimiterInv

Cleared == limit = NoRow /\ tries = {} /\ now \in 0..MaxTime

(* A login that succeeds clears the row, as it is in the beginning.        *)
LEMMA ClearedLimit == Cleared => LimiterInv
<1> SUFFICES ASSUME Cleared PROVE LimiterInv
  OBVIOUS
<1>1. Window \in Nat /\ MaxAttempts \in Nat \ {0} /\ MaxTime \in Nat
  BY FirstRunAssumption
<1>2. limit.count = 0 /\ limit.start = 0 /\ limit \in [count : Nat, start : 0..MaxTime]
  BY <1>1 DEF Cleared, NoRow
<1>3. tries = {} /\ Earlier = {} /\ tries \ Earlier = {} /\ now \in 0..MaxTime
  BY DEF Cleared, Earlier
<1>4. IsFiniteSet(tries) /\ Cardinality(Earlier) = 0 /\ Cardinality(tries \ Earlier) = 0
  BY <1>3, FS_EmptySet
<1>5. QED
  BY <1>1, <1>2, <1>3, <1>4 DEF LimiterInv, LimitTypeOK, LimiterIInv

(* Every step preserves LimiterInv.                                        *)
LEMMA LimiterNext ==
    ASSUME LimiterInv, [FirstRunNext]_firstRunVars PROVE LimiterInv'
<1>1. CASE UNCHANGED <<limit, tries, now>>
  BY <1>1 DEF LimiterInv, LimitTypeOK, LimiterIInv, Earlier
<1>2. ASSUME NEW b \in Browsers, RequestStep(b), now' = now PROVE LimiterInv'
  <2>1. CASE limit' = NoRow /\ tries' = {}
    <3>1. now' \in 0..MaxTime
      BY <1>2, LimiterFields
    <3>2. Cleared'
      BY <2>1, <3>1 DEF Cleared
    <3>3. QED
      BY <3>2, ClearedLimit, PTL
  <2>2. CASE UNCHANGED <<limit, tries>>
    BY <1>1, <1>2, <2>2
  <2>3. QED
    BY <1>2, <2>1, <2>2 DEF RequestStep, SetupVerifies, SetupFinishes, LoginFinishes
<1>3. ASSUME NEW b \in Browsers, Clicks(b), now' = now PROVE LimiterInv'
  <2>1. ASSUME NEW pw \in Browsers, LoginStarts(b, pw) PROVE LimiterInv'
    BY <1>3, <2>1, LoginStartsLimit DEF LoginStarts
  <2>2. CASE UNCHANGED <<limit, tries>>
    BY <1>1, <1>3, <2>2
  <2>3. QED
    BY <1>3, <2>1, <2>2 DEF Clicks, SetupStarts, LoginRefused, RefusedRow, Logout
<1>4. CASE Tick /\ UNCHANGED <<wizardVars, token, admin, request, cookie, sessions,
                               limit, seeds, inForce>>
  BY <1>4, TickLimit
<1>5. CASE \E b \in Browsers :
             (RequestStep(b) \/ Clicks(b)) /\ UNCHANGED <<wizardVars, token, seeds, now>>
  BY <1>2, <1>3, <1>5
<1>6. QED
  BY <1>1, <1>4, <1>5 DEF FirstRunNext, firstRunVars, tierVars, Seed

-----------------------------------------------------------------------------
(* The theorems.                                                           *)

(* The beginning.                                                          *)
LEMMA FirstRunInitially == FirstRunInit => FirstRunIInv
<1> SUFFICES ASSUME FirstRunInit PROVE FirstRunIInv
  OBVIOUS
<1>1. {Secrets, MaxPolls, Window, MaxAttempts, TokenTtl, SessionTtl, MaxRuns, MaxTime,
       MaxSessions, MaxSeeds} \subseteq Nat
  BY FirstRunAssumption
<1>2. WizardTypeOK
  <2>1. wizard \in [Terminals -> WizardRecords]
    BY IdleWizardFields DEF FirstRunInit
  <2>2. token \in [id : 0..MaxRuns, at : 0..MaxTime]
    BY <1>1 DEF FirstRunInit, NoToken
  <2>3. QED
    BY <1>1, <2>1, <2>2 DEF FirstRunInit, WizardTypeOK
<1>3. WizardIInv
  <2>1. \A t \in Terminals : wizard[t].pc = "idle"
    BY IdleWizardFields DEF FirstRunInit
  <2>2. QED
    BY <2>1 DEF FirstRunInit, WizardIInv, TokenMeansReady, HasDone, HasLeftOwn,
                PastSecrets, PastFramework
<1>4. LoginTypeOK /\ RequestIInv
  <2>1. NoRequest \in RequestRecords /\ NoRequest.pc = "idle"
    BY <1>1 DEF NoRequest, RequestRecords
  <2>2. sessions \in Seq(SessionRecords) /\ Len(sessions) = 0
    BY DEF FirstRunInit
  <2>3. \A b \in Browsers : request[b] = NoRequest
    BY DEF FirstRunInit
  <2>4. Waiting = {}
    BY <2>1, <2>3 DEF Waiting
  <2>5. Cardinality(Waiting) = 0
    BY <2>4, FS_EmptySet
  <2>6. LoginTypeOK
    BY <1>1, <2>1, <2>2, <2>3 DEF FirstRunInit, LoginTypeOK
  <2>7. QED
    BY <1>1, <2>1, <2>2, <2>3, <2>5, <2>6 DEF RequestIInv
<1>5. Cleared
  BY <1>1 DEF FirstRunInit, Cleared
<1>6. QED
  BY <1>2, <1>3, <1>4, <1>5, ClearedLimit DEF FirstRunIInv, FirstRunTypeOK, LimiterInv

(* The inductive invariant, in every behaviour.                            *)
LEMMA FirstRunInvariant == FirstRunSpec => []FirstRunIInv
<1>1. FirstRunInit => FirstRunIInv
  BY FirstRunInitially
<1>2. FirstRunIInv /\ [FirstRunNext]_firstRunVars => FirstRunIInv'
  <2> SUFFICES ASSUME FirstRunIInv, [FirstRunNext]_firstRunVars PROVE FirstRunIInv'
    OBVIOUS
  <2>1. WizardInv /\ LoginInv /\ LimiterInv
    BY DEF FirstRunIInv, FirstRunTypeOK, WizardInv, LoginInv, LimiterInv
  <2>2. now \in 0..MaxTime /\ runs \in 0..MaxRuns
    BY DEF FirstRunIInv, FirstRunTypeOK, LimitTypeOK, WizardTypeOK
  <2>3. WizardInv' /\ LoginInv' /\ LimiterInv'
    BY <2>1, <2>2, WizardsNext, LoginsNext, LimiterNext
  <2>4. QED
    BY <2>3 DEF FirstRunIInv, FirstRunTypeOK, WizardInv, LoginInv, LimiterInv
<1>3. QED
  BY <1>1, <1>2, PTL DEF FirstRunSpec

(* Whatever runs of the wizard die half-way, are refused or overlap, a     *)
(* setup token means an installation with its builtins trusted, all of its *)
(* credentials and a framework document, and a wizard nobody overlapped    *)
(* leaves nothing of an earlier run behind: for any number of terminals,   *)
(* runs, credentials and polls (init.ts with the admin socket's routes).   *)
THEOREM SetupLeavesReady == FirstRunSpec => []FirstRunInv
<1>1. FirstRunIInv => FirstRunInv
  BY DEF FirstRunIInv, FirstRunInv, WizardIInv, WizardLeavesOwn, HasLeftOwn, At,
         PastSecrets, PastFramework
<1>2. QED
  BY <1>1, FirstRunInvariant, PTL

(* The limiter of tier1's logins, for any window and any limit: no         *)
(* interval as long as the window sees more than twice the limit of failed *)
(* attempts, and whoever is refused had as many as the limit let through   *)
(* (session-db.ts, checkRateLimit).                                        *)
THEOREM LimiterIsFair == FirstRunSpec => []LimiterFair
<1>1. FirstRunIInv => LimiterFair
  <2> SUFFICES ASSUME FirstRunIInv PROVE LimiterFair
    OBVIOUS
  <2>1. LimiterInv
    BY DEF FirstRunIInv, FirstRunTypeOK, LimiterInv
  <2>2. Window \in Nat /\ MaxAttempts \in Nat /\ MaxTime \in Nat
    BY FirstRunAssumption
  <2>3. /\ Cardinality(Earlier) <= MaxAttempts /\ limit.count <= MaxAttempts
        /\ Cardinality(tries \ Earlier) <= limit.count
        /\ now - limit.start <= Window => Cardinality(tries \ Earlier) = limit.count
    BY <2>1 DEF LimiterInv, LimiterIInv
  <2>4. /\ limit.count \in 0..MaxAttempts /\ limit.start \in 0..MaxTime /\ now \in 0..MaxTime
        /\ Cardinality(Earlier) \in Nat /\ Cardinality(tries \ Earlier) \in Nat
        /\ Cardinality(tries) = Cardinality(Earlier) + Cardinality(tries \ Earlier)
    BY <2>1, LimiterFields
  <2>5. AttemptsBounded
    BY <2>2, <2>3, <2>4 DEF AttemptsBounded, Tried
  <2>6. ASSUME ~WindowOver, LimitReached PROVE Tried >= MaxAttempts
    <3>1. now - limit.start <= Window /\ limit.count >= MaxAttempts
      BY <2>2, <2>4, <2>6 DEF WindowOver, LimitReached
    <3>2. QED
      BY <2>2, <2>3, <2>4, <3>1 DEF Tried
  <2>7. QED
    BY <2>5, <2>6 DEF LimiterFair, LockoutEarned
<1>2. QED
  BY <1>1, FirstRunInvariant, PTL

(* Once there is an account, setup changes its password only in a request  *)
(* that came in before there was one: whatever tokens are issued later     *)
(* (setup/actions.ts; the test for an account is before the awaits).       *)
THEOREM PasswordStaysSettled == FirstRunSpec => PasswordSettles
<1>1. FirstRunIInv /\ [FirstRunNext]_firstRunVars => [PasswordIsSettled]_firstRunVars
  <2> SUFFICES ASSUME FirstRunIInv, FirstRunNext, admin # NoUser, admin' # admin
               PROVE  \/ seeds' # seeds
                      \/ \E b \in Browsers : /\ request[b].pc = "hash"
                                             /\ request'[b].pc = "idle"
                                             /\ NoUser \in inForce[b]
    BY DEF PasswordIsSettled
  <2>1. LoginInv
    BY DEF FirstRunIInv, FirstRunTypeOK, LoginInv
  <2>2. ASSUME NEW b \in Browsers, SetupFinishes(b)
        PROVE  request[b].pc = "hash" /\ request'[b].pc = "idle" /\ NoUser \in inForce[b]
    BY <2>1, <2>2, LoginFields DEF SetupFinishes, NoRequest, LoginInv, RequestIInv
  <2>3. ASSUME NEW b \in Browsers, RequestStep(b) \/ Clicks(b) PROVE SetupFinishes(b)
    BY <2>3 DEF RequestStep, Clicks, SetupVerifies, LoginFinishes, SetupStarts, LoginStarts,
                LoginRefused, Logout
  <2>4. ASSUME NEW pw \in Browsers, Seed(pw) PROVE seeds' # seeds
    <3>1. seeds \in Int /\ seeds' = seeds + 1
      BY <2>1, <2>4, LoginFields, FirstRunAssumption DEF Seed
    <3>2. QED
      BY <3>1
  <2>5. \/ \E b \in Browsers : RequestStep(b) \/ Clicks(b)
        \/ \E pw \in Browsers : Seed(pw)
    BY DEF FirstRunNext, tierVars
  <2>6. QED
    BY <2>2, <2>3, <2>4, <2>5
<1>2. QED
  BY <1>1, FirstRunInvariant, PTL DEF FirstRunSpec, PasswordSettles

(* Rows of sessions are only added, or deleted.                            *)
LEMMA SessionRows ==
    ASSUME LoginInv, now \in 0..MaxTime, FirstRunNext,
           NEW id \in 1..Len(sessions), IsSessionValid(id)'
    PROVE  IsSessionValid(id)
<1>1. id # 0 /\ sessions'[id].row = "live" /\ sessions'[id].exp > now'
  BY DEF IsSessionValid
<1>2. sessions \in Seq(SessionRecords) /\ sessions[id] \in SessionRecords
  BY LoginFields
<1>3. sessions[id].exp \in Int
  BY <1>2, FirstRunAssumption DEF SessionRecords
<1>4. now' \in Int /\ now' >= now
  BY FirstRunAssumption DEF FirstRunNext, Tick
<1>5. ASSUME NEW b \in Browsers, CreateSession(b) PROVE sessions'[id] = sessions[id]
  BY <1>2, <1>5 DEF CreateSession
<1>6. ASSUME NEW b \in Browsers, Logout(b) PROVE sessions'[id] = sessions[id]
  BY <1>1, <1>6, LogoutRow
<1>7. ASSUME NEW b \in Browsers, RequestStep(b) \/ Clicks(b)
      PROVE  sessions' = sessions \/ CreateSession(b) \/ Logout(b)
  BY <1>7 DEF RequestStep, Clicks, SetupVerifies, SetupFinishes, LoginFinishes, SetupStarts,
              LoginStarts, LoginRefused
<1>8. \/ sessions' = sessions
      \/ \E b \in Browsers : RequestStep(b) \/ Clicks(b)
  BY DEF FirstRunNext, tierVars, Seed
<1>9. sessions'[id] = sessions[id]
  BY <1>5, <1>6, <1>7, <1>8
<1>10. QED
  BY <1>1, <1>3, <1>4, <1>9 DEF IsSessionValid

(* A new session belongs to a password that was the account's since the    *)
(* request came in, has a row nobody had, and stays over once it is over:  *)
(* for any number of browsers, whatever setups, seeds, logins and logouts  *)
(* overlap (login/actions.ts, session-db.ts).                              *)
THEOREM SessionsAreEarned == FirstRunSpec => SessionsEarned
<1>1. FirstRunIInv /\ [FirstRunNext]_firstRunVars => [SessionIsEarned]_firstRunVars
  <2> SUFFICES ASSUME FirstRunIInv, FirstRunNext PROVE SessionIsEarned
    OBVIOUS
  <2>1. LoginInv /\ now \in 0..MaxTime
    BY DEF FirstRunIInv, FirstRunTypeOK, LoginInv, LimitTypeOK
  <2>2. \A id \in 1..Len(sessions) : ~IsSessionValid(id) => ~IsSessionValid(id)'
    BY <2>1, SessionRows
  <2>3. ASSUME NEW b \in Browsers, cookie'[b] \notin {0, cookie[b]}
        PROVE  /\ cookie'[b] \notin DOMAIN sessions
               /\ request[b].pc = "verify" => request[b].pw \in inForce[b]
    <3>1. \E c \in Browsers : RequestStep(c) \/ Clicks(c)
      BY <2>3 DEF FirstRunNext, tierVars, Seed
    <3>2. PICK c \in Browsers : RequestStep(c) \/ Clicks(c)
      BY <3>1
    <3>3. ~Clicks(c)
      BY <2>1, <2>3, LoginFields DEF Clicks, SetupStarts, LoginStarts, LoginRefused, Logout
    <3>4. CreateSession(c) /\ (SetupFinishes(c) \/ LoginFinishes(c))
      BY <2>3, <3>2, <3>3 DEF RequestStep, SetupVerifies, SetupFinishes, LoginFinishes
    <3>5. c = b /\ cookie'[b] = Len(sessions) + 1
      BY <2>1, <2>3, <3>4, LoginFields DEF CreateSession
    <3>6. Len(sessions) + 1 \notin DOMAIN sessions
      BY <2>1, LoginFields
    <3>7. ASSUME request[b].pc = "verify" PROVE request[b].pw \in inForce[b]
      <4>1. LoginFinishes(b)
        BY <3>4, <3>5, <3>7 DEF SetupFinishes
      <4>2. request[b].proof = request[b].pw
        BY <2>3, <4>1 DEF LoginFinishes, VerifyPassword
      <4>3. QED
        BY <2>1, <3>7, <4>2 DEF LoginInv, RequestIInv
    <3>8. QED
      BY <3>5, <3>6, <3>7
  <2>4. QED
    BY <2>2, <2>3 DEF SessionIsEarned
<1>2. QED
  BY <1>1, FirstRunInvariant, PTL DEF FirstRunSpec, SessionsEarned
=============================================================================
