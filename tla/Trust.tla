------------------------------- MODULE Trust -------------------------------
(***************************************************************************)
(* Which plugins may do what: uploads into the staging directory by tier1, *)
(* the trust, trust-builtins and untrust requests of the admin socket, the *)
(* trust records and grants they leave in the state store, the bundle      *)
(* directories, the composed schema published after every change, and the  *)
(* reconcile run that validates a plan against the grants.                 *)
(*                                                                         *)
(* A bundle stands for its content, so for its sha256.  Tier1 and the      *)
(* orchestrator are different processes; requests of the orchestrator      *)
(* interleave at every await; the synchronous writes of a request are      *)
(* separate transactions, and a crash may fall between them.               *)
(***************************************************************************)
EXTENDS Integers, Validate, FiniteSets

CONSTANTS Bundles,       \* contents of bundle directories
          Builtins,      \* those the pluginhost ships
          IdOf, VersionOf, CapsOf,   \* their manifests
          DeployIds,     \* plugins that have the task deploy.plan
          NoBundle,
          Specs,         \* container specs deploy.plan may return
          Uploads,       \* uploads under way
          Reqs,          \* admin requests under way
          MaxUploads, MaxRequests, MaxTrouble   \* bounds

ASSUME TrustAssumption ==
    /\ Builtins \subseteq Bundles /\ IsFiniteSet(Bundles)
    /\ \A b \in Bundles : VersionOf[b] \in Nat
    /\ {MaxUploads, MaxRequests, MaxTrouble} \subseteq Nat

VARIABLES staged,     \* upload-<sha256> directories
          left,       \* .extracting directories nobody renamed
          up,         \* the uploads
          bundle,     \* wanfw_bundles/<sha256>: "none", "partial", "whole",
                      \* or "rewritten": all there, and being overwritten
          records,    \* live trust records, by their bundle
          grants,     \* live grants of each plugin
          req,        \* the admin requests
          schema,     \* schema.json: which bundle supplies each plugin's
          run,        \* the reconcile run
          given,      \* ghost: bundles trusted since the last untrust
          torn,       \* ghost: plugins a crash caught between two writes
          short,      \* ghost: bundles a disturbed, failed or crashed copy left short
          dirty,      \* ghost: requests overlapped or failed half way
          count       \* uploads, requests, crashes and failures so far

disk == <<staged, left, up>>
store == <<records, grants, given, torn>>
vars == <<disk, bundle, store, req, schema, run, short, dirty, count>>

Ids == {IdOf[b] : b \in Bundles}
Key(b) == <<IdOf[b], VersionOf[b]>>
LiveOf(id) == {b \in records : IdOf[b] = id}
Caps(S) == UNION {CapsOf[b] : b \in S}

NoUpload == [pc |-> "none", b |-> NoBundle]
NoReq == [pc |-> "idle", b |-> NoBundle, src |-> "none", todo |-> {},
          hit |-> "no", alone |-> "no", snap |-> <<>>]
NoRun == [pc |-> "idle", id |-> NoBundle, spec |-> {}]

\* buildComposedSchema: a plugin's later version overrides an earlier one.
\* VersionOf is the version's rank in the store's order, which compares
\* versions as strings ("1.10.0" comes before "1.9.0").
Composed(R) ==
    [id \in Ids |->
        LET of == {b \in R : IdOf[b] = id}
        IN  IF of = {} THEN NoBundle
            ELSE CHOOSE b \in of : \A c \in of : VersionOf[c] <= VersionOf[b]]

Init ==
    /\ staged = {} /\ left = {} /\ up = [u \in Uploads |-> NoUpload]
    /\ bundle = [b \in Bundles |-> "none"]
    /\ records = {} /\ grants = [id \in Ids |-> {}]
    /\ req = [r \in Reqs |-> NoReq]
    /\ schema = Composed({})
    /\ run = NoRun
    /\ given = [id \in Ids |-> {}] /\ torn = {} /\ short = {} /\ dirty = "no"
    /\ count = [up |-> 0, req |-> 0, trouble |-> 0]

Once(what, max) ==
    /\ count[what] < max
    /\ count' = [count EXCEPT ![what] = @ + 1]

-----------------------------------------------------------------------------
(* tier1: streamUploadToStaging                                            *)

\* The tar is received and extracted.  Until then the directory has a hash
\* nobody asks for, and an upload that fails removes it.
UploadExtracted(u, b) ==
    /\ up[u].pc = "none" /\ b \notin Builtins
    /\ Once("up", MaxUploads)
    /\ up' = [up EXCEPT ![u] = [pc |-> "extracted", b |-> b]]
    /\ UNCHANGED <<staged, left, bundle, store, req, schema, run, short, dirty>>

\* Copies that read the directory being removed or renamed notice it.
Disturb(b, src) ==
    req' = [r \in Reqs |->
              IF req[r].pc = "copy" /\ req[r].b = b /\ req[r].src = src
              THEN [req[r] EXCEPT !.hit = "yes"] ELSE req[r]]

UploadRemovesOld(u) ==
    /\ up[u].pc = "extracted"
    /\ staged' = staged \ {up[u].b}
    /\ up' = [up EXCEPT ![u].pc = "removed"]
    /\ Disturb(up[u].b, "dest")
    /\ UNCHANGED <<left, bundle, store, schema, run, short, dirty, count>>

\* The rename fails when another upload of the same content was faster.
UploadRenames(u) ==
    /\ up[u].pc = "removed"
    /\ up' = [up EXCEPT ![u] = NoUpload]
    /\ IF up[u].b \in staged
       THEN left' = left \cup {up[u].b} /\ staged' = staged /\ req' = req
       ELSE left' = left /\ staged' = staged \cup {up[u].b} /\ Disturb(up[u].b, "tmp")
    /\ UNCHANGED <<bundle, store, schema, run, short, dirty, count>>

\* Where listStagedBundles finds a directory of this content.
Sources(b) ==
    (IF b \in staged THEN {"dest"} ELSE {})
      \cup (IF \E u \in Uploads : up[u].b = b /\ up[u].pc \in {"extracted", "removed"}
            THEN {"tmp"} ELSE {})
      \cup (IF b \in left THEN {"left"} ELSE {})

-----------------------------------------------------------------------------
(* The admin requests                                                      *)

Busy == {r \in Reqs : req[r].pc # "idle"}
Copiers(b) == {r \in Reqs : req[r].pc = "copy" /\ req[r].b = b}

\* cp unlinks a file before it copies it, so two copies of one staged
\* bundle may each find a file gone.
Clash(p, q) == q.pc = "copy" /\ req[p].pc = "copy" /\ req[p].b = q.b /\ req[p].src # "host"

Starts(r, q) ==
    /\ req[r].pc = "idle"
    /\ Once("req", MaxRequests)
    /\ req' = [p \in Reqs |->
                 IF p = r
                 THEN [q EXCEPT !.alone = IF Busy = {} THEN "yes" ELSE "no",
                                !.hit = IF \E c \in Reqs : Clash(c, q) THEN "yes" ELSE "no"]
                 ELSE [req[p] EXCEPT !.alone = "no",
                                     !.hit = IF Clash(p, q) THEN "yes" ELSE @]]
    /\ dirty' = IF Busy = {} THEN dirty ELSE "yes"

\* mkdir, then cp or one writeFile after the other.  A directory that is
\* there already is overwritten in place.
BeginsCopy(b) ==
    bundle' = [bundle EXCEPT ![b] = IF @ \in {"whole", "rewritten"} THEN "rewritten" ELSE "partial"]

TrustStarts(r, b) ==
    /\ \E src \in Sources(b) : Starts(r, [NoReq EXCEPT !.pc = "copy", !.b = b, !.src = src])
    /\ BeginsCopy(b)
    /\ UNCHANGED <<disk, store, schema, run, short>>

\* builtins.list skips a directory it cannot read.
Listings == (SUBSET Builtins) \ {{}}

BuiltinsStart(r, B) ==
    /\ Starts(r, [NoReq EXCEPT !.pc = "builtins", !.todo = B])
    /\ UNCHANGED <<disk, bundle, store, schema, run, short>>

\* builtins.read: the files come over the connection.
Read(q, b) == [q EXCEPT !.pc = "copy", !.b = b, !.src = "host", !.todo = @ \ {b}]

BuiltinCopies(r, b) ==
    /\ req[r].pc = "builtins" /\ b \in req[r].todo
    /\ req' = [req EXCEPT ![r] = Read(@, b)]
    /\ BeginsCopy(b)
    /\ UNCHANGED <<disk, store, schema, run, short, dirty, count>>

\* The pluginhost connection fails: what was trusted so far stays, and the
\* schema is not published.
BuiltinsFail(r) ==
    /\ req[r].pc = "builtins"
    /\ Once("trouble", MaxTrouble)
    /\ req' = [req EXCEPT ![r] = NoReq]
    /\ dirty' = "yes"
    /\ UNCHANGED <<disk, bundle, store, schema, run, short>>

\* The directory of b with every file of it copied, but for what other
\* copies of it are doing.
Filled(b, others) == [bundle EXCEPT ![b] = IF others = {} THEN "whole" ELSE "rewritten"]

\* cp throws, because the directory it reads went away or another copy
\* unlinked the same file.  What it overwrote may lack a file.
CopyThrows(r) ==
    /\ req[r].pc = "copy" /\ req[r].hit = "yes"
    /\ LET b == req[r].b IN
         \/ /\ bundle[b] = "rewritten"
            /\ bundle' = Filled(b, Copiers(b) \ {r})
            /\ short' = short
         \/ /\ bundle' = [bundle EXCEPT ![b] = "partial"]
            /\ short' = short \cup {b}
    /\ req' = [req EXCEPT ![r] = NoReq]
    /\ UNCHANGED <<disk, store, schema, run, dirty, count>>

\* The trust record replaces the one of the same id and version.
RecordOf(b) == {c \in records : Key(c) # Key(b)} \cup {b}

\* recordTrustAndGrants: one row for the bundle, one for each capability.
Records(b) ==
    /\ records' = RecordOf(b)
    /\ grants' = [grants EXCEPT ![IdOf[b]] = @ \cup CapsOf[b]]
    /\ given' = [given EXCEPT ![IdOf[b]] = @ \cup {b}]
    /\ torn' = torn

After(q) == [q EXCEPT !.hit = "no", !.pc = IF q.todo = {} THEN "publish" ELSE "builtins"]

\* The copy is whole, or short of what was gone before it was listed; the
\* record follows in the same turn.
CopyEnds(r) ==
    /\ req[r].pc = "copy"
    /\ LET b == req[r].b IN
         /\ \/ /\ bundle' = Filled(b, Copiers(b) \ {r})
               /\ short' = short \ {b}
            \/ /\ req[r].hit = "yes" /\ bundle[b] = "partial"
               /\ bundle' = bundle
               /\ short' = short \cup {b}
         /\ Records(b)
    /\ req' = [req EXCEPT ![r] = After(@)]
    /\ UNCHANGED <<disk, schema, run, dirty, count>>

\* Wrong on purpose: the grants outlive the records.
RevokeRecordsOnly(id) ==
    /\ records' = records \ LiveOf(id)
    /\ grants' = grants
    /\ given' = [given EXCEPT ![id] = {}]
    /\ torn' = torn \ {id}

Revoke(id) ==
    /\ records' = records \ LiveOf(id)
    /\ grants' = [grants EXCEPT ![id] = {}]
    /\ given' = [given EXCEPT ![id] = {}]
    /\ torn' = torn \ {id}

\* untrustPlugin refuses an id without a live record.
Untrust(r, id) ==
    /\ LiveOf(id) # {}
    /\ Starts(r, [NoReq EXCEPT !.pc = "publish"])
    /\ Revoke(id)
    /\ UNCHANGED <<disk, bundle, schema, run, short>>

\* publishComposedSchema: the records are listed, each manifest is read (a
\* short copy may lack it), the document is written.
Readable == {R \in SUBSET records : {b \in records : bundle[b] = "whole"} \subseteq R}

PublishReads(r) ==
    /\ req[r].pc = "publish"
    /\ \E R \in Readable : req' = [req EXCEPT ![r] = [@ EXCEPT !.pc = "write", !.snap = Composed(R)]]
    /\ UNCHANGED <<disk, bundle, store, schema, run, short, dirty, count>>

\* Wrong on purpose: the request ends before the document is written.
PublishSkipped(r) ==
    /\ req[r].pc = "write"
    /\ schema' = schema
    /\ dirty' = IF req[r].alone = "yes" THEN "no" ELSE dirty
    /\ req' = [req EXCEPT ![r] = NoReq]
    /\ UNCHANGED <<disk, bundle, store, run, short, count>>

PublishWrites(r) ==
    /\ req[r].pc = "write"
    /\ schema' = req[r].snap
    /\ dirty' = IF req[r].alone = "yes" THEN "no" ELSE dirty
    /\ req' = [req EXCEPT ![r] = NoReq]
    /\ UNCHANGED <<disk, bundle, store, run, short, count>>

-----------------------------------------------------------------------------
(* The orchestrator stops, starts and publishes the schema; the uploads    *)
(* belong to tier1 and go on.                                              *)

Copying(Q) == {req[r].b : r \in {q \in Q : req[q].pc = "copy"}}

\* The copy of done had ended; those of cut are left as they are.
Restarts(done, cut) ==
    /\ Once("trouble", MaxTrouble)
    /\ \E B \in SUBSET cut :
         /\ bundle' = [b \in Bundles |->
                         IF b \in B THEN "partial"
                         ELSE IF b \in done \/ bundle[b] = "rewritten" THEN "whole"
                         ELSE bundle[b]]
         /\ short' = (short \ done) \cup B
    /\ req' = [r \in Reqs |-> NoReq]
    /\ run' = NoRun
    /\ \E R \in Readable' : schema' = Composed(R)
    /\ dirty' = "no"
    /\ UNCHANGED disk

Crash ==
    /\ UNCHANGED store
    /\ Restarts({}, Copying(Reqs))

\* Between the record and the last of its grants.
CrashInRecords(r) ==
    /\ req[r].pc = "copy"
    /\ LET b == req[r].b IN
         /\ records' = RecordOf(b)
         /\ \E S \in SUBSET CapsOf[b] : grants' = [grants EXCEPT ![IdOf[b]] = @ \cup S]
         /\ given' = [given EXCEPT ![IdOf[b]] = @ \cup {b}]
         /\ torn' = torn \cup {IdOf[b]}
         /\ Restarts({b}, Copying(Reqs \ {r}) \cup (IF req[r].hit = "yes" THEN {b} ELSE {}))

\* Between two of the rows untrust revokes.
CrashInRevoke(id) ==
    /\ LiveOf(id) # {}
    /\ \/ /\ \E R \in SUBSET LiveOf(id) : records' = records \ R
          /\ grants' = grants
       \/ /\ records' = records \ LiveOf(id)
          /\ \E S \in SUBSET grants[id] : grants' = [grants EXCEPT ![id] = S]
    /\ torn' = torn \cup {id}
    /\ given' = given
    /\ Restarts({}, Copying(Reqs))

-----------------------------------------------------------------------------
(* The reconcile run: PLAN invokes the bound deploy plugin, the newest of  *)
(* its trusted versions, which the pluginhost starts only when the hash of *)
(* the bundle matches, which it may while it is rewritten; VALIDATE loads  *)
(* the grants afresh; EXECUTE follows.                                     *)

PlanRun(id, spec) ==
    /\ run.pc = "idle" /\ id \in DeployIds /\ LiveOf(id) # {}
    /\ bundle[Composed(records)[id]] \in {"whole", "rewritten"}
    /\ run' = [pc |-> "planned", id |-> id, spec |-> spec]
    /\ UNCHANGED <<disk, bundle, store, req, schema, short, dirty, count>>

ValidateRun ==
    /\ run.pc = "planned"
    /\ run' = IF Violations(run.spec, grants[run.id]) = {}
              THEN [run EXCEPT !.pc = "validated"] ELSE NoRun
    /\ UNCHANGED <<disk, bundle, store, req, schema, short, dirty, count>>

ExecuteRun ==
    /\ run.pc = "validated"
    /\ run' = NoRun
    /\ UNCHANGED <<disk, bundle, store, req, schema, short, dirty, count>>

Next ==
    \/ \E u \in Uploads :
         \/ \E b \in Bundles : UploadExtracted(u, b)
         \/ UploadRemovesOld(u) \/ UploadRenames(u)
    \/ \E r \in Reqs :
         \/ \E b \in Bundles : TrustStarts(r, b) \/ BuiltinCopies(r, b)
         \/ \E B \in Listings : BuiltinsStart(r, B)
         \/ \E id \in Ids : Untrust(r, id)
         \/ BuiltinsFail(r) \/ CopyThrows(r) \/ CopyEnds(r)
         \/ PublishReads(r) \/ PublishWrites(r) \/ CrashInRecords(r)
    \/ Crash
    \/ \E id \in Ids : CrashInRevoke(id) \/ \E spec \in Specs : PlanRun(id, spec)
    \/ ValidateRun \/ ExecuteRun

Spec == Init /\ [][Next]_vars

-----------------------------------------------------------------------------

Schemas == [Ids -> Bundles \cup {NoBundle}]
UploadRecords == [pc : {"none", "extracted", "removed"}, b : Bundles \cup {NoBundle}]
ReqRecords ==
    [pc : {"idle", "builtins", "copy", "publish", "write"}, b : Bundles \cup {NoBundle},
     src : {"none", "dest", "tmp", "left", "host"}, todo : SUBSET Builtins,
     hit : {"no", "yes"}, alone : {"no", "yes"}, snap : Schemas \cup {<<>>}]
RunRecords ==
    [pc : {"idle", "planned", "validated"}, id : Ids \cup {NoBundle}, spec : Specs \cup {{}}]

DiskTypeOK ==
    /\ staged \subseteq Bundles /\ left \subseteq Bundles
    /\ up \in [Uploads -> UploadRecords]
    /\ \A u \in Uploads : up[u].pc # "none" => up[u].b \in Bundles
    /\ bundle \in [Bundles -> {"none", "partial", "whole", "rewritten"}] /\ short \subseteq Bundles

StoreTypeOK ==
    /\ records \subseteq Bundles
    /\ \A b, c \in records : Key(b) = Key(c) => b = c
    /\ grants \in [Ids -> SUBSET Caps(Bundles)]
    /\ given \in [Ids -> SUBSET Bundles] /\ torn \subseteq Ids

RequestTypeOK ==
    /\ req \in [Reqs -> ReqRecords]
    /\ \A r \in Reqs : /\ req[r].pc = "copy" => req[r].b \in Bundles
                       /\ req[r].pc = "write" => req[r].snap \in Schemas
    /\ schema \in Schemas
    /\ run \in RunRecords /\ (run.pc # "idle" => run.id \in Ids)
    /\ dirty \in {"no", "yes"}

\* Types of the variables.
TypeOK ==
    /\ DiskTypeOK /\ StoreTypeOK /\ RequestTypeOK
    /\ count \in [up : 0..MaxUploads, req : 0..MaxRequests, trouble : 0..MaxTrouble]

\* A plugin's live grants are the capabilities of what was trusted under
\* its id since it was last untrusted, through upgrades, re-trusts of the
\* same version, overlapping requests and restarts; without a live record
\* it has none.  A crash between the writes of one request may leave fewer
\* grants or records, and the next completed untrust clears what is left.
GrantsExact ==
    \A id \in Ids \ torn :
        /\ grants[id] = Caps(given[id])
        /\ LiveOf(id) = {} => grants[id] = {}

\* What is recorded as trusted can be run: its directory holds the content
\* of the recorded hash, whatever was uploaded meanwhile, but while it is
\* trusted again, and unless a copy that was disturbed, threw or was cut
\* by a crash left it short, and then until it is trusted again.
RecordedIsWhole ==
    \A b \in records : bundle[b] = "whole" \/ b \in short \/ Copiers(b) # {}

\* compose.ts: the schema is published "after every plugin-set change".
\* It is the schema of the trusted set whenever nothing is under way,
\* unless requests overlapped or failed half way, and the next request
\* that runs alone mends that.
SchemaFits == \E R \in Readable : schema = Composed(R)
SchemaCurrent == (Busy = {} /\ dirty = "no") => SchemaFits

\* What requests leave behind on disk: types, whole bundles (RecordedIsWhole) and
\* a schema that fits the records (SchemaCurrent).
Inv == TypeOK /\ RecordedIsWhole /\ SchemaCurrent

\* A plan gets past VALIDATE only when what it asks for, resolved as the
\* host resolves it, was declared by content the operator trusted and has
\* not untrusted since: not by the grant of another capability, a path
\* that climbs out of its directory, or a plugin untrusted after PLAN.
ValidatedByTrust ==
    [][(run.pc = "planned" /\ run'.pc = "validated") =>
         \A ask \in run.spec : Declared(Caps(given[run.id]), ask)]_vars

\* The part of ValidatedByTrust that does not depend on how a path is
\* resolved: what VALIDATE lets through would pass it with nothing but the
\* capabilities declared by content trusted since the last untrust.
ValidationIsByContent ==
    (run.pc = "planned" /\ run'.pc = "validated") =>
        Violations(run.spec, Caps(given[run.id])) = {}
ValidatedByContent == [][ValidationIsByContent]_vars

-----------------------------------------------------------------------------
(* The inductive invariants.                                               *)

\* Behind ValidatedByTrust: whatever a crash cut short, no grant is live
\* that trusted content did not declare.
GrantsWithin == \A id \in Ids : grants[id] \subseteq Caps(given[id])

\* Behind RecordedIsWhole: only a copy under way leaves a directory
\* partial or rewritten without a mark.
BundleIInv ==
    /\ \A b \in records : bundle[b] \in {"whole", "rewritten"} \/ b \in short
    /\ \A b \in Bundles : bundle[b] = "rewritten" => Copiers(b) # {}
    /\ \A r \in Reqs : req[r].pc = "copy" => bundle[req[r].b] \in {"partial", "rewritten"}

\* Behind SchemaCurrent: a request marked alone is the only one, requests
\* that are not leave the mark dirty, what one that is alone will write fits
\* the records, and an upload's copy that fails has changed none of them.
Firm == {R \in SUBSET records : {b \in records : bundle[b] \in {"whole", "rewritten"}} \subseteq R}
SchemaIInv ==
    /\ \A r \in Reqs :
         /\ req[r].alone = "yes" => Busy = {r}
         /\ req[r].pc # "idle" /\ dirty = "no" => req[r].alone = "yes"
         /\ req[r].pc = "write" /\ req[r].alone = "yes" =>
              \E R \in Firm : req[r].snap = Composed(R)
         /\ req[r].hit = "yes" => req[r].pc = "copy" /\ req[r].src # "host"
    /\ (/\ dirty = "no"
        /\ \A r \in Busy : req[r].pc = "copy" /\ req[r].src # "host") =>
         \E R \in Firm : schema = Composed(R)

IInv == TypeOK /\ GrantsExact /\ GrantsWithin /\ BundleIInv /\ SchemaIInv
=============================================================================
