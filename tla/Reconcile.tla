------------------------------- MODULE Reconcile -------------------------------
(***************************************************************************)
(* The reconcile pipeline of the orchestrator: what each stage reads,      *)
(* carries in its context and does to Docker, composed with the engine     *)
(* that drives it (ReconcileEngine) and with everything that moves while a *)
(* run is in flight: service documents, the framework document, approvals, *)
(* Docker failures, containers stopping, and the orchestrator restarting.  *)
(*                                                                         *)
(* One action is one await of the code.  Service documents are abstracted  *)
(* to what the pipeline tells apart: the part of the container spec that   *)
(* the approval binds (proj), the rest of the spec (env) and the opt-in to *)
(* volume removal (rm).  Each service has one named volume.                *)
(***************************************************************************)
EXTENDS ReconcileEngine

CONSTANTS
    Services,          \* service ids
    Projections,       \* powerful projections (image, binds, devices, ports, ...)
    Powerful,          \* the projections VALIDATE classifies as powerful
    Envs,              \* everything else in a container spec
    Unjoinable,        \* configurations Docker lets join no further network
                       \* (networkMode host, none or container:...)
    SelfExposed,       \* services GATE forces to the powerful tier ("tier1")
    None,              \* absence: no document, no object, no service
    MaxEdits,          \* bound on document, framework and approval changes
    MaxFaults,         \* bound on failing calls and stopping containers
    MaxListFaults,     \* bound on unreadable directory listings
    MaxRestarts        \* bound on orchestrator restarts

Load == 1
Resolve == 2
Plan == 3
Renewal == 4
Validate == 5
Gate == 6
Execute == 7
Observe == 8

Docs == [proj : Projections, env : Envs, rm : BOOLEAN]
Configs == [proj : Projections, env : Envs]
Hashes == Services \X Projections
StrictValues == {"powerful", "all"}
States == {"created", "running", "exited"}

ASSUME ReconcileAssumption ==
    /\ NStages = Observe
    /\ Degrading \subseteq {Renewal}
    /\ Powerful \subseteq Projections
    /\ Unjoinable \subseteq Configs
    /\ SelfExposed \subseteq Services
    /\ None \notin Services \cup Docs \cup StrictValues \cup {"keep", "remove"}
    /\ None \notin [config : Configs, state : States]
    /\ None \notin [config : SUBSET Services, state : States, nets : SUBSET Services]
    /\ MaxEdits \in Nat /\ MaxFaults \in Nat
    /\ MaxListFaults \in Nat /\ MaxRestarts \in Nat

VARIABLES
    docs,       \* wanfw_desired/services/<id>.json
    fw,         \* framework document: its strictApprovals, or None before init
    approvals,  \* projection hashes with a live row in the approvals table
    ctxDocs,    \* ctx.desiredState.services
    ctxFw,      \* ctx.desiredState.framework
    ctxGate,    \* ctx.gateSnapshot
    step,       \* where in the current stage the run is waiting
    todo,       \* services the stage's current loop has still to visit
    cur,        \* the service EXECUTE is working on
    observed,   \* services OBSERVE's last listing found running
    snapshot,   \* gateSnapshotHolder.services: the gated hashes
    nets,       \* services whose wanfw_svc_<id> network exists
    exposure,   \* the exposure network exists
    vols,       \* the service's volume: None, "keep" or "remove" (its label)
    ctrs,       \* wanfw_<id>: None or its config and state
    proxy,      \* wanfw-proxy: None or its config, state and service networks
    cfgFile,    \* services routed by the Caddyfile on disk
    served,     \* services routed by the running proxy
    status,     \* phase in wanfw_status/services/<id>.json, None if absent
    budget,     \* remaining edits, faults, list faults and restarts
    blame,      \* history: why the run in flight has failed
    absent,     \* history: services without a document at some time in this run
    revoked,    \* history: hashes revoked since GATE read the approvals, or since
                \* the run began
    optedIn     \* history: services whose document ever asked for rm

desiredVars == <<docs, fw, approvals>>
ctxVars == <<ctxDocs, ctxFw, ctxGate, step, todo, cur, observed>>
dockerVars == <<nets, exposure, vols, ctrs, proxy>>
proxyCfgVars == <<cfgFile, served>>
runHistory == <<blame, absent, revoked>>
vars == <<running, pendingRerun, stage, degraded, phase, booted,
          docs, fw, approvals, ctxDocs, ctxFw, ctxGate, step, todo, cur, observed,
          snapshot, nets, exposure, vols, ctrs, proxy, cfgFile, served, status,
          budget, blame, absent, revoked, optedIn>>

Containers == [config : Configs, state : States]
ProxyContainers == [config : SUBSET Services, state : States, nets : SUBSET Services]

DesiredTypeOK ==
    /\ docs \in [Services -> Docs \cup {None}]
    /\ fw \in StrictValues \cup {None}
    /\ approvals \subseteq Hashes
    /\ snapshot \subseteq Hashes

CtxTypeOK ==
    /\ ctxDocs \in [Services -> Docs \cup {None}]
    /\ ctxFw \in StrictValues \cup {None}
    /\ ctxGate \in [Services -> {"ungated", "approved", "parked"}]
    /\ step \in {"list", "read", "stage", "service", "volume", "container", "create",
                 "start", "join", "proxy", "proxyCreate", "proxyStart", "connect",
                 "reload", "gc", "status"}
    /\ todo \subseteq Services
    /\ cur \in Services \cup {None}
    /\ observed \subseteq Services

DockerTypeOK ==
    /\ nets \subseteq Services
    /\ exposure \in BOOLEAN
    /\ vols \in [Services -> {None, "keep", "remove"}]
    /\ ctrs \in [Services -> Containers \cup {None}]
    /\ proxy \in ProxyContainers \cup {None}
    /\ cfgFile \subseteq Services
    /\ served \subseteq Services
    /\ status \in [Services -> {None, "live", "reconciling", "pending-approval"}]

HistoryTypeOK ==
    /\ budget \in [edits : 0..MaxEdits, faults : 0..MaxFaults,
                   lists : 0..MaxListFaults, restarts : 0..MaxRestarts]
    /\ blame \in {"none", "fault", "load-race", "no-plugins", "no-network", "endpoints",
                 "unjoinable"}
    /\ absent \subseteq Services
    /\ revoked \subseteq Hashes
    /\ optedIn \subseteq Services

TypeOK == EngineTypeOK /\ DesiredTypeOK /\ CtxTypeOK /\ DockerTypeOK /\ HistoryTypeOK

-----------------------------------------------------------------------------
(* What the pipeline computes from a loaded document.                      *)
ConfigOf(d) == [proj |-> d.proj, env |-> d.env]  \* deploy.plan; its confighash
(* Wrong on purpose: the hash binds the service but not what it may do.    *)
HashOfService(s, d) == <<s, CHOOSE p \in Projections : TRUE>>

HashOf(s, d) == <<s, d.proj>>                    \* computePowerfulProjectionHash
Planned == {s \in Services : ctxDocs[s] # None}

RequiresApproval(s, d, strict) ==
    d.proj \in Powerful \/ s \in SelfExposed \/ strict = "all"

GateFor(s, d, strict, approved) ==
    CASE d = None -> "ungated"
      [] d # None /\ ~RequiresApproval(s, d, strict) -> "ungated"
      [] d # None /\ RequiresApproval(s, d, strict) ->
             IF HashOf(s, d) \in approved THEN "approved" ELSE "parked"

Spend(kind) ==
    /\ budget[kind] > 0
    /\ budget' = [budget EXCEPT ![kind] = @ - 1]

(* A run begins with an empty ctx; LOAD reads the framework document       *)
(* before its first await.                                                 *)
FreshRun ==
    /\ ctxDocs' = [s \in Services |-> None]
    /\ ctxFw' = fw'
    /\ ctxGate' = [s \in Services |-> "ungated"]
    /\ step' = "list"
    /\ todo' = {}
    /\ cur' = None
    /\ observed' = {}
    /\ blame' = "none"
    /\ absent' = {s \in Services : docs'[s] = None}
    /\ revoked' = {}

Init ==
    /\ EngineInit
    /\ docs \in [Services -> Docs \cup {None}]
    /\ fw \in StrictValues \cup {None}
    /\ approvals = {}
    /\ ctxDocs = [s \in Services |-> None]
    /\ ctxFw = fw
    /\ ctxGate = [s \in Services |-> "ungated"]
    /\ step = "list"
    /\ todo = {}
    /\ cur = None
    /\ observed = {}
    /\ snapshot = {}
    /\ nets = {}
    /\ exposure = FALSE
    /\ vols = [s \in Services |-> None]
    /\ ctrs = [s \in Services |-> None]
    /\ proxy = None
    /\ cfgFile = {}
    /\ served = {}
    /\ status = [s \in Services |-> None]
    /\ budget = [edits |-> MaxEdits, faults |-> MaxFaults,
                 lists |-> MaxListFaults, restarts |-> MaxRestarts]
    /\ blame = "none"
    /\ absent = {s \in Services : docs[s] = None}
    /\ revoked = {}
    /\ optedIn = {s \in Services : docs[s] # None /\ docs[s].rm}

-----------------------------------------------------------------------------
(* LOAD: list services/*.json, then read the documents one by one.         *)

(* listJsonFiles turns every readdir error into an empty list.             *)
Listings ==
    {{s \in Services : docs[s] # None}} \cup (IF budget.lists > 0 THEN {{}} ELSE {})

LoadList ==
    /\ stage = Load /\ step = "list"
    /\ \E listed \in Listings :
          /\ todo' = listed
          /\ budget' = IF listed = {s \in Services : docs[s] # None}
                       THEN budget ELSE [budget EXCEPT !.lists = @ - 1]
    /\ step' = "read"
    /\ UNCHANGED <<engineVars, desiredVars, ctxDocs, ctxFw, ctxGate, cur, observed,
                   snapshot, dockerVars, proxyCfgVars, status, runHistory, optedIn>>

(* A document deleted since the listing is a load error, kept for the end. *)
LoadRead(s) ==
    /\ stage = Load /\ step = "read" /\ s \in todo
    /\ todo' = todo \ {s}
    /\ ctxDocs' = [ctxDocs EXCEPT ![s] = docs[s]]
    /\ blame' = IF docs[s] = None THEN "load-race" ELSE blame
    /\ UNCHANGED <<engineVars, desiredVars, ctxFw, ctxGate, step, cur, observed,
                   snapshot, dockerVars, proxyCfgVars, status, budget, absent, revoked, optedIn>>

LoadEnds ==
    /\ stage = Load /\ step = "read" /\ todo = {}
    /\ \/ blame = "none" /\ StageOk(FALSE)
       \/ blame # "none" /\ StageFail
    /\ step' = "stage"
    /\ UNCHANGED <<desiredVars, ctxDocs, ctxFw, ctxGate, todo, cur, observed,
                   snapshot, dockerVars, proxyCfgVars, status, budget, runHistory, optedIn>>

(* main.ts opens the plugin socket only after the boot run, so during that *)
(* run every plugin invocation fails with "pluginhost unreachable".        *)
PluginsReachable == booted

(* RESOLVE, PLAN, RENEWAL and VALIDATE compute from ctx, the trusted       *)
(* plugins and the grants; what they put into ctx is a function of ctxDocs *)
(* here, and a refusal by any of them is a Fault.                          *)
PassesFrame ==
    UNCHANGED <<desiredVars, ctxVars, snapshot, dockerVars, proxyCfgVars, status,
                budget, runHistory, optedIn>>

ResolveStage == stage = Resolve /\ StageOk(FALSE) /\ PassesFrame

PlanStage ==
    /\ stage = Plan
    /\ ctxFw = None \/ PluginsReachable
    /\ StageOk(FALSE)
    /\ PassesFrame

(* With names to certify, no certificate or one close to expiry degrades   *)
(* the run; a failed renewal does not fail it.                             *)
RenewalStage ==
    /\ stage = Renewal
    /\ \E escalated \in BOOLEAN :
          /\ escalated => ctxFw # None /\ Planned # {}
          /\ StageOk(escalated)
    /\ PassesFrame

ValidateStage == stage = Validate /\ StageOk(FALSE) /\ PassesFrame

(* Before the framework document exists GATE, EXECUTE and OBSERVE return   *)
(* at once.                                                                *)
PreInitStage ==
    /\ stage \in {Gate, Execute, Observe} /\ ctxFw = None
    /\ StageOk(FALSE)
    /\ PassesFrame

(* A plugin that cannot be reached fails PLAN.                             *)
PlanUnreachable ==
    /\ stage = Plan /\ ctxFw # None /\ ~PluginsReachable
    /\ StageFail
    /\ blame' = "no-plugins"
    /\ UNCHANGED <<desiredVars, ctxVars, snapshot, dockerVars, proxyCfgVars, status,
                   budget, absent, revoked, optedIn>>

(* Wrong on purpose: parked services stay in EXECUTE's loop.               *)
GateStageAnnotates ==
    /\ stage = Gate /\ ctxFw # None
    /\ StageOk(FALSE)
    /\ ctxGate' = [s \in Services |-> GateFor(s, ctxDocs[s], ctxFw, approvals)]
    /\ snapshot' = {HashOf(s, ctxDocs[s]) :
                       s \in {t \in Planned : RequiresApproval(t, ctxDocs[t], ctxFw)}}
    /\ step' = "service"
    /\ todo' = Planned
    /\ revoked' = {}
    /\ UNCHANGED <<desiredVars, ctxDocs, ctxFw, cur, observed, dockerVars, proxyCfgVars, status,
                   budget, blame, absent, optedIn>>

(* GATE: the approvals are read here, once per run.  EXECUTE then starts   *)
(* on the services that are not parked.                                    *)
GateStage ==
    /\ stage = Gate /\ ctxFw # None
    /\ StageOk(FALSE)
    /\ ctxGate' = [s \in Services |-> GateFor(s, ctxDocs[s], ctxFw, approvals)]
    /\ snapshot' = {HashOf(s, ctxDocs[s]) :
                       s \in {t \in Planned : RequiresApproval(t, ctxDocs[t], ctxFw)}}
    /\ step' = "service"
    /\ todo' = {s \in Planned : ctxGate'[s] # "parked"}
    /\ revoked' = {}
    /\ UNCHANGED <<desiredVars, ctxDocs, ctxFw, cur, observed, dockerVars, proxyCfgVars, status,
                   budget, blame, absent, optedIn>>

-----------------------------------------------------------------------------
(* EXECUTE, service by service.                                            *)
ExecuteFrame ==
    UNCHANGED <<engineVars, desiredVars, ctxDocs, ctxFw, ctxGate, observed, snapshot,
                exposure, proxy, proxyCfgVars, status, budget, runHistory, optedIn>>

EnsureNetwork(s) ==
    /\ stage = Execute /\ step = "service" /\ s \in todo
    /\ nets' = nets \cup {s}
    /\ todo' = todo \ {s}
    /\ cur' = s
    /\ step' = "volume"
    /\ ExecuteFrame /\ UNCHANGED <<vols, ctrs>>

(* Created if absent, with the label the document asks for now; an         *)
(* existing volume is left as it is, label included.                       *)
EnsureVolume ==
    /\ stage = Execute /\ step = "volume"
    /\ vols' = [vols EXCEPT ![cur] =
                   IF @ # None THEN @ ELSE IF ctxDocs[cur].rm THEN "remove" ELSE "keep"]
    /\ step' = "container"
    /\ ExecuteFrame /\ UNCHANGED <<nets, ctrs, todo, cur>>

(* Wrong on purpose: a container with the right hash is left alone even    *)
(* when it is stopped, or is recreated even though nothing changed.        *)
EnsureContainerByHashOnly ==
    /\ stage = Execute /\ step = "container"
    /\ LET want == ConfigOf(ctxDocs[cur])
           have == ctrs[cur]
       IN  \/ /\ have # None /\ have.config = want
              /\ step' = "join" /\ UNCHANGED ctrs
           \/ /\ have # None /\ have.config # want
              /\ ctrs' = [ctrs EXCEPT ![cur] = None]
              /\ step' = "create"
           \/ /\ have = None
              /\ ctrs' = [ctrs EXCEPT ![cur] = [config |-> want, state |-> "created"]]
              /\ step' = "start"
    /\ ExecuteFrame /\ UNCHANGED <<nets, vols, todo, cur>>

EnsureContainerAfresh ==
    /\ stage = Execute /\ step = "container"
    /\ ctrs' = [ctrs EXCEPT ![cur] = None]
    /\ step' = "create"
    /\ ExecuteFrame /\ UNCHANGED <<nets, vols, todo, cur>>

(* The confighash decides: unchanged, start, or remove and create.         *)
EnsureContainer ==
    /\ stage = Execute /\ step = "container"
    /\ LET want == ConfigOf(ctxDocs[cur])
           have == ctrs[cur]
       IN  \/ /\ have # None /\ have.config = want
              /\ ctrs' = [ctrs EXCEPT ![cur].state = "running"]
              /\ step' = "join"
           \/ /\ have # None /\ have.config # want
              /\ ctrs' = [ctrs EXCEPT ![cur] = None]
              /\ step' = "create"
           \/ /\ have = None
              /\ ctrs' = [ctrs EXCEPT ![cur] = [config |-> want, state |-> "created"]]
              /\ step' = "start"
    /\ ExecuteFrame /\ UNCHANGED <<nets, vols, todo, cur>>

CreateContainer ==
    /\ stage = Execute /\ step = "create"
    /\ ctrs' = [ctrs EXCEPT ![cur] = [config |-> ConfigOf(ctxDocs[cur]), state |-> "created"]]
    /\ step' = "start"
    /\ ExecuteFrame /\ UNCHANGED <<nets, vols, todo, cur>>

StartContainer ==
    /\ stage = Execute /\ step = "start"
    /\ ctrs' = [ctrs EXCEPT ![cur].state = "running"]
    /\ step' = "join"
    /\ ExecuteFrame /\ UNCHANGED <<nets, vols, todo, cur>>

(* The connect that follows ensureContainer in every run, for the one      *)
(* network a validated spec may name, wanfw_svc_<id>.  A container created *)
(* in that network is found attached, one with a bridge of its own is      *)
(* attached now; a container whose networkMode admits no further network   *)
(* is never attached, and Docker refuses the attempt every time.           *)
JoinNetwork ==
    /\ stage = Execute /\ step = "join"
    /\ \/ /\ ConfigOf(ctxDocs[cur]) \notin Unjoinable
          /\ step' = "service"
          /\ UNCHANGED <<engineVars, todo, blame>>
       \/ /\ ConfigOf(ctxDocs[cur]) \in Unjoinable
          /\ StageFail
          /\ blame' = "unjoinable" /\ step' = "stage" /\ todo' = {}
    /\ UNCHANGED <<desiredVars, ctxDocs, ctxFw, ctxGate, cur, observed, snapshot,
                   dockerVars, proxyCfgVars, status, budget, absent, revoked, optedIn>>

(* EXECUTE, the core-emitted proxy: it joins the network of every planned  *)
(* service, whatever GATE said of it.                                      *)
ProxyFrame ==
    UNCHANGED <<desiredVars, ctxDocs, ctxFw, ctxGate, cur, observed, snapshot, nets, vols, ctrs,
                status, budget, absent, revoked, optedIn>>

EnsureExposure ==
    /\ stage = Execute /\ step = "service" /\ todo = {}
    /\ exposure' = TRUE
    /\ step' = "proxy"
    /\ ProxyFrame /\ UNCHANGED <<engineVars, todo, proxy, proxyCfgVars, blame>>

(* Wrong on purpose: the proxy is only ever joined to more networks.       *)
EnsureProxyAdditive ==
    /\ stage = Execute /\ step = "proxy"
    /\ \/ /\ proxy # None
          /\ proxy' = [proxy EXCEPT !.state = "running", !.config = Planned]
          /\ served' = IF proxy.state = "running" THEN served ELSE cfgFile
          /\ step' = "connect" /\ todo' = Planned
       \/ /\ proxy = None
          /\ proxy' = [config |-> Planned, state |-> "created", nets |-> {}]
          /\ step' = "proxyStart" /\ UNCHANGED <<todo, served>>
    /\ ProxyFrame /\ UNCHANGED <<engineVars, exposure, cfgFile, blame>>

(* A container that starts reads the Caddyfile it finds.                   *)
EnsureProxy ==
    /\ stage = Execute /\ step = "proxy"
    /\ \/ /\ proxy # None /\ proxy.config = Planned
          /\ proxy' = [proxy EXCEPT !.state = "running"]
          /\ served' = IF proxy.state = "running" THEN served ELSE cfgFile
          /\ step' = "connect" /\ todo' = Planned
       \/ /\ proxy # None /\ proxy.config # Planned
          /\ proxy' = None
          /\ served' = {}
          /\ step' = "proxyCreate" /\ UNCHANGED todo
       \/ /\ proxy = None
          /\ proxy' = [config |-> Planned, state |-> "created", nets |-> {}]
          /\ step' = "proxyStart" /\ UNCHANGED <<todo, served>>
    /\ ProxyFrame /\ UNCHANGED <<engineVars, exposure, cfgFile, blame>>

CreateProxy ==
    /\ stage = Execute /\ step = "proxyCreate"
    /\ proxy' = [config |-> Planned, state |-> "created", nets |-> {}]
    /\ step' = "proxyStart"
    /\ ProxyFrame /\ UNCHANGED <<engineVars, todo, exposure, proxyCfgVars, blame>>

StartProxy ==
    /\ stage = Execute /\ step = "proxyStart"
    /\ proxy' = [proxy EXCEPT !.state = "running"]
    /\ served' = cfgFile
    /\ step' = "connect" /\ todo' = Planned
    /\ ProxyFrame /\ UNCHANGED <<engineVars, exposure, cfgFile, blame>>

(* connectNetwork throws for a network that does not exist.                *)
ConnectProxy(s) ==
    /\ stage = Execute /\ step = "connect" /\ s \in todo
    /\ \/ /\ s \in proxy.nets \cup nets
          /\ proxy' = [proxy EXCEPT !.nets = @ \cup {s}]
          /\ todo' = todo \ {s}
          /\ UNCHANGED <<engineVars, step, blame>>
       \/ /\ s \notin proxy.nets \cup nets
          /\ StageFail
          /\ blame' = "no-network" /\ step' = "stage" /\ todo' = {}
          /\ UNCHANGED proxy
    /\ ProxyFrame /\ UNCHANGED <<exposure, proxyCfgVars>>

WriteConfig ==
    /\ stage = Execute /\ step = "connect" /\ todo = {}
    /\ cfgFile' = Planned
    /\ step' = "reload"
    /\ ProxyFrame /\ UNCHANGED <<engineVars, todo, exposure, proxy, served, blame>>

(* docker exec needs the proxy to be running.                              *)
ReloadProxy ==
    /\ stage = Execute /\ step = "reload"
    /\ \/ /\ proxy.state = "running"
          /\ served' = cfgFile
          /\ StageOk(FALSE)
          /\ step' = "gc" /\ UNCHANGED blame
       \/ /\ proxy.state # "running"
          /\ StageFail
          /\ blame' = "fault" /\ step' = "stage" /\ UNCHANGED served
    /\ ProxyFrame /\ UNCHANGED <<todo, exposure, proxy, cfgFile>>

-----------------------------------------------------------------------------
(* OBSERVE: garbage collection in the order containers, networks, volumes, *)
(* then the status documents.                                              *)
(* Wrong on purpose: a parked service counts as one that is gone.          *)
ContainersWithoutPlan ==
    {s \in Services : ctrs[s] # None /\ (ctxDocs[s] = None \/ ctxGate[s] = "parked")}

OrphanContainers == {s \in Services : ctrs[s] # None /\ ctxDocs[s] = None}
OrphanNetworks == {s \in nets : ctxDocs[s] = None}
(* Wrong on purpose: the label is not looked at.                           *)
VolumesWithoutService == {s \in Services : vols[s] # None /\ ctxDocs[s] = None}

OrphanVolumes == {s \in Services : vols[s] = "remove" /\ ctxDocs[s] = None}

ObserveFrame ==
    UNCHANGED <<desiredVars, ctxDocs, ctxFw, ctxGate, cur, snapshot, exposure, proxy,
                proxyCfgVars, budget, absent, revoked, optedIn>>

GcContainer(s) ==
    /\ stage = Observe /\ step = "gc" /\ s \in OrphanContainers
    /\ ctrs' = [ctrs EXCEPT ![s] = None]
    /\ ObserveFrame /\ UNCHANGED <<engineVars, step, todo, observed, nets, vols, status, blame>>

(* Docker refuses to remove a network a running container is attached to.  *)
InUse(s) ==
    \/ proxy # None /\ proxy.state = "running" /\ s \in proxy.nets
    \/ ctrs[s] # None /\ ctrs[s].state = "running"

GcNetwork(s) ==
    /\ stage = Observe /\ step = "gc" /\ OrphanContainers = {} /\ s \in OrphanNetworks
    /\ \/ /\ ~InUse(s)
          /\ nets' = nets \ {s}
          /\ UNCHANGED <<engineVars, step, blame>>
       \/ /\ InUse(s)
          /\ StageFail
          /\ blame' = "endpoints" /\ step' = "stage" /\ UNCHANGED nets
    /\ ObserveFrame /\ UNCHANGED <<todo, observed, ctrs, vols, status>>

GcVolume(s) ==
    /\ stage = Observe /\ step = "gc" /\ OrphanContainers = {} /\ OrphanNetworks = {}
    /\ s \in OrphanVolumes
    /\ vols' = [vols EXCEPT ![s] = None]
    /\ ObserveFrame /\ UNCHANGED <<engineVars, step, todo, observed, ctrs, nets, status, blame>>

(* The containers are listed once more; every status document is then      *)
(* written from that listing, and those of other services are removed.     *)
ListRemaining ==
    /\ stage = Observe /\ step = "gc"
    /\ OrphanContainers = {} /\ OrphanNetworks = {} /\ OrphanVolumes = {}
    /\ observed' = {s \in Services : ctrs[s] # None /\ ctrs[s].state = "running"}
    /\ todo' = Planned
    /\ step' = "status"
    /\ ObserveFrame /\ UNCHANGED <<engineVars, ctrs, nets, vols, status, blame>>

ServicePhase(s) ==
    CASE ctxGate[s] = "parked" -> "pending-approval"
      [] ctxGate[s] # "parked" /\ s \in observed -> "live"
      [] OTHER -> "reconciling"

WriteStatus(s) ==
    /\ stage = Observe /\ step = "status" /\ s \in todo
    /\ status' = [status EXCEPT ![s] = ServicePhase(s)]
    /\ todo' = todo \ {s}
    /\ ObserveFrame /\ UNCHANGED <<engineVars, step, observed, ctrs, nets, vols, blame>>

StaleStatus == {s \in Services \ Planned : status[s] # None}

RemoveStatus(s) ==
    /\ stage = Observe /\ step = "status" /\ todo = {} /\ s \in StaleStatus
    /\ status' = [status EXCEPT ![s] = None]
    /\ ObserveFrame
    /\ UNCHANGED <<engineVars, step, todo, observed, ctrs, nets, vols, blame>>

ObserveEnds ==
    /\ stage = Observe /\ step = "status" /\ todo = {} /\ StaleStatus = {}
    /\ StageOk(FALSE)
    /\ step' = "stage"
    /\ ObserveFrame /\ UNCHANGED <<todo, observed, ctrs, nets, vols, status, blame>>

-----------------------------------------------------------------------------
(* The loop around the pipeline.  A finished run's ctx is dropped.         *)
Again ==
    /\ LoopAgain
    /\ UNCHANGED <<desiredVars, snapshot, dockerVars, proxyCfgVars, status, budget, optedIn>>
    /\ FreshRun

Ends ==
    /\ LoopEnds
    /\ UNCHANGED <<desiredVars, snapshot, dockerVars, proxyCfgVars, status, budget, optedIn>>
    /\ FreshRun

(* What trigger() does to the pipeline: nothing, or the start of a run.    *)
Triggers(source) ==
    /\ Trigger(source)
    /\ IF running THEN UNCHANGED <<ctxVars, blame, absent>> ELSE FreshRun

(* The 60s timer; the watcher's 30s poll, a nudge, a renewed or rolled     *)
(* back certificate do no more and no less.                                *)
Timer ==
    /\ UNCHANGED <<desiredVars, snapshot, dockerVars, proxyCfgVars, status, budget, optedIn>>
    /\ Triggers("timer")
    /\ running => UNCHANGED revoked

(* The watcher is the one source there is before the boot run resolves.  A *)
(* boot run never waits for a plugin, so its poll meets only a few of them *)
(* (bounded by MaxEdits).                                                  *)
WatcherDuringBoot ==
    /\ ~booted
    /\ Spend("edits")
    /\ UNCHANGED <<desiredVars, snapshot, dockerVars, proxyCfgVars, status, optedIn>>
    /\ Triggers("desired-state-change")
    /\ UNCHANGED revoked

(* Any stage may fail: a document that does not parse, a plugin that       *)
(* errors, times out or is not connected, a plan outside its grants, a     *)
(* Docker call that is refused.                                            *)
Fault ==
    /\ Spend("faults")
    /\ stage # Load => ctxFw # None
    /\ StageFail
    /\ blame' = "fault"
    /\ step' = "stage"
    /\ todo' = {}
    /\ UNCHANGED <<desiredVars, ctxDocs, ctxFw, ctxGate, cur, observed, snapshot, dockerVars,
                   proxyCfgVars, status, absent, revoked, optedIn>>

(* A container stops on its own.                                           *)
ContainerStops(s) ==
    /\ Spend("faults")
    /\ ctrs[s] # None /\ ctrs[s].state = "running"
    /\ ctrs' = [ctrs EXCEPT ![s].state = "exited"]
    /\ UNCHANGED <<engineVars, desiredVars, ctxVars, snapshot, nets, exposure, vols, proxy,
                   proxyCfgVars, status, runHistory, optedIn>>

ProxyStops ==
    /\ Spend("faults")
    /\ proxy # None /\ proxy.state = "running"
    /\ proxy' = [proxy EXCEPT !.state = "exited"]
    /\ served' = {}
    /\ UNCHANGED <<engineVars, desiredVars, ctxVars, snapshot, nets, exposure, vols, ctrs,
                   cfgFile, status, runHistory, optedIn>>

(* The orchestrator dies and boots again; Docker, the desired state, the   *)
(* approvals and the status documents are all that is left.                *)
Reboot ==
    /\ Spend("restarts")
    /\ Restart
    /\ snapshot' = {}
    /\ UNCHANGED <<desiredVars, dockerVars, proxyCfgVars, status, optedIn>>
    /\ FreshRun

-----------------------------------------------------------------------------
(* Operators: tier1 writes and deletes service documents; the admin socket *)
(* sets the framework document, approves and revokes.                      *)
WriteServiceDoc(s, d) ==
    /\ Spend("edits")
    /\ docs[s] # d
    /\ docs' = [docs EXCEPT ![s] = d]
    /\ optedIn' = IF d.rm THEN optedIn \cup {s} ELSE optedIn
    /\ UNCHANGED <<engineVars, fw, approvals, ctxVars, snapshot, dockerVars, proxyCfgVars,
                   status, runHistory>>

DeleteServiceDoc(s) ==
    /\ Spend("edits")
    /\ docs[s] # None
    /\ docs' = [docs EXCEPT ![s] = None]
    /\ absent' = absent \cup {s}
    /\ UNCHANGED <<engineVars, fw, approvals, ctxVars, snapshot, dockerVars, proxyCfgVars,
                   status, blame, revoked, optedIn>>

SetFramework(strict) ==
    /\ Spend("edits")
    /\ fw # strict
    /\ fw' = strict
    /\ UNCHANGED <<docs, approvals, snapshot, dockerVars, proxyCfgVars, status, optedIn>>
    /\ Triggers("framework-set")
    /\ running => UNCHANGED revoked

(* By service id or by hash, what is approved is what the latest GATE      *)
(* snapshot holds.                                                         *)
Approve(h) ==
    /\ Spend("edits")
    /\ h \in snapshot
    /\ approvals' = approvals \cup {h}
    /\ UNCHANGED <<docs, fw, snapshot, dockerVars, proxyCfgVars, status, optedIn>>
    /\ Triggers("plan-approve")
    /\ running => UNCHANGED revoked

Revoke(h) ==
    /\ Spend("edits")
    /\ h \in approvals
    /\ approvals' = approvals \ {h}
    /\ UNCHANGED <<docs, fw, snapshot, dockerVars, proxyCfgVars, status, optedIn>>
    /\ Triggers("plan-approve")
    /\ running => revoked' = revoked \cup {h}

-----------------------------------------------------------------------------
Pipeline ==
    \/ LoadList
    \/ \E s \in Services : LoadRead(s)
    \/ LoadEnds
    \/ ResolveStage
    \/ PlanStage
    \/ RenewalStage
    \/ ValidateStage
    \/ PreInitStage
    \/ PlanUnreachable
    \/ GateStage
    \/ \E s \in Services : EnsureNetwork(s)
    \/ EnsureVolume
    \/ EnsureContainer
    \/ CreateContainer
    \/ StartContainer
    \/ JoinNetwork
    \/ EnsureExposure
    \/ EnsureProxy
    \/ CreateProxy
    \/ StartProxy
    \/ \E s \in Services : ConnectProxy(s)
    \/ WriteConfig
    \/ ReloadProxy
    \/ \E s \in Services : GcContainer(s)
    \/ \E s \in Services : GcNetwork(s)
    \/ \E s \in Services : GcVolume(s)
    \/ ListRemaining
    \/ \E s \in Services : WriteStatus(s)
    \/ \E s \in Services : RemoveStatus(s)
    \/ ObserveEnds
    \/ Again
    \/ Ends

Environment ==
    \/ WatcherDuringBoot
    \/ Fault
    \/ \E s \in Services : ContainerStops(s)
    \/ ProxyStops
    \/ Reboot
    \/ \E s \in Services, d \in Docs : WriteServiceDoc(s, d)
    \/ \E s \in Services : DeleteServiceDoc(s)
    \/ \E strict \in StrictValues : SetFramework(strict)
    \/ \E h \in Hashes : Approve(h)
    \/ \E h \in Hashes : Revoke(h)

Next == Pipeline \/ Timer \/ Environment

SafetySpec == Init /\ [][Next]_vars

(***************************************************************************)
(* The pipeline's awaits return, and the 60s timer keeps firing.           *)
(***************************************************************************)
Spec == SafetySpec /\ WF_vars(Pipeline) /\ WF_vars(Timer)
-----------------------------------------------------------------------------
(* What operators approved.  A step that creates or starts a container     *)
(* which needs approval (its projection is powerful, the service exposes   *)
(* tier1 itself, or the run's framework asks for approval of everything)   *)
(* finds the hash of exactly that service and projection approved, or      *)
(* revoked no earlier than this run's GATE.  GATE reads the approvals      *)
(* once; documents, approvals and the framework go on changing while       *)
(* EXECUTE acts on what GATE decided.                                      *)
StartIsApproved ==
    \A s \in Services :
        /\ ctrs'[s] # None /\ ctrs'[s] # ctrs[s] /\ ctrs'[s].state # "exited"
        /\ \/ ctrs'[s].config.proj \in Powerful
           \/ s \in SelfExposed
           \/ ctxFw = "all"
        => <<s, ctrs'[s].config.proj>> \in approvals \cup revoked

StartsOnlyApproved == [][StartIsApproved]_vars

(* "EXECUTE won't touch that service yet" (gate-stage.ts), and neither     *)
(* does OBSERVE: whatever a parked service has from an earlier approval    *)
(* keeps running as it is.                                                 *)
ParkedIsUntouched ==
    \A s \in Services :
        stage \in {Execute, Observe} /\ ctxGate[s] = "parked" =>
           /\ s \in nets <=> s \in nets'
           /\ vols'[s] = vols[s]
           /\ ctrs'[s] = ctrs[s] \/ ContainerStops(s)

ParkedUntouched == [][ParkedIsUntouched]_vars

(* OBSERVE garbage-collects only what is gone: a service whose container   *)
(* or network it removes was without a document at some time during this   *)
(* run, for all that documents come and go while the run is in flight.     *)
CollectionIsOfAbsent ==
    \A s \in Services :
        /\ stage = Observe
        /\ (ctrs[s] # None /\ ctrs'[s] = None) \/ s \in nets \ nets'
        => s \in absent

CollectsOnlyAbsent == [][CollectionIsOfAbsent]_vars

(* "Data survives service removal unless explicitly opted in"              *)
(* (observe-stage.ts): no volume is ever removed unless a document of its  *)
(* service asked for that and the service was absent during the run.       *)
RemovalIsOptedIn ==
    \A s \in Services : vols[s] # None /\ vols'[s] = None => s \in absent \cap optedIn

DataKept == [][RemovalIsOptedIn]_vars

(* A network that OBSERVE collects is in nobody's use.  EXECUTE recreates  *)
(* the proxy when its networks change, in the same run and before OBSERVE, *)
(* and OBSERVE removes containers first; otherwise Docker would refuse and *)
(* the run would fail at every retry.                                      *)
NetworkGcUnblocked == blame # "endpoints"

(* What EXECUTE and OBSERVE would have to do is already so.                *)
MatchesCtx ==
    /\ exposure
    /\ proxy = [config |-> Planned, state |-> "running", nets |-> Planned]
    /\ \A s \in Planned : ctxGate[s] # "parked" =>
          /\ s \in nets
          /\ vols[s] # None
          /\ ctrs[s] = [config |-> ConfigOf(ctxDocs[s]), state |-> "running"]
    /\ \A s \in Services \ Planned :
          ctrs[s] = None /\ s \notin nets /\ vols[s] # "remove"

(* The idempotency contract: a run over a host that already matches        *)
(* changes no Docker object, wherever the run stands.                      *)
MatchStaysUntouched ==
    /\ stage \in {Execute, Observe}
    /\ ctxFw # None /\ MatchesCtx
    /\ budget' = budget
    => UNCHANGED dockerVars

IdempotentRun == [][MatchStaysUntouched]_vars

(* The host and the status documents say what the documents, the framework *)
(* and the approvals ask for.                                              *)
Desired == {s \in Services : docs[s] # None}
ParkedNow(s) == GateFor(s, docs[s], fw, approvals) = "parked"

Settled(s) ==
    CASE docs[s] = None ->
             ctrs[s] = None /\ s \notin nets /\ vols[s] # "remove" /\ status[s] = None
      [] docs[s] # None /\ ParkedNow(s) -> status[s] = "pending-approval"
      [] docs[s] # None /\ ~ParkedNow(s) ->
             /\ s \in nets
             /\ vols[s] # None
             /\ ctrs[s] = [config |-> ConfigOf(docs[s]), state |-> "running"]
             /\ status[s] = "live"

Converged ==
    /\ \A s \in Services : Settled(s)
    /\ exposure
    /\ proxy = [config |-> Desired, state |-> "running", nets |-> Desired]
    /\ cfgFile = Desired
    /\ served = Desired

(* The two standing conditions under which EXECUTE fails in every run.  A  *)
(* parked service that never had a network: the proxy cannot be joined to  *)
(* it.  An approved container that can join no further network: its own    *)
(* connect is refused.                                                     *)
ParkedUnnetworked == \E s \in Services : ParkedNow(s) /\ s \notin nets
Refused ==
    \E s \in Services :
        docs[s] # None /\ ~ParkedNow(s) /\ ConfigOf(docs[s]) \in Unjoinable

(* Level-triggered convergence: once edits, faults and restarts cease, the *)
(* host settles in what is asked for and stays there, whatever a crash, a  *)
(* failed stage or an edit in the middle of a run left behind; unless one  *)
(* of the two conditions above stands, and then there is no settling.      *)
Convergence == <>[](fw = None \/ Converged \/ ParkedUnnetworked \/ Refused)

(***************************************************************************)
(* The inductive invariant behind StartsOnlyApproved.  What GATE let pass  *)
(* stays cleared while EXECUTE works through it, because a revocation is   *)
(* remembered in revoked; and the container about to be started is the one *)
(* this run created.                                                       *)
(***************************************************************************)
Busy == {"volume", "container", "create", "start", "join"}

Cleared(s) ==
    /\ ctxDocs[s] # None
    /\ RequiresApproval(s, ctxDocs[s], ctxFw) => HashOf(s, ctxDocs[s]) \in approvals \cup revoked

ApprovalIInv ==
    /\ stage # 0 => running
    /\ stage \in Resolve..Gate => step = "stage"
    /\ stage = Execute /\ step \in Busy \cup {"service"} => \A s \in todo : Cleared(s)
    /\ stage = Execute /\ step \in Busy => cur \in Services /\ Cleared(cur)
    /\ stage = Execute /\ step = "start" =>
          ctrs[cur] # None /\ ctrs[cur].config = ConfigOf(ctxDocs[cur])

(***************************************************************************)
(* The inductive invariant behind CollectsOnlyAbsent and DataKept, when no *)
(* listing fails: what the context does not hold was absent, and whoever   *)
(* is labelled for removal asked for it.                                   *)
(***************************************************************************)
AbsenceIInv ==
    /\ \A s \in Services : docs[s] = None => s \in absent
    /\ stage = Load /\ step = "read" /\ blame = "none" =>
          \A s \in Services \ todo : ctxDocs[s] = None => s \in absent
    /\ stage \in Resolve..Observe => \A s \in Services : ctxDocs[s] = None => s \in absent
    /\ \A s \in Services :
          \/ docs[s] # None /\ docs[s].rm
          \/ ctxDocs[s] # None /\ ctxDocs[s].rm
          \/ vols[s] = "remove"
          => s \in optedIn

(***************************************************************************)
(* The inductive invariant behind NetworkGcUnblocked, ParkedUntouched and  *)
(* IdempotentRun.  What EXECUTE still has to do concerns no parked service *)
(* and repeats nothing done; from the moment it has settled the proxy, and *)
(* all through OBSERVE, the proxy is joined to planned services only.      *)
(***************************************************************************)
ProxySettled ==
    \/ stage = Execute /\ step \in {"proxyStart", "connect", "reload"}
    \/ stage = Observe /\ step = "gc"

HostIInv ==
    /\ stage \in Resolve..Observe /\ ctxFw = None => step = "stage"
    /\ stage \in Load..Gate => \A s \in Services : ctxGate[s] # "parked"
    /\ stage \in {Execute, Observe} =>
          \A s \in Services : ctxGate[s] = "parked" => ctxDocs[s] # None
    /\ stage = Execute /\ step \in Busy \cup {"service"} =>
          \A s \in todo : ctxGate[s] # "parked"
    /\ stage = Execute /\ step \in Busy => ctxGate[cur] # "parked"
    /\ stage = Execute /\ step = "create" => ctrs[cur] = None
    /\ stage = Execute /\ step = "proxyCreate" => proxy = None
    /\ stage = Execute /\ step = "connect" => todo \subseteq Planned
    /\ proxy # None => proxy.nets \subseteq proxy.config
    /\ ProxySettled => proxy # None /\ proxy.config = Planned

(* The state invariants of a run, with NetworkGcUnblocked: types, what the *)
(* three arguments above keep true, and that Docker never has to refuse    *)
(* the removal of a network.                                               *)
Inv == TypeOK /\ ApprovalIInv /\ AbsenceIInv /\ HostIInv /\ NetworkGcUnblocked
=============================================================================
