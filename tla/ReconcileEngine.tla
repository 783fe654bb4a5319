--------------------------- MODULE ReconcileEngine ---------------------------
(***************************************************************************)
(* The single-flight, coalescing reconcile loop of the orchestrator        *)
(* (packages/orchestrator/src/reconciler/engine.ts) and the way main.ts    *)
(* boots it.                                                               *)
(*                                                                         *)
(* JavaScript runs one callback at a time, so everything between two       *)
(* awaits is one step: `trigger()` is atomic, a stage resolving together   *)
(* with the engine's reaction to its result is atomic, and so is the test  *)
(* of `pendingRerun` together with the reset of `runningPromise`.          *)
(***************************************************************************)
EXTENDS Naturals

CONSTANTS
    NStages,    \* number of stages in the pipeline main.ts passes in
    Degrading   \* the stages that may set ctx.degraded (RENEWAL)

ASSUME EngineAssumption ==
    /\ NStages \in Nat \ {0}
    /\ Degrading \subseteq 1..NStages

VARIABLES
    running,      \* runningPromise # null
    pendingRerun, \* pendingRerun
    stage,        \* 0: idle; 1..NStages: awaiting that stage;
                  \* NStages + 1: runOnce has resolved, the loop has not yet looked
    degraded,     \* ctx.degraded of the run in flight
    phase,        \* heartbeatState.current.phase, set by onOutcome
    booted        \* main.ts is past `await reconcileEngine.trigger("boot")`

engineVars == <<running, pendingRerun, stage, degraded, phase, booted>>

Phases == {"pending-init", "live", "degraded", "error"}

EngineTypeOK ==
    /\ running \in BOOLEAN
    /\ pendingRerun \in BOOLEAN
    /\ stage \in 0 .. NStages + 1
    /\ degraded \in BOOLEAN
    /\ phase \in Phases
    /\ booted \in BOOLEAN

Finished == NStages + 1

(***************************************************************************)
(* Trigger sources. The directory watcher is installed before the boot     *)
(* trigger; the 60s timer, the status and admin sockets and the plugin     *)
(* socket (cert-store) only after the boot run has resolved; cert-renewed  *)
(* is raised by the RENEWAL stage itself.                                  *)
(***************************************************************************)
BootSources == {"desired-state-change"}
ServingSources ==
    {"timer", "nudge", "plan-approve", "cert-rollback", "framework-set", "cert-store"}
StageSources == {"cert-renewed"}
Sources == BootSources \cup ServingSources \cup StageSources

MayTrigger(source) ==
    /\ source \in ServingSources => booted
    /\ source \in StageSources => stage \in Degrading

(* The synchronous head of the loop body: a fresh ctx, the first stage.    *)
BeginRun ==
    /\ pendingRerun' = FALSE
    /\ stage' = 1
    /\ degraded' = FALSE

EngineInit ==                    \* main.ts has just called trigger("boot")
    /\ running = TRUE
    /\ pendingRerun = FALSE
    /\ stage = 1
    /\ degraded = FALSE
    /\ phase = "pending-init"
    /\ booted = FALSE

(* trigger() while a loop is in flight: remember that one more run is due. *)
TriggerCoalesced ==
    /\ running
    /\ pendingRerun' = TRUE
    /\ UNCHANGED <<running, stage, degraded, phase, booted>>

(* trigger() with no loop in flight: start one.                            *)
TriggerStarts ==
    /\ ~running
    /\ running' = TRUE
    /\ BeginRun
    /\ UNCHANGED <<phase, booted>>

Trigger(source) ==
    /\ MayTrigger(source)
    /\ TriggerCoalesced \/ TriggerStarts

(* A stage resolves {ok: true}, perhaps having set ctx.degraded; after the *)
(* last one runOnce computes the outcome and calls onOutcome.              *)
StageOk(flag) ==
    /\ stage \in 1..NStages
    /\ flag => stage \in Degrading
    /\ degraded' = (degraded \/ flag)
    /\ stage' = stage + 1
    /\ phase' = CASE stage < NStages -> phase
                  [] stage = NStages /\ degraded' -> "degraded"
                  [] OTHER -> "live"
    /\ UNCHANGED <<running, pendingRerun, booted>>

(* Wrong on purpose: a failing stage rejects out of the whole loop.        *)
StageFailEndsLoop ==
    /\ stage \in 1..NStages
    /\ running' = FALSE
    /\ stage' = 0
    /\ phase' = "error"
    /\ UNCHANGED <<pendingRerun, degraded, booted>>

(* A stage resolves {ok: false} or rejects: the rest of the pipeline is    *)
(* skipped and the outcome is "error".                                     *)
StageFail ==
    /\ stage \in 1..NStages
    /\ stage' = Finished
    /\ phase' = "error"
    /\ UNCHANGED <<running, pendingRerun, degraded, booted>>

(* while (this.pendingRerun): go round again ...                           *)
LoopAgain ==
    /\ stage = Finished
    /\ pendingRerun
    /\ BeginRun
    /\ UNCHANGED <<running, phase, booted>>

(* Wrong on purpose: the loop ends without looking at the flag, or ends    *)
(* without resolving the promise its callers hold.                         *)
LoopEndsUnchecked ==
    /\ stage = Finished
    /\ running' = FALSE
    /\ stage' = 0
    /\ booted' = TRUE
    /\ UNCHANGED <<pendingRerun, degraded, phase>>

LoopEndsUnresolved ==
    /\ stage = Finished
    /\ ~pendingRerun
    /\ running' = FALSE
    /\ stage' = 0
    /\ UNCHANGED <<pendingRerun, degraded, phase, booted>>

(* ... or clear runningPromise and resolve it, which is what lets main.ts  *)
(* go on from the boot trigger.                                            *)
LoopEnds ==
    /\ stage = Finished
    /\ ~pendingRerun
    /\ running' = FALSE
    /\ stage' = 0
    /\ booted' = TRUE
    /\ UNCHANGED <<pendingRerun, degraded, phase>>

(* The process dies and its container is restarted; nothing of the engine  *)
(* survives and main.ts triggers "boot" again.                             *)
Restart ==
    /\ running' = TRUE
    /\ BeginRun
    /\ phase' = "pending-init"
    /\ booted' = FALSE

EngineNext ==
    \/ \E source \in Sources : Trigger(source)
    \/ \E flag \in BOOLEAN : StageOk(flag)
    \/ StageFail
    \/ LoopAgain
    \/ LoopEnds
    \/ Restart

EngineSpec == EngineInit /\ [][EngineNext]_engineVars
=============================================================================
