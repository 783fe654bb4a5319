---------------------------- MODULE EngineTriggers ----------------------------
(***************************************************************************)
(* The reconcile engine with its triggers counted, to state that none is   *)
(* lost and that they coalesce.  The counters are history variables: no    *)
(* guard of the engine reads them except to bound the model.               *)
(***************************************************************************)
EXTENDS ReconcileEngine

CONSTANTS
    MaxTriggers,  \* bound on the number of triggers, boots included
    MaxBoots      \* bound on the number of restarts

ASSUME TriggersAssumption == MaxTriggers \in Nat \ {0} /\ MaxBoots \in Nat

VARIABLES
    requested,  \* calls of trigger() so far
    seen,       \* calls that had been made when the latest run began
    answered,   \* calls that had been made when the latest completed run began
    runs,       \* runs begun (runCount, summed over restarts)
    restarts

historyVars == <<requested, seen, answered, runs, restarts>>
triggerVars == <<running, pendingRerun, stage, degraded, phase, booted,
          requested, seen, answered, runs, restarts>>

TriggersTypeOK ==
    /\ EngineTypeOK
    /\ requested \in 0..MaxTriggers
    /\ seen \in Nat
    /\ answered \in Nat
    /\ runs \in Nat
    /\ restarts \in 0..MaxBoots

TriggersInit ==
    /\ EngineInit
    /\ requested = 1
    /\ seen = 1
    /\ answered = 0
    /\ runs = 1
    /\ restarts = 0

CountTrigger(source) ==
    /\ requested < MaxTriggers
    /\ Trigger(source)
    /\ requested' = requested + 1
    /\ seen' = IF running THEN seen ELSE requested + 1
    /\ runs' = IF running THEN runs ELSE runs + 1
    /\ UNCHANGED <<answered, restarts>>

CountStageOk(flag) ==
    /\ StageOk(flag)
    /\ answered' = IF stage = NStages THEN seen ELSE answered
    /\ UNCHANGED <<requested, seen, runs, restarts>>

CountStageFail ==
    /\ StageFail
    /\ answered' = seen
    /\ UNCHANGED <<requested, seen, runs, restarts>>

CountLoopAgain ==
    /\ LoopAgain
    /\ seen' = requested
    /\ runs' = runs + 1
    /\ UNCHANGED <<requested, answered, restarts>>

CountLoopEnds == LoopEnds /\ UNCHANGED historyVars

CountRestart ==
    /\ restarts < MaxBoots
    /\ requested < MaxTriggers
    /\ Restart
    /\ requested' = requested + 1
    /\ seen' = requested + 1
    /\ runs' = runs + 1
    /\ restarts' = restarts + 1
    /\ UNCHANGED answered

StageReturns == (\E flag \in BOOLEAN : CountStageOk(flag)) \/ CountStageFail

TriggersNext ==
    \/ \E source \in Sources : CountTrigger(source)
    \/ StageReturns
    \/ CountLoopAgain
    \/ CountLoopEnds
    \/ CountRestart

(***************************************************************************)
(* Every stage eventually returns (plugin invocations have a wall-clock    *)
(* limit; Docker calls are assumed to return), and a resolved promise's    *)
(* continuation is eventually run by the event loop.  Nothing is assumed   *)
(* of the trigger sources.                                                 *)
(***************************************************************************)
TriggersFairness ==
    /\ WF_triggerVars(StageReturns)
    /\ WF_triggerVars(CountLoopAgain)
    /\ WF_triggerVars(CountLoopEnds)

TriggersSafety == TriggersInit /\ [][TriggersNext]_triggerVars
TriggersSpec == TriggersSafety /\ TriggersFairness

-----------------------------------------------------------------------------
(* A trigger that the run in flight began too early to see is remembered:  *)
(* the loop is running and will go round again. engine.ts tests            *)
(* pendingRerun and clears runningPromise without yielding in between; a   *)
(* trigger can never land between the two and be dropped.                  *)
NoLostTrigger == requested > seen => running /\ pendingRerun

(* "Coalesce into at most one more run afterward": counting the rerun that *)
(* is due, there are never more runs than triggers.                        *)
Coalesced == runs + (IF pendingRerun THEN 1 ELSE 0) <= requested

(* main.ts opens its sockets only once the boot trigger's promise resolves *)
(* and that promise covers the coalesced reruns too: with finitely many    *)
(* triggers it does resolve.                                               *)
BootCompletes == ~booted ~> booted

(* The engine implements the level-triggered abstraction, its fairness     *)
(* included: every trigger is followed by a run that began after it and    *)
(* completed, whatever the runs before it ended in.                        *)
Level == INSTANCE LevelTrigger WITH
             served <- answered, working <- IF stage \in 1..NStages THEN seen ELSE 0
LevelSpec == Level!LevelSpec
LevelSafety == Level!LevelSafety

(***************************************************************************)
(* The inductive invariant behind NoLostTrigger and Coalesced.             *)
(***************************************************************************)
TriggerIInv ==
    /\ running <=> stage # 0
    /\ answered <= seen
    /\ seen <= requested
    /\ runs <= seen
    /\ 1 <= seen
    /\ pendingRerun <=> requested > seen
    /\ pendingRerun => running
    /\ stage \notin 1..NStages => answered = seen
=============================================================================
