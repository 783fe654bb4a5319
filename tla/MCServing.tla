------------------------------ MODULE MCServing ------------------------------
(* EngineTriggers and PluginLink side by side.  main.ts opens its sockets    *)
(* when the boot trigger's promise resolves: the link is dialled and used    *)
(* while no run is in flight.  To leave the product of the two out, the      *)
(* engine moves while nothing has been asked of the link and nothing died,   *)
(* and the link is used after a boot run that went well.                     *)
EXTENDS MCEngineTriggers, PluginLink

servingVars == <<triggerVars, vars>>

(* The link at most came up.                                                 *)
Unused ==
    /\ \A j \in Jobs : call[j] = Idle
    /\ budget = [asks |-> MaxAsks, hostStops |-> MaxHostStops, orchStops |-> MaxOrchStops]

JustBooted == requested = 1 /\ phase = "live"

EngineMoves(A) == Unused /\ A /\ UNCHANGED vars
LinkMoves(A) == booted /\ ~running /\ A /\ (JustBooted \/ Unused') /\ UNCHANGED triggerVars

ServingInit == TriggersInit /\ Init
ServingNext == EngineMoves(TriggersNext) \/ LinkMoves(Next)

(* The fairness of EngineTriggers and of PluginLink.                         *)
ServingSpec ==
    /\ ServingInit
    /\ [][ServingNext]_servingVars
    /\ WF_servingVars(EngineMoves(StageReturns))
    /\ WF_servingVars(EngineMoves(CountLoopAgain))
    /\ WF_servingVars(EngineMoves(CountLoopEnds))
    /\ WF_servingVars(LinkMoves(Link))
    /\ \A j \in Jobs : WF_servingVars(LinkMoves(Progress(j)))
==============================================================================
