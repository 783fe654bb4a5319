----------------------------- MODULE LevelTrigger -----------------------------
(***************************************************************************)
(* What a level-triggered reconciler promises its trigger sources, free of *)
(* promises and flags: requests are numbered as they are made; a pass      *)
(* takes in every request made before it began and nothing less; passes    *)
(* never overlap; and every request is taken in by a pass that completes.  *)
(***************************************************************************)
EXTENDS Naturals

VARIABLES
    requested,  \* number of requests made so far
    working,    \* requests the pass in progress has taken in, 0 if none is
    served      \* requests taken in by some completed pass

levelVars == <<requested, working, served>>

LevelInit == requested = 1 /\ working = 1 /\ served = 0

(* A request; when no pass is in progress one may begin in the same step.  *)
Request ==
    /\ requested' = requested + 1
    /\ \/ working' = working
       \/ working = 0 /\ working' = requested'
    /\ UNCHANGED served

(* A pass is begun only when there is something new to take in.            *)
Begin ==
    /\ working = 0
    /\ requested > served
    /\ working' = requested
    /\ UNCHANGED <<requested, served>>

Complete ==
    /\ working # 0
    /\ served' = working
    /\ working' = 0
    /\ UNCHANGED requested

(* The pass in progress is lost; the one that replaces it takes in all.    *)
Abandon ==
    /\ requested' = requested + 1
    /\ working' = requested'
    /\ UNCHANGED served

LevelNext == Request \/ Begin \/ Complete \/ Abandon

LevelSafety == LevelInit /\ [][LevelNext]_levelVars

LevelSpec == LevelSafety /\ WF_levelVars(Begin) /\ WF_levelVars(Complete)
=============================================================================
