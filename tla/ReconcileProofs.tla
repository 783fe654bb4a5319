--------------------------- MODULE ReconcileProofs ---------------------------
(***************************************************************************)
(* For any services, projections, documents and bounds: no container that  *)
(* needs approval is created or started without it; and, as long as every  *)
(* directory listing succeeds, garbage collection destroys only what was   *)
(* absent and only the data somebody asked to have removed; parked         *)
(* services stay as they are, a run over a host that matches changes       *)
(* nothing, Docker never refuses a removal, and the composed system is     *)
(* still the engine it is built on.  The last part is about that engine    *)
(* with its triggers counted, for every pipeline length and every number   *)
(* of triggers and restarts: it loses none, coalesces them, and refines    *)
(* the safety part of LevelTrigger.                                        *)
(***************************************************************************)
EXTENDS Reconcile, EngineTriggers, TLAPS

(* What LOAD to GATE, the engine and the operators do leaves Docker alone. *)
LEMMA DockerQuiet ==
    ASSUME \/ LoadList
           \/ \E s \in Services : LoadRead(s)
           \/ LoadEnds
           \/ ResolveStage
           \/ PlanStage
           \/ RenewalStage
           \/ ValidateStage
           \/ PreInitStage
           \/ PlanUnreachable
           \/ GateStage
           \/ WriteConfig
           \/ ReloadProxy
           \/ JoinNetwork
           \/ ListRemaining
           \/ \E s \in Services : WriteStatus(s)
           \/ \E s \in Services : RemoveStatus(s)
           \/ ObserveEnds
           \/ Again
           \/ Ends
           \/ Timer
           \/ WatcherDuringBoot
           \/ Fault
           \/ Reboot
           \/ \E s \in Services, d \in Docs : WriteServiceDoc(s, d)
           \/ \E s \in Services : DeleteServiceDoc(s)
           \/ \E strict \in StrictValues : SetFramework(strict)
           \/ \E h \in Hashes : Approve(h)
           \/ \E h \in Hashes : Revoke(h)
    PROVE  UNCHANGED dockerVars
BY DEF LoadList, LoadRead, LoadEnds, ResolveStage, PlanStage, RenewalStage,
       ValidateStage, PreInitStage, PlanUnreachable, GateStage, WriteConfig,
       ReloadProxy, JoinNetwork, ListRemaining, WriteStatus, RemoveStatus, ObserveEnds,
       Again, Ends, Timer, WatcherDuringBoot, Fault, Reboot, WriteServiceDoc,
       DeleteServiceDoc, SetFramework, Approve, Revoke, ProxyFrame,
       ObserveFrame, PassesFrame, dockerVars

(* The types the arguments below rest on.                                  *)
CoreTypes ==
    /\ stage \in 0 .. NStages + 1
    /\ docs \in [Services -> Docs \cup {None}]
    /\ ctxDocs \in [Services -> Docs \cup {None}]
    /\ todo \subseteq Services
    /\ cur \in Services \cup {None}
    /\ vols \in [Services -> {None, "keep", "remove"}]
    /\ ctrs \in [Services -> Containers \cup {None}]
    /\ budget \in [edits : 0..MaxEdits, faults : 0..MaxFaults,
                   lists : 0..MaxListFaults, restarts : 0..MaxRestarts]

ApprovalInv == CoreTypes /\ ApprovalIInv

(* Before the first run nothing is due to start.                           *)
LEMMA ApprovalInit == Init => ApprovalInv
BY EngineAssumption, ReconcileAssumption
DEF Init, EngineInit, ApprovalInv, CoreTypes, ApprovalIInv, Busy, Cleared,
    Resolve, Gate, Execute, Observe

(* Every step keeps what GATE cleared cleared.                             *)
LEMMA ApprovalStep == ApprovalInv /\ [Next]_vars => ApprovalInv'
<1> SUFFICES ASSUME ApprovalInv, [Next]_vars PROVE ApprovalInv'
  OBVIOUS
<1> USE EngineAssumption, ReconcileAssumption
<1> USE DEF ApprovalInv, CoreTypes, ApprovalIInv, Cleared, Busy, engineVars, desiredVars,
            ctxVars, dockerVars, proxyCfgVars, runHistory, Finished,
            Load, Resolve, Plan, Renewal, Validate, Gate, Execute, Observe
<1>1. ASSUME LoadList PROVE ApprovalInv'
  BY <1>1 DEF LoadList, Listings
<1>2. ASSUME NEW s \in Services, LoadRead(s) PROVE ApprovalInv'
  BY <1>2 DEF LoadRead
<1>3. ASSUME LoadEnds PROVE ApprovalInv'
  <2>1. CASE StageOk(FALSE)
    BY <1>3, <2>1 DEF LoadEnds, StageOk
  <2>2. CASE StageFail
    BY <1>3, <2>2 DEF LoadEnds, StageFail
  <2>3. QED
    BY <1>3, <2>1, <2>2 DEF LoadEnds
<1>4. ASSUME ResolveStage PROVE ApprovalInv'
  BY <1>4 DEF ResolveStage, PassesFrame, StageOk
<1>5. ASSUME PlanStage PROVE ApprovalInv'
  BY <1>5 DEF PlanStage, PassesFrame, StageOk
<1>6. ASSUME RenewalStage PROVE ApprovalInv'
  BY <1>6 DEF RenewalStage, PassesFrame, StageOk
<1>7. ASSUME ValidateStage PROVE ApprovalInv'
  BY <1>7 DEF ValidateStage, PassesFrame, StageOk
<1>8. ASSUME PreInitStage PROVE ApprovalInv'
  BY <1>8 DEF PreInitStage, PassesFrame, StageOk
<1>9. ASSUME PlanUnreachable PROVE ApprovalInv'
  BY <1>9 DEF PlanUnreachable, StageFail
<1>10. ASSUME GateStage PROVE ApprovalInv'
  BY <1>10 DEF GateStage, StageOk, GateFor, Planned, HashOf, Hashes
<1>11. ASSUME NEW s \in Services, EnsureNetwork(s) PROVE ApprovalInv'
  BY <1>11 DEF EnsureNetwork, ExecuteFrame
<1>12. ASSUME EnsureVolume PROVE ApprovalInv'
  BY <1>12 DEF EnsureVolume, ExecuteFrame
<1>13. ASSUME EnsureContainer PROVE ApprovalInv'
  BY <1>13 DEF EnsureContainer, ExecuteFrame, ConfigOf, Containers, Configs, States,
        Docs
<1>14. ASSUME CreateContainer PROVE ApprovalInv'
  BY <1>14 DEF CreateContainer, ExecuteFrame, ConfigOf, Containers, Configs, States,
        Docs
<1>15. ASSUME StartContainer PROVE ApprovalInv'
  BY <1>15 DEF StartContainer, ExecuteFrame, Containers, Configs, States
<1>15a. ASSUME JoinNetwork PROVE ApprovalInv'
  <2>1. CASE step' = "service"
    BY <1>15a, <2>1 DEF JoinNetwork, StageFail
  <2>2. CASE StageFail
    BY <1>15a, <2>2 DEF JoinNetwork, StageFail
  <2>3. QED
    BY <1>15a, <2>1, <2>2 DEF JoinNetwork
<1>16. ASSUME EnsureExposure PROVE ApprovalInv'
  BY <1>16 DEF EnsureExposure, ProxyFrame
<1>17. ASSUME EnsureProxy PROVE ApprovalInv'
  BY <1>17 DEF EnsureProxy, ProxyFrame, Planned
<1>18. ASSUME CreateProxy PROVE ApprovalInv'
  BY <1>18 DEF CreateProxy, ProxyFrame, Planned
<1>19. ASSUME StartProxy PROVE ApprovalInv'
  BY <1>19 DEF StartProxy, ProxyFrame, Planned
<1>20. ASSUME NEW s \in Services, ConnectProxy(s) PROVE ApprovalInv'
  <2>1. CASE s \in proxy.nets \cup nets
    <3>1. /\ stage = Execute /\ step = "connect" /\ todo' = todo \ {s}
          /\ UNCHANGED <<engineVars, step, docs, ctxDocs, cur, vols, ctrs, budget>>
      BY <1>20, <2>1, Zenon DEF ConnectProxy, ProxyFrame
    <3>2. QED
      BY <3>1
  <2>2. CASE s \notin proxy.nets \cup nets
    <3>1. /\ running' = running /\ stage' = Finished /\ todo' = {}
          /\ UNCHANGED <<docs, ctxDocs, cur, vols, ctrs, budget>>
      BY <1>20, <2>2, Zenon DEF ConnectProxy, ProxyFrame, StageFail
    <3>2. stage # 0
      BY <1>20 DEF ConnectProxy
    <3>3. QED
      BY <3>1, <3>2
  <2>3. QED
    BY <2>1, <2>2
<1>21. ASSUME WriteConfig PROVE ApprovalInv'
  BY <1>21 DEF WriteConfig, ProxyFrame, Planned
<1>22. ASSUME ReloadProxy PROVE ApprovalInv'
  <2>1. CASE StageOk(FALSE)
    BY <1>22, <2>1 DEF ReloadProxy, ProxyFrame, StageOk
  <2>2. CASE StageFail
    BY <1>22, <2>2 DEF ReloadProxy, ProxyFrame, StageFail
  <2>3. QED
    BY <1>22, <2>1, <2>2 DEF ReloadProxy
<1>23. ASSUME NEW s \in Services, GcContainer(s) PROVE ApprovalInv'
  BY <1>23 DEF GcContainer, ObserveFrame, OrphanContainers
<1>24. ASSUME NEW s \in Services, GcNetwork(s) PROVE ApprovalInv'
  <2>1. CASE ~InUse(s)
    <3>1. /\ stage = Observe
          /\ UNCHANGED <<engineVars, step, docs, ctxDocs, todo, cur, vols, ctrs, budget>>
      BY <1>24, <2>1, Zenon DEF GcNetwork, ObserveFrame
    <3>2. QED
      BY <3>1
  <2>2. CASE InUse(s)
    <3>1. /\ running' = running /\ stage' = Finished
          /\ UNCHANGED <<docs, ctxDocs, todo, cur, vols, ctrs, budget>>
      BY <1>24, <2>2, Zenon DEF GcNetwork, ObserveFrame, StageFail
    <3>2. stage # 0
      BY <1>24 DEF GcNetwork
    <3>3. QED
      BY <3>1, <3>2
  <2>3. QED
    BY <2>1, <2>2
<1>25. ASSUME NEW s \in Services, GcVolume(s) PROVE ApprovalInv'
  BY <1>25 DEF GcVolume, ObserveFrame, OrphanVolumes
<1>26. ASSUME NEW s \in Services, WriteStatus(s) PROVE ApprovalInv'
  BY <1>26 DEF WriteStatus, ObserveFrame
<1>26a. ASSUME ListRemaining PROVE ApprovalInv'
  BY <1>26a DEF ListRemaining, ObserveFrame, Planned
<1>26b. ASSUME NEW s \in Services, RemoveStatus(s) PROVE ApprovalInv'
  BY <1>26b DEF RemoveStatus, ObserveFrame
<1>26c. ASSUME ObserveEnds PROVE ApprovalInv'
  BY <1>26c DEF ObserveEnds, ObserveFrame, StageOk
<1>27. ASSUME Again PROVE ApprovalInv'
  BY <1>27 DEF Again, LoopAgain, BeginRun, FreshRun
<1>28. ASSUME Ends PROVE ApprovalInv'
  BY <1>28 DEF Ends, LoopEnds, FreshRun
<1>29. ASSUME Timer PROVE ApprovalInv'
  BY <1>29 DEF Timer, Triggers, Trigger, TriggerCoalesced, TriggerStarts, BeginRun,
        FreshRun
<1>30. ASSUME WatcherDuringBoot PROVE ApprovalInv'
  BY <1>30 DEF WatcherDuringBoot, Triggers, Trigger, TriggerCoalesced, TriggerStarts,
        BeginRun, FreshRun, Spend
<1>31. ASSUME Fault PROVE ApprovalInv'
  BY <1>31 DEF Fault, StageFail, Spend
<1>32. ASSUME NEW s \in Services, ContainerStops(s) PROVE ApprovalInv'
  BY <1>32 DEF ContainerStops, Spend, Containers, Configs, States
<1>33. ASSUME ProxyStops PROVE ApprovalInv'
  BY <1>33 DEF ProxyStops, Spend
<1>34. ASSUME Reboot PROVE ApprovalInv'
  BY <1>34 DEF Reboot, Restart, BeginRun, FreshRun, Spend
<1>35. ASSUME NEW s \in Services, NEW d \in Docs, WriteServiceDoc(s, d) PROVE ApprovalInv'
  BY <1>35 DEF WriteServiceDoc, Spend
<1>36. ASSUME NEW s \in Services, DeleteServiceDoc(s) PROVE ApprovalInv'
  BY <1>36 DEF DeleteServiceDoc, Spend
<1>37. ASSUME NEW strict \in StrictValues, SetFramework(strict) PROVE ApprovalInv'
  BY <1>37 DEF SetFramework, Triggers, Trigger, TriggerCoalesced, TriggerStarts,
        BeginRun, FreshRun, Spend
<1>38. ASSUME NEW h \in Hashes, Approve(h) PROVE ApprovalInv'
  BY <1>38 DEF Approve, Triggers, Trigger, TriggerCoalesced, TriggerStarts, BeginRun,
        FreshRun, Spend
<1>39. ASSUME NEW h \in Hashes, Revoke(h) PROVE ApprovalInv'
  BY <1>39 DEF Revoke, Triggers, Trigger, TriggerCoalesced, TriggerStarts, BeginRun,
        FreshRun, Spend
<1>40. CASE UNCHANGED vars
  BY <1>40 DEF vars
<1>41. QED
  BY <1>1, <1>2, <1>3, <1>4, <1>5, <1>6, <1>7, <1>8, <1>9, <1>10, <1>11, <1>12, <1>13,
     <1>14, <1>15, <1>16, <1>17, <1>18, <1>19, <1>20, <1>21, <1>22, <1>23, <1>24,
     <1>25, <1>26, <1>27, <1>28, <1>29, <1>30, <1>31, <1>32, <1>33, <1>34, <1>35,
     <1>36, <1>37, <1>38, <1>39, <1>40, <1>15a, <1>26a, <1>26b, <1>26c
  DEF Next, Pipeline, Environment

(* A step that creates or starts a container finds its service cleared.    *)
LEMMA StartStep == ApprovalInv /\ [Next]_vars => [StartIsApproved]_vars
<1> SUFFICES ASSUME ApprovalInv, Next PROVE StartIsApproved
  BY DEF StartIsApproved
<1> USE DEF ApprovalInv, CoreTypes, ApprovalIInv, Busy
<1>1. CASE EnsureContainer
  <2> SUFFICES ASSUME NEW s \in Services, ctrs'[s] # None, ctrs'[s] # ctrs[s]
               PROVE  /\ s = cur /\ ctrs'[s].config.proj = ctxDocs[s].proj
    BY <1>1 DEF StartIsApproved, EnsureContainer, Cleared, RequiresApproval, HashOf
  <2> QED
    BY <1>1 DEF EnsureContainer, ConfigOf, Containers
<1>2. CASE CreateContainer
  <2> SUFFICES ASSUME NEW s \in Services, ctrs'[s] # None, ctrs'[s] # ctrs[s]
               PROVE  /\ s = cur /\ ctrs'[s].config.proj = ctxDocs[s].proj
    BY <1>2 DEF StartIsApproved, CreateContainer, Cleared, RequiresApproval, HashOf
  <2> QED
    BY <1>2 DEF CreateContainer, ConfigOf, Containers
<1>3. CASE StartContainer
  <2> SUFFICES ASSUME NEW s \in Services, ctrs'[s] # None, ctrs'[s] # ctrs[s]
               PROVE  /\ s = cur /\ ctrs'[s].config.proj = ctxDocs[s].proj
    BY <1>3 DEF StartIsApproved, StartContainer, Cleared, RequiresApproval, HashOf
  <2> QED
    BY <1>3 DEF StartContainer, ConfigOf, Containers
<1>4. ASSUME NEW s \in Services, ContainerStops(s) PROVE StartIsApproved
  BY <1>4 DEF ContainerStops, StartIsApproved, Containers
<1>5. ASSUME NEW s \in Services, GcContainer(s) PROVE StartIsApproved
  BY <1>5 DEF GcContainer, StartIsApproved
<1>6. ASSUME ctrs' = ctrs PROVE StartIsApproved
  BY <1>6 DEF StartIsApproved
<1>7. ASSUME \/ \E s \in Services : EnsureNetwork(s)
             \/ EnsureVolume
             \/ EnsureExposure
             \/ EnsureProxy
             \/ CreateProxy
             \/ StartProxy
             \/ \E s \in Services : ConnectProxy(s)
             \/ \E s \in Services : GcNetwork(s)
             \/ \E s \in Services : GcVolume(s)
             \/ ProxyStops
      PROVE  ctrs' = ctrs
  BY <1>7 DEF EnsureNetwork, EnsureVolume, EnsureExposure, EnsureProxy, CreateProxy,
              StartProxy, ConnectProxy, GcNetwork, GcVolume, ProxyStops, ExecuteFrame,
              ProxyFrame, ObserveFrame
<1>8. QED
  BY <1>1, <1>2, <1>3, <1>4, <1>5, <1>6, <1>7, DockerQuiet
  DEF Next, Pipeline, Environment, dockerVars

(* Nothing that needs approval is created or started without it.           *)
THEOREM NothingStartsUnapproved == SafetySpec => StartsOnlyApproved
BY ApprovalInit, ApprovalStep, StartStep, PTL DEF SafetySpec, StartsOnlyApproved

-----------------------------------------------------------------------------
(* Stated together with the approval invariant, whose types it needs.      *)
AbsenceInv == ApprovalInv /\ AbsenceIInv

(* Initially every service without a document counts as absent.            *)
LEMMA AbsenceInit == Init => AbsenceIInv
BY ReconcileAssumption DEF Init, EngineInit, AbsenceIInv, Load, Resolve, Observe

(* What the run in flight does not know of was absent during it.           *)
LEMMA AbsenceStep ==
    ASSUME MaxListFaults = 0
    PROVE  AbsenceInv /\ [Next]_vars => AbsenceIInv'
<1> SUFFICES ASSUME AbsenceInv, [Next]_vars PROVE AbsenceIInv'
  OBVIOUS
<1> USE EngineAssumption, ReconcileAssumption
<1> USE DEF AbsenceInv, ApprovalInv, CoreTypes, AbsenceIInv, engineVars, desiredVars,
            ctxVars, dockerVars, proxyCfgVars, runHistory, Finished,
            Load, Resolve, Plan, Renewal, Validate, Gate, Execute, Observe
<1>1. ASSUME LoadList PROVE AbsenceIInv'
  BY <1>1 DEF LoadList, Listings
<1>2. ASSUME NEW s \in Services, LoadRead(s) PROVE AbsenceIInv'
  BY <1>2 DEF LoadRead
<1>3. ASSUME LoadEnds PROVE AbsenceIInv'
  BY <1>3 DEF LoadEnds, StageOk, StageFail
<1>4. ASSUME ResolveStage PROVE AbsenceIInv'
  BY <1>4 DEF ResolveStage, PassesFrame, StageOk
<1>5. ASSUME PlanStage PROVE AbsenceIInv'
  BY <1>5 DEF PlanStage, PassesFrame, StageOk
<1>6. ASSUME RenewalStage PROVE AbsenceIInv'
  BY <1>6 DEF RenewalStage, PassesFrame, StageOk
<1>7. ASSUME ValidateStage PROVE AbsenceIInv'
  BY <1>7 DEF ValidateStage, PassesFrame, StageOk
<1>8. ASSUME PreInitStage PROVE AbsenceIInv'
  BY <1>8 DEF PreInitStage, PassesFrame, StageOk
<1>9. ASSUME PlanUnreachable PROVE AbsenceIInv'
  BY <1>9 DEF PlanUnreachable, StageFail
<1>10. ASSUME GateStage PROVE AbsenceIInv'
  BY <1>10 DEF GateStage, StageOk, Planned
<1>11. ASSUME NEW s \in Services, EnsureNetwork(s) PROVE AbsenceIInv'
  BY <1>11 DEF EnsureNetwork, ExecuteFrame
<1>12. ASSUME EnsureVolume PROVE AbsenceIInv'
  BY <1>12 DEF EnsureVolume, ExecuteFrame, ApprovalIInv, Busy, Cleared
<1>13. ASSUME EnsureContainer PROVE AbsenceIInv'
  BY <1>13 DEF EnsureContainer, ExecuteFrame
<1>14. ASSUME CreateContainer PROVE AbsenceIInv'
  BY <1>14 DEF CreateContainer, ExecuteFrame
<1>15. ASSUME StartContainer PROVE AbsenceIInv'
  BY <1>15 DEF StartContainer, ExecuteFrame
<1>15a. ASSUME JoinNetwork PROVE AbsenceIInv'
  <2>1. CASE step' = "service"
    BY <1>15a, <2>1 DEF JoinNetwork, StageFail
  <2>2. CASE StageFail
    BY <1>15a, <2>2 DEF JoinNetwork, StageFail
  <2>3. QED
    BY <1>15a, <2>1, <2>2 DEF JoinNetwork
<1>16. ASSUME EnsureExposure PROVE AbsenceIInv'
  BY <1>16 DEF EnsureExposure, ProxyFrame
<1>17. ASSUME EnsureProxy PROVE AbsenceIInv'
  BY <1>17 DEF EnsureProxy, ProxyFrame, Planned
<1>18. ASSUME CreateProxy PROVE AbsenceIInv'
  BY <1>18 DEF CreateProxy, ProxyFrame, Planned
<1>19. ASSUME StartProxy PROVE AbsenceIInv'
  BY <1>19 DEF StartProxy, ProxyFrame, Planned
<1>20. ASSUME NEW s \in Services, ConnectProxy(s) PROVE AbsenceIInv'
  BY <1>20 DEF ConnectProxy, ProxyFrame, StageFail
<1>21. ASSUME WriteConfig PROVE AbsenceIInv'
  BY <1>21 DEF WriteConfig, ProxyFrame, Planned
<1>22. ASSUME ReloadProxy PROVE AbsenceIInv'
  BY <1>22 DEF ReloadProxy, ProxyFrame, StageOk, StageFail
<1>23. ASSUME NEW s \in Services, GcContainer(s) PROVE AbsenceIInv'
  BY <1>23 DEF GcContainer, ObserveFrame, OrphanContainers
<1>24. ASSUME NEW s \in Services, GcNetwork(s) PROVE AbsenceIInv'
  BY <1>24 DEF GcNetwork, ObserveFrame, OrphanNetworks, StageFail
<1>25. ASSUME NEW s \in Services, GcVolume(s) PROVE AbsenceIInv'
  BY <1>25 DEF GcVolume, ObserveFrame, OrphanVolumes
<1>26. ASSUME NEW s \in Services, WriteStatus(s) PROVE AbsenceIInv'
  BY <1>26 DEF WriteStatus, ObserveFrame
<1>26a. ASSUME ListRemaining PROVE AbsenceIInv'
  BY <1>26a DEF ListRemaining, ObserveFrame, Planned
<1>26b. ASSUME NEW s \in Services, RemoveStatus(s) PROVE AbsenceIInv'
  BY <1>26b DEF RemoveStatus, ObserveFrame
<1>26c. ASSUME ObserveEnds PROVE AbsenceIInv'
  BY <1>26c DEF ObserveEnds, ObserveFrame, StageOk
<1>27. ASSUME Again PROVE AbsenceIInv'
  BY <1>27 DEF Again, LoopAgain, BeginRun, FreshRun
<1>28. ASSUME Ends PROVE AbsenceIInv'
  BY <1>28 DEF Ends, LoopEnds, FreshRun
<1>29. ASSUME Timer PROVE AbsenceIInv'
  BY <1>29 DEF Timer, Triggers, Trigger, TriggerCoalesced, TriggerStarts, BeginRun,
        FreshRun
<1>30. ASSUME WatcherDuringBoot PROVE AbsenceIInv'
  BY <1>30 DEF WatcherDuringBoot, Triggers, Trigger, TriggerCoalesced, TriggerStarts,
        BeginRun, FreshRun, Spend
<1>31. ASSUME Fault PROVE AbsenceIInv'
  BY <1>31 DEF Fault, StageFail, Spend
<1>32. ASSUME NEW s \in Services, ContainerStops(s) PROVE AbsenceIInv'
  BY <1>32 DEF ContainerStops, Spend
<1>33. ASSUME ProxyStops PROVE AbsenceIInv'
  BY <1>33 DEF ProxyStops, Spend
<1>34. ASSUME Reboot PROVE AbsenceIInv'
  BY <1>34 DEF Reboot, Restart, BeginRun, FreshRun, Spend
<1>35. ASSUME NEW s \in Services, NEW d \in Docs, WriteServiceDoc(s, d) PROVE AbsenceIInv'
  BY <1>35 DEF WriteServiceDoc, Spend, Docs
<1>36. ASSUME NEW s \in Services, DeleteServiceDoc(s) PROVE AbsenceIInv'
  BY <1>36 DEF DeleteServiceDoc, Spend
<1>37. ASSUME NEW strict \in StrictValues, SetFramework(strict) PROVE AbsenceIInv'
  BY <1>37 DEF SetFramework, Triggers, Trigger, TriggerCoalesced, TriggerStarts,
        BeginRun, FreshRun, Spend
<1>38. ASSUME NEW h \in Hashes, Approve(h) PROVE AbsenceIInv'
  BY <1>38 DEF Approve, Triggers, Trigger, TriggerCoalesced, TriggerStarts, BeginRun,
        FreshRun, Spend
<1>39. ASSUME NEW h \in Hashes, Revoke(h) PROVE AbsenceIInv'
  BY <1>39 DEF Revoke, Triggers, Trigger, TriggerCoalesced, TriggerStarts, BeginRun,
        FreshRun, Spend
<1>40. CASE UNCHANGED vars
  BY <1>40 DEF vars
<1>41. QED
  BY <1>1, <1>2, <1>3, <1>4, <1>5, <1>6, <1>7, <1>8, <1>9, <1>10, <1>11, <1>12, <1>13,
     <1>14, <1>15, <1>16, <1>17, <1>18, <1>19, <1>20, <1>21, <1>22, <1>23, <1>24,
     <1>25, <1>26, <1>27, <1>28, <1>29, <1>30, <1>31, <1>32, <1>33, <1>34, <1>35,
     <1>36, <1>37, <1>38, <1>39, <1>40, <1>15a, <1>26a, <1>26b, <1>26c
  DEF Next, Pipeline, Environment

(* A step of OBSERVE that removes a container or network finds its service *)
(* absent.                                                                 *)
LEMMA CollectStep == AbsenceInv /\ [Next]_vars => [CollectionIsOfAbsent]_vars
<1> SUFFICES ASSUME AbsenceInv, Next PROVE CollectionIsOfAbsent
  BY DEF CollectionIsOfAbsent
<1> USE DEF AbsenceInv, ApprovalInv, CoreTypes, AbsenceIInv, Resolve, Observe
<1>1. ASSUME NEW s \in Services, GcContainer(s) PROVE CollectionIsOfAbsent
  BY <1>1 DEF GcContainer, OrphanContainers, CollectionIsOfAbsent
<1>2. ASSUME NEW s \in Services, GcNetwork(s) PROVE CollectionIsOfAbsent
  BY <1>2 DEF GcNetwork, OrphanNetworks, CollectionIsOfAbsent
<1>3. ASSUME EnsureContainer \/ CreateContainer \/ StartContainer
             \/ (\E s \in Services : EnsureNetwork(s))
      PROVE  CollectionIsOfAbsent
  BY <1>3 DEF EnsureContainer, CreateContainer, StartContainer, EnsureNetwork,
              CollectionIsOfAbsent, Execute
<1>4. ASSUME NEW s \in Services, ContainerStops(s) PROVE CollectionIsOfAbsent
  BY <1>4, ReconcileAssumption DEF ContainerStops, CollectionIsOfAbsent, Containers, States, Configs
<1>5. ASSUME ctrs' = ctrs, nets' = nets PROVE CollectionIsOfAbsent
  BY <1>5 DEF CollectionIsOfAbsent
<1>6. ASSUME \/ EnsureVolume
             \/ EnsureExposure
             \/ EnsureProxy
             \/ CreateProxy
             \/ StartProxy
             \/ \E s \in Services : ConnectProxy(s)
             \/ \E s \in Services : GcVolume(s)
             \/ ProxyStops
      PROVE  ctrs' = ctrs /\ nets' = nets
  BY <1>6 DEF EnsureVolume, EnsureExposure, EnsureProxy, CreateProxy, StartProxy,
              ConnectProxy, GcVolume, ProxyStops, ExecuteFrame, ProxyFrame,
              ObserveFrame
<1>7. QED
  BY <1>1, <1>2, <1>3, <1>4, <1>5, <1>6, DockerQuiet
  DEF Next, Pipeline, Environment, dockerVars

(* A step that removes a volume finds its service absent and opted in.     *)
LEMMA RemovalStep == AbsenceInv /\ [Next]_vars => [RemovalIsOptedIn]_vars
<1> SUFFICES ASSUME AbsenceInv, Next PROVE RemovalIsOptedIn
  BY DEF RemovalIsOptedIn
<1> USE DEF AbsenceInv, ApprovalInv, CoreTypes, AbsenceIInv, Resolve, Observe
<1>1. ASSUME NEW s \in Services, GcVolume(s) PROVE RemovalIsOptedIn
  BY <1>1 DEF GcVolume, OrphanVolumes, RemovalIsOptedIn
<1>2. CASE EnsureVolume
  BY <1>2, ReconcileAssumption DEF EnsureVolume, RemovalIsOptedIn
<1>3. ASSUME vols' = vols PROVE RemovalIsOptedIn
  BY <1>3 DEF RemovalIsOptedIn
<1>4. ASSUME \/ \E s \in Services : EnsureNetwork(s)
             \/ EnsureContainer
             \/ CreateContainer
             \/ StartContainer
             \/ EnsureExposure
             \/ EnsureProxy
             \/ CreateProxy
             \/ StartProxy
             \/ \E s \in Services : ConnectProxy(s)
             \/ \E s \in Services : GcContainer(s)
             \/ \E s \in Services : GcNetwork(s)
             \/ \E s \in Services : ContainerStops(s)
             \/ ProxyStops
      PROVE  vols' = vols
  BY <1>4 DEF EnsureNetwork, EnsureContainer, CreateContainer, StartContainer,
              EnsureExposure, EnsureProxy, CreateProxy, StartProxy, ConnectProxy,
              GcContainer, GcNetwork, ContainerStops, ProxyStops, ExecuteFrame,
              ProxyFrame, ObserveFrame
<1>5. QED
  BY <1>1, <1>2, <1>3, <1>4, DockerQuiet
  DEF Next, Pipeline, Environment, dockerVars

(* With reliable listings, OBSERVE collects the containers and networks    *)
(* only of services that were absent during the run.                       *)
THEOREM CollectionSound ==
    ASSUME MaxListFaults = 0
    PROVE  SafetySpec => CollectsOnlyAbsent
<1>1. Init => AbsenceInv
  BY ApprovalInit, AbsenceInit DEF AbsenceInv
<1>2. AbsenceInv /\ [Next]_vars => AbsenceInv'
  BY ApprovalStep, AbsenceStep DEF AbsenceInv
<1>3. QED
  BY <1>1, <1>2, CollectStep, PTL DEF SafetySpec, CollectsOnlyAbsent

(* With reliable listings, a volume is removed only after a document of    *)
(* its service asked for that.                                             *)
THEOREM DataSurvives ==
    ASSUME MaxListFaults = 0
    PROVE  SafetySpec => DataKept
<1>1. Init => AbsenceInv
  BY ApprovalInit, AbsenceInit DEF AbsenceInv
<1>2. AbsenceInv /\ [Next]_vars => AbsenceInv'
  BY ApprovalStep, AbsenceStep DEF AbsenceInv
<1>3. QED
  BY <1>1, <1>2, RemovalStep, PTL DEF SafetySpec, DataKept

-----------------------------------------------------------------------------
(* The engine under the pipeline.  Whatever the stages, the operators and  *)
(* the environment do, the engine sees its own steps.                      *)
LEMMA EngineStep == [Next]_vars => [EngineNext]_engineVars
<1> SUFFICES ASSUME Next PROVE [EngineNext]_engineVars
  BY DEF vars, engineVars
<1> USE DEF EngineNext
<1>1. ASSUME LoadEnds PROVE [EngineNext]_engineVars
  BY <1>1 DEF LoadEnds
<1>2. ASSUME \/ ResolveStage \/ PlanStage \/ ValidateStage \/ PreInitStage
             \/ GateStage \/ ObserveEnds
      PROVE  [EngineNext]_engineVars
  BY <1>2 DEF ResolveStage, PlanStage, ValidateStage, PreInitStage, GateStage, ObserveEnds
<1>3. ASSUME RenewalStage PROVE [EngineNext]_engineVars
  BY <1>3 DEF RenewalStage
<1>4. ASSUME PlanUnreachable \/ Fault PROVE [EngineNext]_engineVars
  BY <1>4 DEF PlanUnreachable, Fault
<1>5. ASSUME \E s \in Services : ConnectProxy(s) \/ GcNetwork(s)
      PROVE  [EngineNext]_engineVars
  BY <1>5 DEF ConnectProxy, GcNetwork
<1>6. ASSUME ReloadProxy \/ JoinNetwork PROVE [EngineNext]_engineVars
  BY <1>6 DEF ReloadProxy, JoinNetwork
<1>7. ASSUME Again \/ Ends \/ Reboot PROVE [EngineNext]_engineVars
  BY <1>7 DEF Again, Ends, Reboot
<1>8. ASSUME \/ Timer \/ WatcherDuringBoot
             \/ \E strict \in StrictValues : SetFramework(strict)
             \/ \E h \in Hashes : Approve(h) \/ Revoke(h)
      PROVE  [EngineNext]_engineVars
  BY <1>8 DEF Timer, WatcherDuringBoot, SetFramework, Approve, Revoke, Triggers, Sources,
              BootSources, ServingSources
<1>9. ASSUME \/ LoadList
             \/ \E s \in Services : LoadRead(s)
             \/ \E s \in Services : EnsureNetwork(s)
             \/ EnsureVolume
             \/ EnsureContainer
             \/ CreateContainer
             \/ StartContainer
             \/ EnsureExposure
             \/ EnsureProxy
             \/ CreateProxy
             \/ StartProxy
             \/ WriteConfig
             \/ ListRemaining
             \/ \E s \in Services : WriteStatus(s) \/ RemoveStatus(s)
             \/ \E s \in Services : GcContainer(s)
             \/ \E s \in Services : GcVolume(s)
             \/ \E s \in Services : ContainerStops(s)
             \/ ProxyStops
             \/ \E s \in Services, d \in Docs : WriteServiceDoc(s, d)
             \/ \E s \in Services : DeleteServiceDoc(s)
      PROVE  UNCHANGED engineVars
  BY <1>9 DEF LoadList, LoadRead, EnsureNetwork, EnsureVolume, EnsureContainer,
              CreateContainer, StartContainer, EnsureExposure, EnsureProxy,
              CreateProxy, StartProxy, WriteConfig, GcContainer, GcVolume,
              ListRemaining, WriteStatus, RemoveStatus, ContainerStops, ProxyStops,
              WriteServiceDoc, DeleteServiceDoc, ExecuteFrame
<1>10. QED
  BY <1>1, <1>2, <1>3, <1>4, <1>5, <1>6, <1>7, <1>8, <1>9 DEF Next, Pipeline, Environment

(* The pipeline composed with its documents, Docker and operators is a     *)
(* refinement of the bare engine: single flight, coalesced triggers and    *)
(* the reaction to a stage's result are those of engine.ts.                *)
THEOREM DrivesTheEngine == SafetySpec => EngineSpec
<1>1. Init => EngineInit
  BY DEF Init
<1>2. QED
  BY <1>1, EngineStep, PTL DEF SafetySpec, EngineSpec

(* The engine keeps its types.                                             *)
LEMMA EngineTypeStep == EngineTypeOK /\ [EngineNext]_engineVars => EngineTypeOK'
<1> SUFFICES ASSUME EngineTypeOK, [EngineNext]_engineVars PROVE EngineTypeOK'
  OBVIOUS
<1> USE EngineAssumption DEF EngineTypeOK, engineVars, Phases
<1>1. ASSUME NEW flag \in BOOLEAN, StageOk(flag) PROVE EngineTypeOK'
  BY <1>1 DEF StageOk
<1>2. ASSUME StageFail PROVE EngineTypeOK'
  BY <1>2 DEF StageFail, Finished
<1>3. ASSUME NEW source \in Sources, Trigger(source) PROVE EngineTypeOK'
  <2>1. stage' = stage \/ stage' = 1
    BY <1>3 DEF Trigger, TriggerStarts, TriggerCoalesced, BeginRun
  <2>2. /\ UNCHANGED <<phase, booted>>
        /\ running' \in BOOLEAN /\ pendingRerun' \in BOOLEAN /\ degraded' \in BOOLEAN
    BY <1>3, Zenon DEF Trigger, TriggerStarts, TriggerCoalesced, BeginRun
  <2>3. QED
    BY <2>1, <2>2
<1>4. ASSUME LoopAgain \/ LoopEnds \/ Restart PROVE EngineTypeOK'
  <2>1. stage' \in {0, 1}
    BY <1>4 DEF LoopAgain, LoopEnds, Restart, BeginRun
  <2>2. /\ phase' \in Phases /\ booted' \in BOOLEAN
        /\ running' \in BOOLEAN /\ pendingRerun' \in BOOLEAN /\ degraded' \in BOOLEAN
    BY <1>4, Zenon DEF LoopAgain, LoopEnds, Restart, BeginRun
  <2>3. QED
    BY <2>1, <2>2
<1>5. CASE UNCHANGED engineVars
  BY <1>5
<1>6. QED
  BY <1>1, <1>2, <1>3, <1>4, <1>5 DEF EngineNext

(* The full inductive invariant: types, what GATE cleared, what EXECUTE    *)
(* has reached.                                                            *)
HostInv == TypeOK /\ ApprovalIInv /\ HostIInv

(* Before the first run nothing is parked and there is no proxy.           *)
LEMMA HostInit == Init => HostInv /\ NetworkGcUnblocked
<1> SUFFICES ASSUME Init PROVE HostInv /\ NetworkGcUnblocked
  OBVIOUS
<1> USE EngineAssumption, ReconcileAssumption
<1>1. EngineTypeOK
  <2>1. stage = 1 /\ phase = "pending-init"
    BY DEF Init, EngineInit
  <2>2. {running, pendingRerun, degraded, booted} \subseteq BOOLEAN
    BY Zenon DEF Init, EngineInit
  <2>3. QED
    BY <2>1, <2>2 DEF EngineTypeOK, Phases
<1>2. DesiredTypeOK /\ CtxTypeOK
  BY DEF Init, DesiredTypeOK, CtxTypeOK
<1>3. DockerTypeOK
  BY DEF Init, DockerTypeOK
<1>4. HistoryTypeOK
  BY DEF Init, HistoryTypeOK
<1>5. HostIInv
  BY DEF Init, EngineInit, HostIInv, ProxySettled, Busy, Load, Gate, Resolve, Execute,
         Observe
<1>6. NetworkGcUnblocked
  BY DEF Init, NetworkGcUnblocked
<1>7. QED
  BY <1>1, <1>2, <1>3, <1>4, <1>5, <1>6, ApprovalInit DEF HostInv, TypeOK, ApprovalInv

(* The types of CoreTypes are part of TypeOK.                              *)
LEMMA HostCore == HostInv => ApprovalInv
BY DEF HostInv, ApprovalInv, CoreTypes, TypeOK, EngineTypeOK, DesiredTypeOK, CtxTypeOK,
       DockerTypeOK, HistoryTypeOK

(* Documents, approvals and the gated snapshot keep their types.           *)
LEMMA DesiredTypeStep == TypeOK /\ [Next]_vars => DesiredTypeOK'
<1> SUFFICES ASSUME TypeOK, [Next]_vars PROVE DesiredTypeOK'
  OBVIOUS
<1> USE EngineAssumption, ReconcileAssumption
<1> USE DEF desiredVars, ctxVars, dockerVars, proxyCfgVars, runHistory,
            Load, Resolve, Plan, Renewal, Validate, Gate, Execute, Observe
<1> USE DEF TypeOK, DesiredTypeOK
<1>1. ASSUME LoadList PROVE DesiredTypeOK'
  BY <1>1 DEF LoadList, Listings
<1>2. ASSUME NEW s \in Services, LoadRead(s) PROVE DesiredTypeOK'
  BY <1>2 DEF LoadRead
<1>3. ASSUME LoadEnds PROVE DesiredTypeOK'
  BY <1>3 DEF LoadEnds, StageOk, StageFail
<1>4. ASSUME ResolveStage PROVE DesiredTypeOK'
  BY <1>4 DEF ResolveStage, PassesFrame, StageOk
<1>5. ASSUME PlanStage PROVE DesiredTypeOK'
  BY <1>5 DEF PlanStage, PassesFrame, StageOk
<1>6. ASSUME RenewalStage PROVE DesiredTypeOK'
  BY <1>6 DEF RenewalStage, PassesFrame, StageOk
<1>7. ASSUME ValidateStage PROVE DesiredTypeOK'
  BY <1>7 DEF ValidateStage, PassesFrame, StageOk
<1>8. ASSUME PreInitStage PROVE DesiredTypeOK'
  BY <1>8 DEF PreInitStage, PassesFrame, StageOk
<1>9. ASSUME PlanUnreachable PROVE DesiredTypeOK'
  BY <1>9 DEF PlanUnreachable, StageFail
<1>10. ASSUME GateStage PROVE DesiredTypeOK'
  BY <1>10 DEF GateStage, StageOk, Planned, CtxTypeOK, HashOf, Hashes, Docs
<1>11. ASSUME NEW s \in Services, EnsureNetwork(s) PROVE DesiredTypeOK'
  BY <1>11 DEF EnsureNetwork, ExecuteFrame
<1>12. ASSUME EnsureVolume PROVE DesiredTypeOK'
  BY <1>12 DEF EnsureVolume, ExecuteFrame
<1>13. ASSUME EnsureContainer PROVE DesiredTypeOK'
  BY <1>13 DEF EnsureContainer, ExecuteFrame
<1>14. ASSUME CreateContainer PROVE DesiredTypeOK'
  BY <1>14 DEF CreateContainer, ExecuteFrame
<1>15. ASSUME StartContainer PROVE DesiredTypeOK'
  BY <1>15 DEF StartContainer, ExecuteFrame
<1>15a. ASSUME JoinNetwork PROVE DesiredTypeOK'
  <2>1. CASE step' = "service"
    BY <1>15a, <2>1 DEF JoinNetwork, StageFail
  <2>2. CASE StageFail
    BY <1>15a, <2>2 DEF JoinNetwork, StageFail
  <2>3. QED
    BY <1>15a, <2>1, <2>2 DEF JoinNetwork
<1>16. ASSUME EnsureExposure PROVE DesiredTypeOK'
  BY <1>16 DEF EnsureExposure, ProxyFrame
<1>17. ASSUME EnsureProxy PROVE DesiredTypeOK'
  BY <1>17 DEF EnsureProxy, ProxyFrame
<1>18. ASSUME CreateProxy PROVE DesiredTypeOK'
  BY <1>18 DEF CreateProxy, ProxyFrame
<1>19. ASSUME StartProxy PROVE DesiredTypeOK'
  BY <1>19 DEF StartProxy, ProxyFrame
<1>20. ASSUME NEW s \in Services, ConnectProxy(s) PROVE DesiredTypeOK'
  BY <1>20 DEF ConnectProxy, ProxyFrame, StageFail
<1>21. ASSUME WriteConfig PROVE DesiredTypeOK'
  BY <1>21 DEF WriteConfig, ProxyFrame
<1>22. ASSUME ReloadProxy PROVE DesiredTypeOK'
  BY <1>22 DEF ReloadProxy, ProxyFrame, StageOk, StageFail
<1>23. ASSUME NEW s \in Services, GcContainer(s) PROVE DesiredTypeOK'
  BY <1>23 DEF GcContainer, ObserveFrame
<1>24. ASSUME NEW s \in Services, GcNetwork(s) PROVE DesiredTypeOK'
  BY <1>24 DEF GcNetwork, ObserveFrame, StageFail
<1>25. ASSUME NEW s \in Services, GcVolume(s) PROVE DesiredTypeOK'
  BY <1>25 DEF GcVolume, ObserveFrame
<1>26. ASSUME NEW s \in Services, WriteStatus(s) PROVE DesiredTypeOK'
  BY <1>26 DEF WriteStatus, ObserveFrame
<1>26a. ASSUME ListRemaining PROVE DesiredTypeOK'
  BY <1>26a DEF ListRemaining, ObserveFrame, Planned
<1>26b. ASSUME NEW s \in Services, RemoveStatus(s) PROVE DesiredTypeOK'
  BY <1>26b DEF RemoveStatus, ObserveFrame
<1>26c. ASSUME ObserveEnds PROVE DesiredTypeOK'
  BY <1>26c DEF ObserveEnds, ObserveFrame, StageOk
<1>27. ASSUME Again PROVE DesiredTypeOK'
  BY <1>27 DEF Again, LoopAgain, BeginRun, FreshRun
<1>28. ASSUME Ends PROVE DesiredTypeOK'
  BY <1>28 DEF Ends, LoopEnds, FreshRun
<1>29. ASSUME Timer PROVE DesiredTypeOK'
  BY <1>29 DEF Timer, Triggers, Trigger, TriggerCoalesced, TriggerStarts, BeginRun,
        FreshRun
<1>30. ASSUME WatcherDuringBoot PROVE DesiredTypeOK'
  BY <1>30 DEF WatcherDuringBoot, Spend, Triggers, Trigger, TriggerCoalesced,
        TriggerStarts, BeginRun, FreshRun
<1>31. ASSUME Fault PROVE DesiredTypeOK'
  BY <1>31 DEF Fault, StageFail, Spend
<1>32. ASSUME NEW s \in Services, ContainerStops(s) PROVE DesiredTypeOK'
  BY <1>32 DEF ContainerStops, Spend
<1>33. ASSUME ProxyStops PROVE DesiredTypeOK'
  BY <1>33 DEF ProxyStops, Spend
<1>34. ASSUME Reboot PROVE DesiredTypeOK'
  BY <1>34 DEF Reboot, Restart, BeginRun, FreshRun, Spend
<1>35. ASSUME NEW s \in Services, NEW d \in Docs, WriteServiceDoc(s, d) PROVE DesiredTypeOK'
  BY <1>35 DEF WriteServiceDoc, Spend
<1>36. ASSUME NEW s \in Services, DeleteServiceDoc(s) PROVE DesiredTypeOK'
  BY <1>36 DEF DeleteServiceDoc, Spend
<1>37. ASSUME NEW strict \in StrictValues, SetFramework(strict) PROVE DesiredTypeOK'
  BY <1>37 DEF SetFramework, Spend, Triggers, Trigger, TriggerCoalesced,
        TriggerStarts, BeginRun, FreshRun
<1>38. ASSUME NEW h \in Hashes, Approve(h) PROVE DesiredTypeOK'
  BY <1>38 DEF Approve, Spend, Triggers, Trigger, TriggerCoalesced, TriggerStarts,
        BeginRun, FreshRun
<1>39. ASSUME NEW h \in Hashes, Revoke(h) PROVE DesiredTypeOK'
  BY <1>39 DEF Revoke, Spend, Triggers, Trigger, TriggerCoalesced, TriggerStarts,
        BeginRun, FreshRun
<1>40. CASE UNCHANGED vars
  BY <1>40 DEF vars
<1>41. QED
  BY <1>1, <1>2, <1>3, <1>4, <1>5, <1>6, <1>7, <1>8, <1>9, <1>10, <1>11, <1>12, <1>13,
     <1>14, <1>15, <1>16, <1>17, <1>18, <1>19, <1>20, <1>21, <1>22, <1>23, <1>24,
     <1>25, <1>26, <1>27, <1>28, <1>29, <1>30, <1>31, <1>32, <1>33, <1>34, <1>35,
     <1>36, <1>37, <1>38, <1>39, <1>40, <1>15a, <1>26a, <1>26b, <1>26c
  DEF Next, Pipeline, Environment

(* So does the context a run carries from stage to stage.                  *)
LEMMA CtxTypeStep == TypeOK /\ [Next]_vars => CtxTypeOK'
<1> SUFFICES ASSUME TypeOK, [Next]_vars PROVE CtxTypeOK'
  OBVIOUS
<1> USE EngineAssumption, ReconcileAssumption
<1> USE DEF desiredVars, ctxVars, dockerVars, proxyCfgVars, runHistory,
            Load, Resolve, Plan, Renewal, Validate, Gate, Execute, Observe
<1> USE DEF TypeOK, CtxTypeOK, DesiredTypeOK
<1>1. ASSUME LoadList PROVE CtxTypeOK'
  BY <1>1 DEF LoadList, Listings
<1>2. ASSUME NEW s \in Services, LoadRead(s) PROVE CtxTypeOK'
  BY <1>2 DEF LoadRead
<1>3. ASSUME LoadEnds PROVE CtxTypeOK'
  BY <1>3 DEF LoadEnds, StageOk, StageFail
<1>4. ASSUME ResolveStage PROVE CtxTypeOK'
  BY <1>4 DEF ResolveStage, PassesFrame, StageOk
<1>5. ASSUME PlanStage PROVE CtxTypeOK'
  BY <1>5 DEF PlanStage, PassesFrame, StageOk
<1>6. ASSUME RenewalStage PROVE CtxTypeOK'
  BY <1>6 DEF RenewalStage, PassesFrame, StageOk
<1>7. ASSUME ValidateStage PROVE CtxTypeOK'
  BY <1>7 DEF ValidateStage, PassesFrame, StageOk
<1>8. ASSUME PreInitStage PROVE CtxTypeOK'
  BY <1>8 DEF PreInitStage, PassesFrame, StageOk
<1>9. ASSUME PlanUnreachable PROVE CtxTypeOK'
  BY <1>9 DEF PlanUnreachable, StageFail
<1>10. ASSUME GateStage PROVE CtxTypeOK'
  BY <1>10 DEF GateStage, StageOk, Planned, GateFor
<1>11. ASSUME NEW s \in Services, EnsureNetwork(s) PROVE CtxTypeOK'
  BY <1>11 DEF EnsureNetwork, ExecuteFrame
<1>12. ASSUME EnsureVolume PROVE CtxTypeOK'
  BY <1>12 DEF EnsureVolume, ExecuteFrame
<1>13. ASSUME EnsureContainer PROVE CtxTypeOK'
  BY <1>13 DEF EnsureContainer, ExecuteFrame
<1>14. ASSUME CreateContainer PROVE CtxTypeOK'
  BY <1>14 DEF CreateContainer, ExecuteFrame
<1>15. ASSUME StartContainer PROVE CtxTypeOK'
  BY <1>15 DEF StartContainer, ExecuteFrame
<1>15a. ASSUME JoinNetwork PROVE CtxTypeOK'
  <2>1. CASE step' = "service"
    BY <1>15a, <2>1 DEF JoinNetwork, StageFail
  <2>2. CASE StageFail
    BY <1>15a, <2>2 DEF JoinNetwork, StageFail
  <2>3. QED
    BY <1>15a, <2>1, <2>2 DEF JoinNetwork
<1>16. ASSUME EnsureExposure PROVE CtxTypeOK'
  BY <1>16 DEF EnsureExposure, ProxyFrame
<1>17. ASSUME EnsureProxy PROVE CtxTypeOK'
  BY <1>17 DEF EnsureProxy, ProxyFrame, Planned
<1>18. ASSUME CreateProxy PROVE CtxTypeOK'
  BY <1>18 DEF CreateProxy, ProxyFrame
<1>19. ASSUME StartProxy PROVE CtxTypeOK'
  BY <1>19 DEF StartProxy, ProxyFrame, Planned
<1>20. ASSUME NEW s \in Services, ConnectProxy(s) PROVE CtxTypeOK'
  BY <1>20 DEF ConnectProxy, ProxyFrame, StageFail
<1>21. ASSUME WriteConfig PROVE CtxTypeOK'
  BY <1>21 DEF WriteConfig, ProxyFrame
<1>22. ASSUME ReloadProxy PROVE CtxTypeOK'
  BY <1>22 DEF ReloadProxy, ProxyFrame, StageOk, StageFail
<1>23. ASSUME NEW s \in Services, GcContainer(s) PROVE CtxTypeOK'
  BY <1>23 DEF GcContainer, ObserveFrame
<1>24. ASSUME NEW s \in Services, GcNetwork(s) PROVE CtxTypeOK'
  BY <1>24 DEF GcNetwork, ObserveFrame, StageFail
<1>25. ASSUME NEW s \in Services, GcVolume(s) PROVE CtxTypeOK'
  BY <1>25 DEF GcVolume, ObserveFrame
<1>26. ASSUME NEW s \in Services, WriteStatus(s) PROVE CtxTypeOK'
  BY <1>26 DEF WriteStatus, ObserveFrame
<1>26a. ASSUME ListRemaining PROVE CtxTypeOK'
  BY <1>26a DEF ListRemaining, ObserveFrame, Planned
<1>26b. ASSUME NEW s \in Services, RemoveStatus(s) PROVE CtxTypeOK'
  BY <1>26b DEF RemoveStatus, ObserveFrame
<1>26c. ASSUME ObserveEnds PROVE CtxTypeOK'
  BY <1>26c DEF ObserveEnds, ObserveFrame, StageOk
<1>27. ASSUME Again PROVE CtxTypeOK'
  BY <1>27 DEF Again, LoopAgain, BeginRun, FreshRun
<1>28. ASSUME Ends PROVE CtxTypeOK'
  BY <1>28 DEF Ends, LoopEnds, FreshRun
<1>29. ASSUME Timer PROVE CtxTypeOK'
  BY <1>29 DEF Timer, Triggers, Trigger, TriggerCoalesced, TriggerStarts, BeginRun,
        FreshRun
<1>30. ASSUME WatcherDuringBoot PROVE CtxTypeOK'
  BY <1>30 DEF WatcherDuringBoot, Spend, Triggers, Trigger, TriggerCoalesced,
        TriggerStarts, BeginRun, FreshRun
<1>31. ASSUME Fault PROVE CtxTypeOK'
  BY <1>31 DEF Fault, StageFail, Spend
<1>32. ASSUME NEW s \in Services, ContainerStops(s) PROVE CtxTypeOK'
  BY <1>32 DEF ContainerStops, Spend
<1>33. ASSUME ProxyStops PROVE CtxTypeOK'
  BY <1>33 DEF ProxyStops, Spend
<1>34. ASSUME Reboot PROVE CtxTypeOK'
  BY <1>34 DEF Reboot, Restart, BeginRun, FreshRun, Spend
<1>35. ASSUME NEW s \in Services, NEW d \in Docs, WriteServiceDoc(s, d) PROVE CtxTypeOK'
  BY <1>35 DEF WriteServiceDoc, Spend
<1>36. ASSUME NEW s \in Services, DeleteServiceDoc(s) PROVE CtxTypeOK'
  BY <1>36 DEF DeleteServiceDoc, Spend
<1>37. ASSUME NEW strict \in StrictValues, SetFramework(strict) PROVE CtxTypeOK'
  BY <1>37 DEF SetFramework, Spend, Triggers, Trigger, TriggerCoalesced,
        TriggerStarts, BeginRun, FreshRun
<1>38. ASSUME NEW h \in Hashes, Approve(h) PROVE CtxTypeOK'
  BY <1>38 DEF Approve, Spend, Triggers, Trigger, TriggerCoalesced, TriggerStarts,
        BeginRun, FreshRun
<1>39. ASSUME NEW h \in Hashes, Revoke(h) PROVE CtxTypeOK'
  BY <1>39 DEF Revoke, Spend, Triggers, Trigger, TriggerCoalesced, TriggerStarts,
        BeginRun, FreshRun
<1>40. CASE UNCHANGED vars
  BY <1>40 DEF vars
<1>41. QED
  BY <1>1, <1>2, <1>3, <1>4, <1>5, <1>6, <1>7, <1>8, <1>9, <1>10, <1>11, <1>12, <1>13,
     <1>14, <1>15, <1>16, <1>17, <1>18, <1>19, <1>20, <1>21, <1>22, <1>23, <1>24,
     <1>25, <1>26, <1>27, <1>28, <1>29, <1>30, <1>31, <1>32, <1>33, <1>34, <1>35,
     <1>36, <1>37, <1>38, <1>39, <1>40, <1>15a, <1>26a, <1>26b, <1>26c
  DEF Next, Pipeline, Environment

(* So do Docker's objects, the proxy's configuration and the status.       *)
LEMMA DockerTypeStep == HostInv /\ [Next]_vars => DockerTypeOK'
<1> SUFFICES ASSUME HostInv, [Next]_vars PROVE DockerTypeOK'
  OBVIOUS
<1> USE EngineAssumption, ReconcileAssumption
<1> USE DEF desiredVars, ctxVars, dockerVars, proxyCfgVars, runHistory,
            Load, Resolve, Plan, Renewal, Validate, Gate, Execute, Observe
<1> USE DEF HostInv, TypeOK, DockerTypeOK
<1>1. ASSUME LoadList PROVE DockerTypeOK'
  BY <1>1 DEF LoadList, Listings
<1>2. ASSUME NEW s \in Services, LoadRead(s) PROVE DockerTypeOK'
  BY <1>2 DEF LoadRead
<1>3. ASSUME LoadEnds PROVE DockerTypeOK'
  BY <1>3 DEF LoadEnds, StageOk, StageFail
<1>4. ASSUME ResolveStage PROVE DockerTypeOK'
  BY <1>4 DEF ResolveStage, PassesFrame, StageOk
<1>5. ASSUME PlanStage PROVE DockerTypeOK'
  BY <1>5 DEF PlanStage, PassesFrame, StageOk
<1>6. ASSUME RenewalStage PROVE DockerTypeOK'
  BY <1>6 DEF RenewalStage, PassesFrame, StageOk
<1>7. ASSUME ValidateStage PROVE DockerTypeOK'
  BY <1>7 DEF ValidateStage, PassesFrame, StageOk
<1>8. ASSUME PreInitStage PROVE DockerTypeOK'
  BY <1>8 DEF PreInitStage, PassesFrame, StageOk
<1>9. ASSUME PlanUnreachable PROVE DockerTypeOK'
  BY <1>9 DEF PlanUnreachable, StageFail
<1>10. ASSUME GateStage PROVE DockerTypeOK'
  BY <1>10 DEF GateStage, StageOk, Planned
<1>11. ASSUME NEW s \in Services, EnsureNetwork(s) PROVE DockerTypeOK'
  BY <1>11 DEF EnsureNetwork, ExecuteFrame
<1>12. ASSUME EnsureVolume PROVE DockerTypeOK'
  BY <1>12 DEF EnsureVolume, ExecuteFrame, ApprovalIInv, Busy, Cleared
<1>13. ASSUME EnsureContainer PROVE DockerTypeOK'
  BY <1>13 DEF EnsureContainer, ExecuteFrame, ApprovalIInv, Cleared, Busy,
        CtxTypeOK, Containers, Configs, States, ConfigOf, Docs
<1>14. ASSUME CreateContainer PROVE DockerTypeOK'
  BY <1>14 DEF CreateContainer, ExecuteFrame, ApprovalIInv, Cleared, Busy,
        CtxTypeOK, Containers, Configs, States, ConfigOf, Docs
<1>15. ASSUME StartContainer PROVE DockerTypeOK'
  BY <1>15 DEF StartContainer, ExecuteFrame, ApprovalIInv, Cleared, Busy, CtxTypeOK,
        Containers, Configs, States, ConfigOf, Docs
<1>15a. ASSUME JoinNetwork PROVE DockerTypeOK'
  <2>1. CASE step' = "service"
    BY <1>15a, <2>1 DEF JoinNetwork, StageFail
  <2>2. CASE StageFail
    BY <1>15a, <2>2 DEF JoinNetwork, StageFail
  <2>3. QED
    BY <1>15a, <2>1, <2>2 DEF JoinNetwork
<1>16. ASSUME EnsureExposure PROVE DockerTypeOK'
  BY <1>16 DEF EnsureExposure, ProxyFrame
<1>17. ASSUME EnsureProxy PROVE DockerTypeOK'
  BY <1>17 DEF EnsureProxy, ProxyFrame, HostIInv, ProxySettled, ProxyContainers,
        States, Planned
<1>18. ASSUME CreateProxy PROVE DockerTypeOK'
  BY <1>18 DEF CreateProxy, ProxyFrame, HostIInv, ProxySettled, ProxyContainers,
        States, Planned
<1>19. ASSUME StartProxy PROVE DockerTypeOK'
  BY <1>19 DEF StartProxy, ProxyFrame, HostIInv, ProxySettled, ProxyContainers,
        States, Planned
<1>20. ASSUME NEW s \in Services, ConnectProxy(s) PROVE DockerTypeOK'
  BY <1>20 DEF ConnectProxy, ProxyFrame, StageFail, HostIInv, ProxySettled,
        ProxyContainers, States, Planned
<1>21. ASSUME WriteConfig PROVE DockerTypeOK'
  BY <1>21 DEF WriteConfig, ProxyFrame, Planned
<1>22. ASSUME ReloadProxy PROVE DockerTypeOK'
  BY <1>22 DEF ReloadProxy, ProxyFrame, StageOk, StageFail, HostIInv, ProxySettled,
        ProxyContainers, States, Planned
<1>23. ASSUME NEW s \in Services, GcContainer(s) PROVE DockerTypeOK'
  BY <1>23 DEF GcContainer, ObserveFrame
<1>24. ASSUME NEW s \in Services, GcNetwork(s) PROVE DockerTypeOK'
  BY <1>24 DEF GcNetwork, ObserveFrame, StageFail
<1>25. ASSUME NEW s \in Services, GcVolume(s) PROVE DockerTypeOK'
  BY <1>25 DEF GcVolume, ObserveFrame
<1>26. ASSUME NEW s \in Services, WriteStatus(s) PROVE DockerTypeOK'
  BY <1>26 DEF WriteStatus, ObserveFrame, ServicePhase
<1>26a. ASSUME ListRemaining PROVE DockerTypeOK'
  BY <1>26a DEF ListRemaining, ObserveFrame, Planned
<1>26b. ASSUME NEW s \in Services, RemoveStatus(s) PROVE DockerTypeOK'
  BY <1>26b DEF RemoveStatus, ObserveFrame
<1>26c. ASSUME ObserveEnds PROVE DockerTypeOK'
  BY <1>26c DEF ObserveEnds, ObserveFrame, StageOk
<1>27. ASSUME Again PROVE DockerTypeOK'
  BY <1>27 DEF Again, LoopAgain, BeginRun, FreshRun
<1>28. ASSUME Ends PROVE DockerTypeOK'
  BY <1>28 DEF Ends, LoopEnds, FreshRun
<1>29. ASSUME Timer PROVE DockerTypeOK'
  BY <1>29 DEF Timer, Triggers, Trigger, TriggerCoalesced, TriggerStarts, BeginRun,
        FreshRun
<1>30. ASSUME WatcherDuringBoot PROVE DockerTypeOK'
  BY <1>30 DEF WatcherDuringBoot, Spend, Triggers, Trigger, TriggerCoalesced,
        TriggerStarts, BeginRun, FreshRun
<1>31. ASSUME Fault PROVE DockerTypeOK'
  BY <1>31 DEF Fault, StageFail, Spend
<1>32. ASSUME NEW s \in Services, ContainerStops(s) PROVE DockerTypeOK'
  BY <1>32 DEF ContainerStops, Spend, Containers, Configs, States
<1>33. ASSUME ProxyStops PROVE DockerTypeOK'
  BY <1>33 DEF ProxyStops, Spend, ProxyContainers, States
<1>34. ASSUME Reboot PROVE DockerTypeOK'
  BY <1>34 DEF Reboot, Restart, BeginRun, FreshRun, Spend
<1>35. ASSUME NEW s \in Services, NEW d \in Docs, WriteServiceDoc(s, d) PROVE DockerTypeOK'
  BY <1>35 DEF WriteServiceDoc, Spend
<1>36. ASSUME NEW s \in Services, DeleteServiceDoc(s) PROVE DockerTypeOK'
  BY <1>36 DEF DeleteServiceDoc, Spend
<1>37. ASSUME NEW strict \in StrictValues, SetFramework(strict) PROVE DockerTypeOK'
  BY <1>37 DEF SetFramework, Spend, Triggers, Trigger, TriggerCoalesced,
        TriggerStarts, BeginRun, FreshRun
<1>38. ASSUME NEW h \in Hashes, Approve(h) PROVE DockerTypeOK'
  BY <1>38 DEF Approve, Spend, Triggers, Trigger, TriggerCoalesced, TriggerStarts,
        BeginRun, FreshRun
<1>39. ASSUME NEW h \in Hashes, Revoke(h) PROVE DockerTypeOK'
  BY <1>39 DEF Revoke, Spend, Triggers, Trigger, TriggerCoalesced, TriggerStarts,
        BeginRun, FreshRun
<1>40. CASE UNCHANGED vars
  BY <1>40 DEF vars
<1>41. QED
  BY <1>1, <1>2, <1>3, <1>4, <1>5, <1>6, <1>7, <1>8, <1>9, <1>10, <1>11, <1>12, <1>13,
     <1>14, <1>15, <1>16, <1>17, <1>18, <1>19, <1>20, <1>21, <1>22, <1>23, <1>24,
     <1>25, <1>26, <1>27, <1>28, <1>29, <1>30, <1>31, <1>32, <1>33, <1>34, <1>35,
     <1>36, <1>37, <1>38, <1>39, <1>40, <1>15a, <1>26a, <1>26b, <1>26c
  DEF Next, Pipeline, Environment

(* So do the budgets and the history.                                      *)
LEMMA HistoryTypeStep == TypeOK /\ [Next]_vars => HistoryTypeOK'
<1> SUFFICES ASSUME TypeOK, [Next]_vars PROVE HistoryTypeOK'
  OBVIOUS
<1> USE EngineAssumption, ReconcileAssumption
<1> USE DEF desiredVars, ctxVars, dockerVars, proxyCfgVars, runHistory,
            Load, Resolve, Plan, Renewal, Validate, Gate, Execute, Observe
<1> USE DEF TypeOK, HistoryTypeOK
<1>1. ASSUME LoadList PROVE HistoryTypeOK'
  BY <1>1 DEF LoadList, Listings
<1>2. ASSUME NEW s \in Services, LoadRead(s) PROVE HistoryTypeOK'
  BY <1>2 DEF LoadRead
<1>3. ASSUME LoadEnds PROVE HistoryTypeOK'
  BY <1>3 DEF LoadEnds, StageOk, StageFail
<1>4. ASSUME ResolveStage PROVE HistoryTypeOK'
  BY <1>4 DEF ResolveStage, PassesFrame, StageOk
<1>5. ASSUME PlanStage PROVE HistoryTypeOK'
  BY <1>5 DEF PlanStage, PassesFrame, StageOk
<1>6. ASSUME RenewalStage PROVE HistoryTypeOK'
  BY <1>6 DEF RenewalStage, PassesFrame, StageOk
<1>7. ASSUME ValidateStage PROVE HistoryTypeOK'
  BY <1>7 DEF ValidateStage, PassesFrame, StageOk
<1>8. ASSUME PreInitStage PROVE HistoryTypeOK'
  BY <1>8 DEF PreInitStage, PassesFrame, StageOk
<1>9. ASSUME PlanUnreachable PROVE HistoryTypeOK'
  BY <1>9 DEF PlanUnreachable, StageFail
<1>10. ASSUME GateStage PROVE HistoryTypeOK'
  BY <1>10 DEF GateStage, StageOk, Planned
<1>11. ASSUME NEW s \in Services, EnsureNetwork(s) PROVE HistoryTypeOK'
  BY <1>11 DEF EnsureNetwork, ExecuteFrame
<1>12. ASSUME EnsureVolume PROVE HistoryTypeOK'
  BY <1>12 DEF EnsureVolume, ExecuteFrame
<1>13. ASSUME EnsureContainer PROVE HistoryTypeOK'
  BY <1>13 DEF EnsureContainer, ExecuteFrame
<1>14. ASSUME CreateContainer PROVE HistoryTypeOK'
  BY <1>14 DEF CreateContainer, ExecuteFrame
<1>15. ASSUME StartContainer PROVE HistoryTypeOK'
  BY <1>15 DEF StartContainer, ExecuteFrame
<1>15a. ASSUME JoinNetwork PROVE HistoryTypeOK'
  <2>1. CASE step' = "service"
    BY <1>15a, <2>1 DEF JoinNetwork, StageFail
  <2>2. CASE StageFail
    BY <1>15a, <2>2 DEF JoinNetwork, StageFail
  <2>3. QED
    BY <1>15a, <2>1, <2>2 DEF JoinNetwork
<1>16. ASSUME EnsureExposure PROVE HistoryTypeOK'
  BY <1>16 DEF EnsureExposure, ProxyFrame
<1>17. ASSUME EnsureProxy PROVE HistoryTypeOK'
  BY <1>17 DEF EnsureProxy, ProxyFrame
<1>18. ASSUME CreateProxy PROVE HistoryTypeOK'
  BY <1>18 DEF CreateProxy, ProxyFrame
<1>19. ASSUME StartProxy PROVE HistoryTypeOK'
  BY <1>19 DEF StartProxy, ProxyFrame
<1>20. ASSUME NEW s \in Services, ConnectProxy(s) PROVE HistoryTypeOK'
  BY <1>20 DEF ConnectProxy, ProxyFrame, StageFail
<1>21. ASSUME WriteConfig PROVE HistoryTypeOK'
  BY <1>21 DEF WriteConfig, ProxyFrame
<1>22. ASSUME ReloadProxy PROVE HistoryTypeOK'
  BY <1>22 DEF ReloadProxy, ProxyFrame, StageOk, StageFail
<1>23. ASSUME NEW s \in Services, GcContainer(s) PROVE HistoryTypeOK'
  BY <1>23 DEF GcContainer, ObserveFrame
<1>24. ASSUME NEW s \in Services, GcNetwork(s) PROVE HistoryTypeOK'
  BY <1>24 DEF GcNetwork, ObserveFrame, StageFail
<1>25. ASSUME NEW s \in Services, GcVolume(s) PROVE HistoryTypeOK'
  BY <1>25 DEF GcVolume, ObserveFrame
<1>26. ASSUME NEW s \in Services, WriteStatus(s) PROVE HistoryTypeOK'
  BY <1>26 DEF WriteStatus, ObserveFrame
<1>26a. ASSUME ListRemaining PROVE HistoryTypeOK'
  BY <1>26a DEF ListRemaining, ObserveFrame, Planned
<1>26b. ASSUME NEW s \in Services, RemoveStatus(s) PROVE HistoryTypeOK'
  BY <1>26b DEF RemoveStatus, ObserveFrame
<1>26c. ASSUME ObserveEnds PROVE HistoryTypeOK'
  BY <1>26c DEF ObserveEnds, ObserveFrame, StageOk
<1>27. ASSUME Again PROVE HistoryTypeOK'
  BY <1>27 DEF Again, LoopAgain, BeginRun, FreshRun
<1>28. ASSUME Ends PROVE HistoryTypeOK'
  BY <1>28 DEF Ends, LoopEnds, FreshRun
<1>29. ASSUME Timer PROVE HistoryTypeOK'
  BY <1>29 DEF Timer, Triggers, Trigger, TriggerCoalesced, TriggerStarts, BeginRun,
        FreshRun
<1>30. ASSUME WatcherDuringBoot PROVE HistoryTypeOK'
  BY <1>30 DEF WatcherDuringBoot, Spend, Triggers, Trigger, TriggerCoalesced,
        TriggerStarts, BeginRun, FreshRun
<1>31. ASSUME Fault PROVE HistoryTypeOK'
  BY <1>31 DEF Fault, StageFail, Spend
<1>32. ASSUME NEW s \in Services, ContainerStops(s) PROVE HistoryTypeOK'
  BY <1>32 DEF ContainerStops, Spend
<1>33. ASSUME ProxyStops PROVE HistoryTypeOK'
  BY <1>33 DEF ProxyStops, Spend
<1>34. ASSUME Reboot PROVE HistoryTypeOK'
  BY <1>34 DEF Reboot, Restart, BeginRun, FreshRun, Spend
<1>35. ASSUME NEW s \in Services, NEW d \in Docs, WriteServiceDoc(s, d) PROVE HistoryTypeOK'
  BY <1>35 DEF WriteServiceDoc, Spend
<1>36. ASSUME NEW s \in Services, DeleteServiceDoc(s) PROVE HistoryTypeOK'
  BY <1>36 DEF DeleteServiceDoc, Spend
<1>37. ASSUME NEW strict \in StrictValues, SetFramework(strict) PROVE HistoryTypeOK'
  BY <1>37 DEF SetFramework, Spend, Triggers, Trigger, TriggerCoalesced,
        TriggerStarts, BeginRun, FreshRun
<1>38. ASSUME NEW h \in Hashes, Approve(h) PROVE HistoryTypeOK'
  BY <1>38 DEF Approve, Spend, Triggers, Trigger, TriggerCoalesced, TriggerStarts,
        BeginRun, FreshRun
<1>39. ASSUME NEW h \in Hashes, Revoke(h) PROVE HistoryTypeOK'
  BY <1>39 DEF Revoke, Spend, Triggers, Trigger, TriggerCoalesced, TriggerStarts,
        BeginRun, FreshRun
<1>40. CASE UNCHANGED vars
  BY <1>40 DEF vars
<1>41. QED
  BY <1>1, <1>2, <1>3, <1>4, <1>5, <1>6, <1>7, <1>8, <1>9, <1>10, <1>11, <1>12, <1>13,
     <1>14, <1>15, <1>16, <1>17, <1>18, <1>19, <1>20, <1>21, <1>22, <1>23, <1>24,
     <1>25, <1>26, <1>27, <1>28, <1>29, <1>30, <1>31, <1>32, <1>33, <1>34, <1>35,
     <1>36, <1>37, <1>38, <1>39, <1>40, <1>15a, <1>26a, <1>26b, <1>26c
  DEF Next, Pipeline, Environment

(* Every step keeps EXECUTE off what is parked and the proxy off what is   *)
(* not planned.                                                            *)
LEMMA HostStep == HostInv /\ [Next]_vars => HostIInv'
<1> SUFFICES ASSUME HostInv, [Next]_vars PROVE HostIInv'
  OBVIOUS
<1> USE EngineAssumption, ReconcileAssumption
<1> USE DEF desiredVars, ctxVars, dockerVars, proxyCfgVars, runHistory,
            Load, Resolve, Plan, Renewal, Validate, Gate, Execute, Observe
<1> USE DEF engineVars, Finished, HostInv, TypeOK, EngineTypeOK, CtxTypeOK, HostIInv,
            ProxySettled, Planned, Busy
<1>1. ASSUME LoadList PROVE HostIInv'
  BY <1>1 DEF LoadList, Listings
<1>2. ASSUME NEW s \in Services, LoadRead(s) PROVE HostIInv'
  BY <1>2 DEF LoadRead
<1>3. ASSUME LoadEnds PROVE HostIInv'
  BY <1>3 DEF LoadEnds, StageOk, StageFail
<1>4. ASSUME ResolveStage PROVE HostIInv'
  BY <1>4 DEF ResolveStage, PassesFrame, StageOk
<1>5. ASSUME PlanStage PROVE HostIInv'
  BY <1>5 DEF PlanStage, PassesFrame, StageOk
<1>6. ASSUME RenewalStage PROVE HostIInv'
  BY <1>6 DEF RenewalStage, PassesFrame, StageOk
<1>7. ASSUME ValidateStage PROVE HostIInv'
  BY <1>7 DEF ValidateStage, PassesFrame, StageOk
<1>8. ASSUME PreInitStage PROVE HostIInv'
  BY <1>8 DEF PreInitStage, PassesFrame, StageOk, ApprovalIInv
<1>9. ASSUME PlanUnreachable PROVE HostIInv'
  BY <1>9 DEF PlanUnreachable, StageFail
<1>10. ASSUME GateStage PROVE HostIInv'
  BY <1>10 DEF GateStage, StageOk, ApprovalIInv, GateFor
<1>11. ASSUME NEW s \in Services, EnsureNetwork(s) PROVE HostIInv'
  BY <1>11 DEF EnsureNetwork, ExecuteFrame
<1>12. ASSUME EnsureVolume PROVE HostIInv'
  BY <1>12 DEF EnsureVolume, ExecuteFrame
<1>13. ASSUME EnsureContainer PROVE HostIInv'
  BY <1>13 DEF EnsureContainer, ExecuteFrame, ApprovalIInv, DockerTypeOK
<1>14. ASSUME CreateContainer PROVE HostIInv'
  BY <1>14 DEF CreateContainer, ExecuteFrame
<1>15. ASSUME StartContainer PROVE HostIInv'
  BY <1>15 DEF StartContainer, ExecuteFrame
<1>15a. ASSUME JoinNetwork PROVE HostIInv'
  <2>1. CASE step' = "service"
    BY <1>15a, <2>1 DEF JoinNetwork, StageFail
  <2>2. CASE StageFail
    BY <1>15a, <2>2 DEF JoinNetwork, StageFail
  <2>3. QED
    BY <1>15a, <2>1, <2>2 DEF JoinNetwork
<1>16. ASSUME EnsureExposure PROVE HostIInv'
  BY <1>16 DEF EnsureExposure, ProxyFrame
<1>17. ASSUME EnsureProxy PROVE HostIInv'
  BY <1>17 DEF EnsureProxy, ProxyFrame, DockerTypeOK, ProxyContainers, States
<1>18. ASSUME CreateProxy PROVE HostIInv'
  BY <1>18 DEF CreateProxy, ProxyFrame, DockerTypeOK, ProxyContainers, States
<1>19. ASSUME StartProxy PROVE HostIInv'
  BY <1>19 DEF StartProxy, ProxyFrame, DockerTypeOK, ProxyContainers, States
<1>20. ASSUME NEW s \in Services, ConnectProxy(s) PROVE HostIInv'
  BY <1>20 DEF ConnectProxy, ProxyFrame, StageFail, DockerTypeOK, ProxyContainers,
        States
<1>21. ASSUME WriteConfig PROVE HostIInv'
  BY <1>21 DEF WriteConfig, ProxyFrame
<1>22. ASSUME ReloadProxy PROVE HostIInv'
  BY <1>22 DEF ReloadProxy, ProxyFrame, StageOk, StageFail
<1>23. ASSUME NEW s \in Services, GcContainer(s) PROVE HostIInv'
  BY <1>23 DEF GcContainer, ObserveFrame, DockerTypeOK
<1>24. ASSUME NEW s \in Services, GcNetwork(s) PROVE HostIInv'
  BY <1>24 DEF GcNetwork, ObserveFrame, StageFail
<1>25. ASSUME NEW s \in Services, GcVolume(s) PROVE HostIInv'
  BY <1>25 DEF GcVolume, ObserveFrame
<1>26. ASSUME NEW s \in Services, WriteStatus(s) PROVE HostIInv'
  BY <1>26 DEF WriteStatus, ObserveFrame
<1>26a. ASSUME ListRemaining PROVE HostIInv'
  BY <1>26a DEF ListRemaining, ObserveFrame, Planned
<1>26b. ASSUME NEW s \in Services, RemoveStatus(s) PROVE HostIInv'
  BY <1>26b DEF RemoveStatus, ObserveFrame
<1>26c. ASSUME ObserveEnds PROVE HostIInv'
  BY <1>26c DEF ObserveEnds, ObserveFrame, StageOk
<1>27. ASSUME Again PROVE HostIInv'
  BY <1>27 DEF Again, LoopAgain, BeginRun, FreshRun
<1>28. ASSUME Ends PROVE HostIInv'
  BY <1>28 DEF Ends, LoopEnds, FreshRun
<1>29. ASSUME Timer PROVE HostIInv'
  BY <1>29 DEF Timer, Triggers, Trigger, TriggerCoalesced, TriggerStarts, BeginRun,
        FreshRun
<1>30. ASSUME WatcherDuringBoot PROVE HostIInv'
  BY <1>30 DEF WatcherDuringBoot, Spend, Triggers, Trigger, TriggerCoalesced,
        TriggerStarts, BeginRun, FreshRun
<1>31. ASSUME Fault PROVE HostIInv'
  BY <1>31 DEF Fault, StageFail, Spend
<1>32. ASSUME NEW s \in Services, ContainerStops(s) PROVE HostIInv'
  BY <1>32 DEF ContainerStops, Spend, DockerTypeOK
<1>33. ASSUME ProxyStops PROVE HostIInv'
  BY <1>33 DEF ProxyStops, Spend, DockerTypeOK, ProxyContainers, States
<1>34. ASSUME Reboot PROVE HostIInv'
  BY <1>34 DEF Reboot, Restart, BeginRun, FreshRun, Spend
<1>35. ASSUME NEW s \in Services, NEW d \in Docs, WriteServiceDoc(s, d) PROVE HostIInv'
  BY <1>35 DEF WriteServiceDoc, Spend
<1>36. ASSUME NEW s \in Services, DeleteServiceDoc(s) PROVE HostIInv'
  BY <1>36 DEF DeleteServiceDoc, Spend
<1>37. ASSUME NEW strict \in StrictValues, SetFramework(strict) PROVE HostIInv'
  BY <1>37 DEF SetFramework, Spend, Triggers, Trigger, TriggerCoalesced,
        TriggerStarts, BeginRun, FreshRun
<1>38. ASSUME NEW h \in Hashes, Approve(h) PROVE HostIInv'
  BY <1>38 DEF Approve, Spend, Triggers, Trigger, TriggerCoalesced, TriggerStarts,
        BeginRun, FreshRun
<1>39. ASSUME NEW h \in Hashes, Revoke(h) PROVE HostIInv'
  BY <1>39 DEF Revoke, Spend, Triggers, Trigger, TriggerCoalesced, TriggerStarts,
        BeginRun, FreshRun
<1>40. CASE UNCHANGED vars
  BY <1>40 DEF vars
<1>41. QED
  BY <1>1, <1>2, <1>3, <1>4, <1>5, <1>6, <1>7, <1>8, <1>9, <1>10, <1>11, <1>12, <1>13,
     <1>14, <1>15, <1>16, <1>17, <1>18, <1>19, <1>20, <1>21, <1>22, <1>23, <1>24,
     <1>25, <1>26, <1>27, <1>28, <1>29, <1>30, <1>31, <1>32, <1>33, <1>34, <1>35,
     <1>36, <1>37, <1>38, <1>39, <1>40, <1>15a, <1>26a, <1>26b, <1>26c
  DEF Next, Pipeline, Environment

(* The full invariant is inductive.                                        *)
LEMMA HostInductive == HostInv /\ [Next]_vars => HostInv'
<1>1. HostInv /\ [Next]_vars => TypeOK'
  BY EngineStep, EngineTypeStep, DesiredTypeStep, CtxTypeStep, DockerTypeStep,
     HistoryTypeStep
  DEF HostInv, TypeOK
<1>2. HostInv /\ [Next]_vars => ApprovalIInv'
  BY HostCore, ApprovalStep DEF ApprovalInv
<1>3. QED
  BY <1>1, <1>2, HostStep DEF HostInv

(* Docker never has to refuse: when OBSERVE comes to a network nobody      *)
(* plans, its containers are gone and the proxy was rebuilt without it.    *)
LEMMA UnblockedStep == HostInv /\ NetworkGcUnblocked /\ [Next]_vars => NetworkGcUnblocked'
<1> SUFFICES ASSUME HostInv, NetworkGcUnblocked, [Next]_vars PROVE NetworkGcUnblocked'
  OBVIOUS
<1> USE DEF NetworkGcUnblocked
<1>1. ASSUME NEW s \in Services, GcNetwork(s) PROVE NetworkGcUnblocked'
  BY <1>1 DEF GcNetwork, OrphanNetworks, OrphanContainers, InUse, HostInv, HostIInv,
              ProxySettled, Planned
<1>2. CASE Next /\ \A s \in Services : ~GcNetwork(s)
  BY <1>2 DEF Next, Pipeline, Environment, LoadList, LoadRead, LoadEnds, ResolveStage,
              PlanStage, RenewalStage, ValidateStage, PreInitStage, PlanUnreachable,
              GateStage, EnsureNetwork, EnsureVolume, EnsureContainer,
              CreateContainer, StartContainer, EnsureExposure, EnsureProxy,
              CreateProxy, StartProxy, ConnectProxy, WriteConfig, ReloadProxy,
              JoinNetwork, GcContainer, GcVolume, ListRemaining, WriteStatus,
              RemoveStatus, ObserveEnds, Again, Ends, Timer,
              WatcherDuringBoot, Fault, ContainerStops, ProxyStops, Reboot,
              WriteServiceDoc, DeleteServiceDoc, SetFramework, Approve, Revoke,
              Triggers, FreshRun, PassesFrame, ExecuteFrame, runHistory, ctxVars
<1>3. QED
  BY <1>1, <1>2 DEF vars

(* A step that touches Docker in EXECUTE or OBSERVE is about a service     *)
(* that is not parked, or is about the proxy.                              *)
LEMMA ParkedStep == HostInv /\ [Next]_vars => [ParkedIsUntouched]_vars
<1> SUFFICES ASSUME HostInv, Next PROVE ParkedIsUntouched
  BY DEF ParkedIsUntouched
<1> USE ReconcileAssumption
<1> USE DEF HostInv, TypeOK, DockerTypeOK, CtxTypeOK, ApprovalIInv, HostIInv, Busy,
            ParkedIsUntouched, Execute, Observe
<1>1. ASSUME NEW s \in Services, EnsureNetwork(s) PROVE ParkedIsUntouched
  BY <1>1 DEF EnsureNetwork
<1>2. CASE EnsureVolume
  BY <1>2 DEF EnsureVolume, ExecuteFrame
<1>3. CASE EnsureContainer
  BY <1>3 DEF EnsureContainer
<1>4. CASE CreateContainer
  BY <1>4 DEF CreateContainer
<1>5. CASE StartContainer
  BY <1>5 DEF StartContainer
<1>6. ASSUME NEW s \in Services, GcContainer(s) PROVE ParkedIsUntouched
  BY <1>6 DEF GcContainer, OrphanContainers
<1>7. ASSUME NEW s \in Services, GcNetwork(s) PROVE ParkedIsUntouched
  BY <1>7 DEF GcNetwork, OrphanNetworks
<1>8. ASSUME NEW s \in Services, GcVolume(s) PROVE ParkedIsUntouched
  BY <1>8 DEF GcVolume, OrphanVolumes
<1>9. ASSUME NEW t \in Services, ContainerStops(t) PROVE ParkedIsUntouched
  <2>1. nets' = nets /\ vols' = vols /\ \A s \in Services : s # t => ctrs'[s] = ctrs[s]
    BY <1>9 DEF ContainerStops
  <2>2. QED
    BY <1>9, <2>1, Zenon
<1>10. CASE EnsureExposure \/ EnsureProxy \/ CreateProxy \/ StartProxy \/ ProxyStops
            \/ \E s \in Services : ConnectProxy(s)
  <2>1. UNCHANGED <<nets, vols, ctrs>>
    BY <1>10 DEF EnsureExposure, EnsureProxy, CreateProxy, StartProxy, ConnectProxy,
                 ProxyFrame, ProxyStops
  <2>2. QED
    BY <2>1
<1>11. ASSUME UNCHANGED dockerVars PROVE ParkedIsUntouched
  BY <1>11 DEF dockerVars
<1>12. QED
  BY <1>1, <1>2, <1>3, <1>4, <1>5, <1>6, <1>7, <1>8, <1>9, <1>10, <1>11, DockerQuiet
  DEF Next, Pipeline, Environment

(* Over a host that matches, each of EXECUTE's writes repeats what is      *)
(* there and none of its removals, nor of OBSERVE's, has an object.        *)
LEMMA IdempotentStep == HostInv /\ [Next]_vars => [MatchStaysUntouched]_vars
<1> SUFFICES ASSUME HostInv, Next, stage \in {Execute, Observe}, MatchesCtx,
                    budget' = budget
             PROVE  UNCHANGED dockerVars
  BY DEF MatchStaysUntouched
<1> USE ReconcileAssumption
<1> USE DEF HostInv, TypeOK, DockerTypeOK, CtxTypeOK, ApprovalIInv, HostIInv, Busy,
            Cleared, MatchesCtx, dockerVars, Planned, Execute, Observe
<1>1. ASSUME stage = Execute, step \in Busy
       PROVE  /\ ctrs[cur] # None /\ ctrs[cur].config = ConfigOf(ctxDocs[cur])
              /\ [ctrs EXCEPT ![cur].state = "running"] = ctrs
  <2>1. /\ cur \in Services
        /\ ctrs[cur] = [config |-> ConfigOf(ctxDocs[cur]), state |-> "running"]
    BY <1>1
  <2>2. ctrs[cur] # None
    BY <1>1, <2>1 DEF Configs, States, ConfigOf, Docs
  <2>3. QED
    BY <2>1, <2>2
<1>2. proxy = [config |-> Planned, state |-> "running", nets |-> Planned] /\ proxy # None
  BY DEF States
<1>3. [proxy EXCEPT !.state = "running"] = proxy
  BY <1>2
<1>4. ASSUME NEW s \in Services, EnsureNetwork(s) PROVE UNCHANGED dockerVars
  BY <1>4 DEF EnsureNetwork, ExecuteFrame
<1>5. CASE EnsureVolume
  BY <1>5 DEF EnsureVolume, ExecuteFrame
<1>6. CASE EnsureContainer
  <2>1. ctrs[cur] # None /\ ctrs[cur].config = ConfigOf(ctxDocs[cur])
    BY <1>6, <1>1 DEF EnsureContainer
  <2>2. ctrs' = [ctrs EXCEPT ![cur].state = "running"]
    BY <1>6, <2>1 DEF EnsureContainer
  <2>3. QED
    BY <1>6, <1>1, <2>2 DEF EnsureContainer, ExecuteFrame
<1>7. CASE CreateContainer
  BY <1>7, <1>1 DEF CreateContainer
<1>8. CASE StartContainer
  BY <1>8, <1>1 DEF StartContainer, ExecuteFrame
<1>9. ASSUME NEW s \in Services, GcContainer(s) PROVE UNCHANGED dockerVars
  BY <1>9 DEF GcContainer, OrphanContainers
<1>10. ASSUME NEW s \in Services, GcNetwork(s) PROVE UNCHANGED dockerVars
  BY <1>10 DEF GcNetwork, OrphanNetworks
<1>11. ASSUME NEW s \in Services, GcVolume(s) PROVE UNCHANGED dockerVars
  BY <1>11 DEF GcVolume, OrphanVolumes
<1>12. CASE EnsureExposure
  BY <1>12 DEF EnsureExposure, ProxyFrame
<1>13. CASE EnsureProxy
  <2>1. proxy # None /\ proxy.config = Planned
    BY <1>2
  <2>2. proxy' = [proxy EXCEPT !.state = "running"]
    BY <1>13, <2>1 DEF EnsureProxy
  <2>3. QED
    BY <1>13, <2>2, <1>3 DEF EnsureProxy, ProxyFrame
<1>14. CASE CreateProxy
  BY <1>14, <1>2 DEF CreateProxy
<1>15. CASE StartProxy
  BY <1>15, <1>3 DEF StartProxy, ProxyFrame
<1>16. ASSUME NEW s \in Services, ConnectProxy(s) PROVE UNCHANGED dockerVars
  <2>1. s \in proxy.nets /\ proxy.nets \cup {s} = proxy.nets
    BY <1>16, <1>2 DEF ConnectProxy
  <2>2. /\ proxy' = [proxy EXCEPT !.nets = @ \cup {s}]
        /\ UNCHANGED <<nets, exposure, vols, ctrs>>
    BY <1>16, <2>1, Zenon DEF ConnectProxy, ProxyFrame
  <2>3. [proxy EXCEPT !.nets = proxy.nets] = proxy
    BY <1>2
  <2>4. QED
    BY <2>1, <2>2, <2>3
<1>17. CASE ProxyStops \/ \E s \in Services : ContainerStops(s)
  <2>1. budget.faults \in Nat
    BY DEF HistoryTypeOK
  <2>2. budget' = [budget EXCEPT !.faults = @ - 1]
    BY <1>17 DEF ProxyStops, ContainerStops, Spend
  <2>3. budget'.faults = budget.faults - 1
    BY <2>2 DEF HistoryTypeOK
  <2>4. QED
    BY <2>1, <2>3
<1>18. QED
  BY <1>4, <1>5, <1>6, <1>7, <1>8, <1>9, <1>10, <1>11, <1>12, <1>13, <1>14, <1>15,
     <1>16, <1>17, DockerQuiet
  DEF Next, Pipeline, Environment

(* Types hold throughout, and OBSERVE's removal of a network is never      *)
(* refused by Docker, however documents, approvals, faults and restarts    *)
(* interleave with the run.                                                *)
THEOREM NetworksCollectable == SafetySpec => [](TypeOK /\ NetworkGcUnblocked)
<1>1. HostInv => TypeOK
  BY DEF HostInv
<1>2. QED
  BY <1>1, HostInit, HostInductive, UnblockedStep, PTL DEF SafetySpec

(* With reliable listings, the invariant of the runs holds for any         *)
(* services, projections, documents and bounds.                            *)
THEOREM PipelineInvariant ==
    ASSUME MaxListFaults = 0
    PROVE  SafetySpec => []Inv
<1>1. Init => HostInv /\ AbsenceIInv /\ NetworkGcUnblocked
  BY HostInit, AbsenceInit
<1>2. /\ HostInv /\ AbsenceIInv /\ NetworkGcUnblocked /\ [Next]_vars
      => (HostInv /\ AbsenceIInv /\ NetworkGcUnblocked)'
  BY HostInductive, HostCore, AbsenceStep, UnblockedStep DEF AbsenceInv
<1>3. HostInv /\ AbsenceIInv /\ NetworkGcUnblocked => Inv
  BY DEF HostInv, Inv
<1>4. QED
  BY <1>1, <1>2, <1>3, PTL DEF SafetySpec

(* A parked service keeps its network, volume and container as they are,   *)
(* in every run and whatever happens while it is in flight.                *)
THEOREM ParkedStaysUntouched == SafetySpec => ParkedUntouched
BY HostInit, HostInductive, ParkedStep, PTL DEF SafetySpec, ParkedUntouched

(* A run over a host that already matches changes no Docker object.        *)
THEOREM RunsAreIdempotent == SafetySpec => IdempotentRun
BY HostInit, HostInductive, IdempotentStep, PTL DEF SafetySpec, IdempotentRun

-----------------------------------------------------------------------------
(* The engine with its triggers counted.                                   *)

(* Every variable of the counted engine keeps its type.                    *)
THEOREM TriggersTypeCorrect == TriggersSafety => []TriggersTypeOK
<1> DEFINE Flags == /\ running \in BOOLEAN
                    /\ pendingRerun \in BOOLEAN
                    /\ degraded \in BOOLEAN
                    /\ booted \in BOOLEAN
           Counts == /\ stage \in 0 .. NStages + 1
                     /\ phase \in Phases
                     /\ requested \in 0..MaxTriggers
                     /\ seen \in Nat
                     /\ answered \in Nat
                     /\ runs \in Nat
                     /\ restarts \in 0..MaxBoots
<1>1. TriggersTypeOK <=> Flags /\ Counts
  BY DEF TriggersTypeOK, EngineTypeOK
<1>2. TriggersInit => TriggersTypeOK
  <2> SUFFICES ASSUME TriggersInit PROVE Flags /\ Counts
    BY <1>1
  <2>1. Flags
    BY Zenon DEF TriggersInit, EngineInit
  <2>2. Counts
    BY EngineAssumption, TriggersAssumption DEF TriggersInit, EngineInit, Phases
  <2>3. QED
    BY <2>1, <2>2
<1>3. TriggersTypeOK /\ [TriggersNext]_triggerVars => TriggersTypeOK'
  <2> SUFFICES ASSUME Flags, Counts, [TriggersNext]_triggerVars PROVE Flags' /\ Counts'
    BY DEF TriggersTypeOK, EngineTypeOK
  <2> USE EngineAssumption, TriggersAssumption
  <2>1. ASSUME NEW source \in Sources, CountTrigger(source) PROVE Flags' /\ Counts'
    <3>1. Flags'
      BY <2>1, Zenon DEF CountTrigger, Trigger, TriggerCoalesced, TriggerStarts, BeginRun
    <3>2. Counts'
      BY <2>1 DEF CountTrigger, Trigger, TriggerCoalesced, TriggerStarts, BeginRun
    <3>3. QED
      BY <3>1, <3>2
  <2>2. ASSUME NEW flag \in BOOLEAN, CountStageOk(flag) PROVE Flags' /\ Counts'
    <3>1. Flags'
      BY <2>2, Zenon DEF CountStageOk, StageOk
    <3>2. Counts'
      BY <2>2 DEF CountStageOk, StageOk, Phases
    <3>3. QED
      BY <3>1, <3>2
  <2>3. CASE CountStageFail
    BY <2>3 DEF CountStageFail, StageFail, Finished, Phases
  <2>4. CASE CountLoopAgain
    <3>1. Flags'
      BY <2>4, Zenon DEF CountLoopAgain, LoopAgain, BeginRun
    <3>2. Counts'
      BY <2>4 DEF CountLoopAgain, LoopAgain, BeginRun
    <3>3. QED
      BY <3>1, <3>2
  <2>5. CASE CountLoopEnds
    <3>1. Flags'
      BY <2>5, Zenon DEF CountLoopEnds, LoopEnds
    <3>2. Counts'
      BY <2>5 DEF CountLoopEnds, LoopEnds, historyVars
    <3>3. QED
      BY <3>1, <3>2
  <2>6. CASE CountRestart
    <3>1. Flags'
      BY <2>6, Zenon DEF CountRestart, Restart, BeginRun
    <3>2. Counts'
      BY <2>6 DEF CountRestart, Restart, BeginRun, Phases
    <3>3. QED
      BY <3>1, <3>2
  <2>7. CASE UNCHANGED triggerVars
    BY <2>7 DEF triggerVars
  <2>8. QED
    BY <2>1, <2>2, <2>3, <2>4, <2>5, <2>6, <2>7 DEF TriggersNext, StageReturns
<1>4. QED
  BY <1>2, <1>3, PTL DEF TriggersSafety

(* The inductive invariant: the flag is up exactly when a trigger is newer *)
(* than the run in flight, and each run begun saw at least one new trigger.*)
THEOREM TriggersAccounted == TriggersSafety => []TriggerIInv
<1>1. TriggersInit => TriggerIInv
  BY EngineAssumption DEF TriggersInit, EngineInit, TriggerIInv
<1>2. TriggersTypeOK /\ TriggerIInv /\ [TriggersNext]_triggerVars => TriggerIInv'
  <2> SUFFICES ASSUME TriggersTypeOK, TriggerIInv, [TriggersNext]_triggerVars PROVE TriggerIInv'
    OBVIOUS
  <2> USE EngineAssumption, TriggersAssumption
      DEF TriggersTypeOK, EngineTypeOK, TriggerIInv, Finished
  <2>1. ASSUME NEW source \in Sources, CountTrigger(source) PROVE TriggerIInv'
    BY <2>1 DEF CountTrigger, Trigger, TriggerCoalesced, TriggerStarts, BeginRun
  <2>2. ASSUME NEW flag \in BOOLEAN, CountStageOk(flag) PROVE TriggerIInv'
    BY <2>2 DEF CountStageOk, StageOk
  <2>3. CASE CountStageFail
    BY <2>3 DEF CountStageFail, StageFail
  <2>4. CASE CountLoopAgain
    BY <2>4 DEF CountLoopAgain, LoopAgain, BeginRun
  <2>5. CASE CountLoopEnds
    BY <2>5 DEF CountLoopEnds, LoopEnds, historyVars
  <2>6. CASE CountRestart
    BY <2>6 DEF CountRestart, Restart, BeginRun
  <2>7. CASE UNCHANGED triggerVars
    BY <2>7 DEF triggerVars
  <2>8. QED
    BY <2>1, <2>2, <2>3, <2>4, <2>5, <2>6, <2>7 DEF TriggersNext, StageReturns
<1>3. QED
  BY <1>1, <1>2, TriggersTypeCorrect, PTL DEF TriggersSafety

(* No trigger is ever lost: one the current run has not seen keeps the     *)
(* loop running and due for another round.                                 *)
THEOREM NoTriggerLost == TriggersSafety => []NoLostTrigger
<1>1. TriggerIInv => NoLostTrigger
  BY DEF TriggerIInv, NoLostTrigger
<1>2. QED
  BY <1>1, TriggersAccounted, PTL

(* Triggers coalesce: runs begun, plus the one that is due, never          *)
(* outnumber the triggers.                                                 *)
THEOREM TriggersCoalesce == TriggersSafety => []Coalesced
<1>1. TriggersTypeOK /\ TriggerIInv => Coalesced
  BY DEF TriggersTypeOK, EngineTypeOK, TriggerIInv, Coalesced
<1>2. QED
  BY <1>1, TriggersTypeCorrect, TriggersAccounted, PTL

(* The engine implements the safety part of the level-triggered            *)
(* abstraction: runs never overlap, and one takes in everything requested  *)
(* before it began.                                                        *)
THEOREM RefinesLevelTrigger == TriggersSafety => LevelSafety
<1>1. TriggersInit => Level!LevelInit
  BY EngineAssumption DEF TriggersInit, EngineInit, Level!LevelInit
<1>2. TriggersTypeOK /\ TriggerIInv /\ [TriggersNext]_triggerVars => [Level!LevelNext]_(Level!levelVars)
  <2> SUFFICES ASSUME TriggersTypeOK, TriggerIInv, [TriggersNext]_triggerVars
               PROVE  [Level!LevelNext]_(Level!levelVars)
    OBVIOUS
  <2> USE EngineAssumption, TriggersAssumption
      DEF TriggersTypeOK, EngineTypeOK, TriggerIInv, Finished, Level!LevelNext, Level!levelVars
  <2>1. ASSUME NEW source \in Sources, CountTrigger(source)
        PROVE  Level!Request
    BY <2>1 DEF CountTrigger, Trigger, TriggerCoalesced, TriggerStarts, BeginRun,
                Level!Request
  <2>2. ASSUME NEW flag \in BOOLEAN, CountStageOk(flag), stage = NStages
        PROVE  Level!Complete
    BY <2>2 DEF CountStageOk, StageOk, Level!Complete
  <2>3. ASSUME NEW flag \in BOOLEAN, CountStageOk(flag), stage # NStages
        PROVE  UNCHANGED Level!levelVars
    BY <2>3 DEF CountStageOk, StageOk
  <2>4. CASE CountStageFail
    <3>1. Level!Complete
      BY <2>4 DEF CountStageFail, StageFail, Level!Complete
    <3>2. QED
      BY <3>1
  <2>5. CASE CountLoopAgain
    <3>1. Level!Begin
      BY <2>5 DEF CountLoopAgain, LoopAgain, BeginRun, Level!Begin
    <3>2. QED
      BY <3>1
  <2>6. CASE CountLoopEnds
    BY <2>6 DEF CountLoopEnds, LoopEnds, historyVars
  <2>7. CASE CountRestart
    <3>1. Level!Abandon
      BY <2>7 DEF CountRestart, Restart, BeginRun, Level!Abandon
    <3>2. QED
      BY <3>1
  <2>8. CASE UNCHANGED triggerVars
    BY <2>8 DEF triggerVars
  <2>9. QED
    BY <2>1, <2>2, <2>3, <2>4, <2>5, <2>6, <2>7, <2>8 DEF TriggersNext, StageReturns
<1>3. QED
  BY <1>1, <1>2, TriggersTypeCorrect, TriggersAccounted, PTL
  DEF TriggersSafety, LevelSafety, Level!LevelSafety
=============================================================================
