----------------------------- MODULE RemoteCall -----------------------------
(***************************************************************************)
(* What the orchestrator is promised when it invokes a plugin in another   *)
(* process: the work of a call is begun at most once and only if the call  *)
(* went out; a call that returns well did its work; every call that went   *)
(* out returns or fails.  A failed call may have done its work, may be     *)
(* doing it still, or may do it later: the caller cannot tell.             *)
(***************************************************************************)

CONSTANT Jobs

VARIABLES caller,  \* caller[j]: "idle", "waiting", "ok", "failed", or "refused": never went out
          work     \* work[j]: "none", "doing", "done", "broken"

vars == <<caller, work>>

TypeOK ==
  /\ caller \in [Jobs -> {"idle", "waiting", "ok", "failed", "refused"}]
  /\ work \in [Jobs -> {"none", "doing", "done", "broken"}]

Init ==
  /\ caller = [j \in Jobs |-> "idle"]
  /\ work = [j \in Jobs |-> "none"]

Call(j) ==
  /\ caller[j] = "idle"
  /\ \E st \in {"waiting", "refused"} : caller' = [caller EXCEPT ![j] = st]
  /\ UNCHANGED work

Start(j) ==
  /\ caller[j] \notin {"idle", "refused"}
  /\ work[j] = "none"
  /\ work' = [work EXCEPT ![j] = "doing"]
  /\ UNCHANGED caller

Finish(j) ==
  /\ work[j] = "doing"
  /\ work' = [work EXCEPT ![j] = "done"]
  /\ UNCHANGED caller

\* Work breaks off alone, or with all the rest when its process dies.
Break(S) ==
  /\ S # {}
  /\ \A j \in S : work[j] = "doing"
  /\ work' = [j \in Jobs |-> IF j \in S THEN "broken" ELSE work[j]]
  /\ UNCHANGED caller

Return(j) ==
  /\ caller[j] = "waiting"
  /\ work[j] = "done"
  /\ caller' = [caller EXCEPT ![j] = "ok"]
  /\ UNCHANGED work

\* Calls fail alone, or with all the rest when their connection is lost.
Fail(S) ==
  /\ S # {}
  /\ \A j \in S : caller[j] = "waiting"
  /\ caller' = [j \in Jobs |-> IF j \in S THEN "failed" ELSE caller[j]]
  /\ UNCHANGED work

Next ==
  \/ \E j \in Jobs : Call(j) \/ Start(j) \/ Finish(j) \/ Return(j)
  \/ \E S \in SUBSET Jobs : Break(S) \/ Fail(S)

\* Safety and liveness of the promise.
Safety == Init /\ [][Next]_vars

EveryCallEnds == \A j \in Jobs : caller[j] = "waiting" ~> caller[j] # "waiting"

EveryWorkEnds == \A j \in Jobs : work[j] = "doing" ~> work[j] # "doing"

Spec == Safety /\ EveryCallEnds /\ EveryWorkEnds

=============================================================================
