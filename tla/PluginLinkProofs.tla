-------------------------- MODULE PluginLinkProofs --------------------------
(***************************************************************************)
(* For any number of invocations, connections, host calls and deaths of    *)
(* either process: nobody waits on a dead connection, the holder has the   *)
(* live one unless it was overtaken, and invocations are remote calls.     *)
(***************************************************************************)
EXTENDS PluginLink, TLAPS

LEMMA InitHolds == Init => TypeOK /\ IInv
  BY BoundsAssumption, NoneAssumption
  DEF Init, TypeOK, IInv, CallIInv, AskIInv, ChildIInv, LinkIInv, LiveIsHeld, Running, Idle, Silent, Conns, Settled, HostCalls

LEMMA BudgetStep ==
  ASSUME TypeOK
  PROVE  /\ budget.asks > 0 => [budget EXCEPT !.asks = @ - 1] \in [asks : 0..MaxAsks, hostStops : 0..MaxHostStops, orchStops : 0..MaxOrchStops]
         /\ budget.hostStops > 0 => [budget EXCEPT !.hostStops = @ - 1] \in [asks : 0..MaxAsks, hostStops : 0..MaxHostStops, orchStops : 0..MaxOrchStops]
         /\ budget.orchStops > 0 => [budget EXCEPT !.orchStops = @ - 1] \in [asks : 0..MaxAsks, hostStops : 0..MaxHostStops, orchStops : 0..MaxOrchStops]
  BY BoundsAssumption DEF TypeOK

\* What a host call becomes when it is answered or waits.
LEMMA AskStep ==
  ASSUME TypeOK, NEW j \in Jobs
  PROVE  /\ [ask[j] EXCEPT !.st = "replied"] \in HostCalls
         /\ \A k \in Jobs : [ask[j] EXCEPT !.st = "waiting", !.nested = k] \in HostCalls
         /\ Silent \in HostCalls
<1> ask[j] \in HostCalls
  BY DEF TypeOK
<1>1. [ask[j] EXCEPT !.st = "replied"] \in HostCalls
  BY DEF HostCalls
<1>2. ASSUME NEW k \in Jobs PROVE [ask[j] EXCEPT !.st = "waiting", !.nested = k] \in HostCalls
  BY DEF HostCalls
<1>3. Silent \in HostCalls
  BY DEF HostCalls, Silent
<1> QED
  BY <1>1, <1>2, <1>3

\* The type invariant is inductive.
LEMMA TypeStep == TypeOK /\ [Next]_vars => TypeOK'
<1> SUFFICES ASSUME TypeOK, [Next]_vars PROVE TypeOK'
  OBVIOUS
<1> USE NoneAssumption
<1>1. CASE Dial
  BY <1>1 DEF Dial, TypeOK
<1>2. ASSUME NEW c \in Conns, Accept(c) \/ OrchEnds(c) \/ OrchCloses(c) \/ HostEnds(c) \/ HostCloses(c)
      PROVE TypeOK'
  <2>1. CASE Accept(c)
    BY <2>1 DEF Accept, TypeOK
  <2>2. CASE OrchEnds(c)
    BY <2>2 DEF OrchEnds, TypeOK
  <2>3. CASE OrchCloses(c)
    BY <2>3 DEF OrchCloses, TypeOK
  <2>4. CASE HostEnds(c)
    BY <2>4 DEF HostEnds, TypeOK, HostCalls, Silent
  <2>5. CASE HostCloses(c)
    BY <2>5 DEF HostCloses, TypeOK
  <2> QED
    BY <1>2, <2>1, <2>2, <2>3, <2>4, <2>5
<1>3. CASE HostStarts \/ OrchListens
  BY <1>3 DEF HostStarts, OrchListens, TypeOK
<1>4. CASE HostStops
  BY <1>4, BudgetStep DEF HostStops, TypeOK
<1>5. CASE OrchStops
  BY <1>5, BudgetStep DEF OrchStops, TypeOK
<1>6. ASSUME NEW j \in Jobs, JobArrives(j) \/ Spawn(j) \/ SpawnRefused(j) \/ WallTimer(j) \/ ChildDies(j)
             \/ Result(j) \/ ChildFails(j) \/ ChildExits(j)
      PROVE TypeOK'
  BY <1>6 DEF JobArrives, Spawn, SpawnRefused, WallTimer, ChildDies, Result, ChildFails, ChildExits,
              TypeOK, linkVars, Settled
<1>7. ASSUME NEW j \in Jobs, Answer(j) PROVE TypeOK'
  BY <1>7 DEF Answer, TypeOK, linkVars, Settled
<1>8. ASSUME NEW j \in Jobs, Dispatch(j) \/ NestedReturns(j) \/ HostReply(j) PROVE TypeOK'
  <2>1. PICK r \in HostCalls : ask' = [ask EXCEPT ![j] = r]
    BY <1>8, AskStep DEF Dispatch, NestedReturns, HostReply
  <2>2. UNCHANGED <<linkVars, call, job, child, budget>>
    BY <1>8 DEF Dispatch, NestedReturns, HostReply
  <2> QED
    BY <2>1, <2>2 DEF TypeOK, linkVars
<1>9. ASSUME NEW j \in Jobs, Invoke(j) PROVE TypeOK'
  BY <1>9 DEF Invoke, Outgoing, TypeOK
<1>10. ASSUME NEW j \in Jobs, HostCall(j) PROVE TypeOK'
  BY <1>10, BudgetStep DEF HostCall, TypeOK, HostCalls, linkVars
<1>11. ASSUME NEW j \in Jobs, NEW k \in Jobs \ {j}, DispatchNested(j, k) PROVE TypeOK'
  <2>1. PICK r \in HostCalls : ask' = [ask EXCEPT ![j] = r]
    BY <1>11, AskStep DEF DispatchNested
  <2> QED
    BY <1>11, <2>1 DEF DispatchNested, Outgoing, TypeOK, linkVars
<1>12. CASE UNCHANGED vars
  BY <1>12 DEF vars, TypeOK
<1> QED
  BY <1>1, <1>2, <1>3, <1>4, <1>5, <1>6, <1>7, <1>8, <1>9, <1>10, <1>11, <1>12 DEF Next, Link, Progress

\* The steps that leave the calls and the orchestrator's ends alone.
ElsewhereCall ==
  \/ HostStarts \/ OrchListens \/ HostStops
  \/ \E c \in Conns : HostEnds(c) \/ HostCloses(c)
  \/ \E j \in Jobs : JobArrives(j) \/ Spawn(j) \/ SpawnRefused(j) \/ WallTimer(j) \/ ChildDies(j)
                   \/ Dispatch(j) \/ NestedReturns(j) \/ HostReply(j)
                   \/ Result(j) \/ ChildFails(j) \/ ChildExits(j) \/ HostCall(j)

\* Pending calls: only OrchEnds and OrchStops take an open connection away, and
\* both take its calls out of `pending`.
LEMMA CallStep == TypeOK /\ LinkIInv /\ CallIInv /\ [Next]_vars => CallIInv'
<1> SUFFICES ASSUME TypeOK, LinkIInv, CallIInv, [Next]_vars PROVE CallIInv'
  OBVIOUS
<1> USE NoneAssumption
<1>1. CASE Dial
  <2>1. PICK c \in Conns : orchEnd[c] = "none" /\ orchEnd' = [orchEnd EXCEPT ![c] = "backlog"] /\ call' = call
    BY <1>1 DEF Dial, LinkIInv
  <2> QED
    BY <2>1 DEF TypeOK, CallIInv
<1>2. ASSUME NEW c \in Conns, Accept(c) PROVE CallIInv'
  BY <1>2 DEF Accept, TypeOK, CallIInv
<1>3. ASSUME NEW c \in Conns, OrchEnds(c) PROVE CallIInv'
  BY <1>3 DEF OrchEnds, TypeOK, CallIInv
<1>4. ASSUME NEW c \in Conns, OrchCloses(c) PROVE CallIInv'
  BY <1>4 DEF OrchCloses, TypeOK, CallIInv
<1>5. CASE OrchStops
  BY <1>5 DEF OrchStops, TypeOK, CallIInv
<1>6. ASSUME NEW j \in Jobs, call[j].st = "idle", call' = [call EXCEPT ![j] = Outgoing], orchEnd' = orchEnd
      PROVE CallIInv'
  BY <1>6 DEF Outgoing, TypeOK, CallIInv
<1>7. ASSUME NEW j \in Jobs, Answer(j) PROVE CallIInv'
  BY <1>7 DEF Answer, Settled, linkVars, TypeOK, CallIInv
<1>8. ASSUME UNCHANGED <<call, orchEnd>> PROVE CallIInv'
  BY <1>8 DEF CallIInv
<1>9. CASE ElsewhereCall
  BY <1>8, <1>9 DEF ElsewhereCall, HostStarts, OrchListens, HostStops, HostEnds, HostCloses, JobArrives, Spawn,
     SpawnRefused, WallTimer, ChildDies, Dispatch, NestedReturns, HostReply, Result, ChildFails, ChildExits,
     HostCall, linkVars
<1>10. CASE UNCHANGED vars
  BY <1>8, <1>10 DEF vars
<1>11. ASSUME NEW j \in Jobs, Invoke(j) PROVE CallIInv'
  BY <1>6, <1>11 DEF Invoke
<1>12. ASSUME NEW j \in Jobs, NEW k \in Jobs \ {j}, DispatchNested(j, k) PROVE CallIInv'
  BY <1>6, <1>12 DEF DispatchNested, linkVars
<1> QED
  BY <1>1, <1>2, <1>3, <1>4, <1>5, <1>7, <1>9, <1>10, <1>11, <1>12 DEF Next, Link, Progress, ElsewhereCall

\* Children: spawned by a running invocation, signalled or gone when it is settled.
LEMMA ChildStep == TypeOK /\ ChildIInv /\ [Next]_vars => ChildIInv'
<1> SUFFICES ASSUME TypeOK, ChildIInv, [Next]_vars PROVE ChildIInv'
  OBVIOUS
<1>1. CASE HostStops
  BY <1>1 DEF HostStops, TypeOK, ChildIInv
<1>2. ASSUME NEW j \in Jobs, JobArrives(j) \/ Spawn(j) \/ SpawnRefused(j) \/ WallTimer(j) \/ ChildDies(j)
             \/ Result(j) \/ ChildFails(j) \/ ChildExits(j)
      PROVE ChildIInv'
  BY <1>2 DEF JobArrives, Spawn, SpawnRefused, WallTimer, ChildDies, Result, ChildFails, ChildExits, TypeOK, ChildIInv
<1>3. ASSUME UNCHANGED <<job, child>> PROVE ChildIInv'
  BY <1>3 DEF ChildIInv
<1>4. CASE Link \/ OrchStops \/ UNCHANGED vars
  BY <1>3, <1>4 DEF Link, Dial, HostStarts, OrchListens, Accept, OrchEnds, OrchCloses, HostEnds, HostCloses,
     OrchStops, vars
<1>5. ASSUME NEW j \in Jobs, Answer(j) \/ Dispatch(j) \/ NestedReturns(j) \/ HostReply(j) \/ Invoke(j) \/ HostCall(j)
             \/ \E k \in Jobs \ {j} : DispatchNested(j, k)
      PROVE ChildIInv'
  BY <1>3, <1>5 DEF Answer, Dispatch, NestedReturns, HostReply, Invoke, HostCall, DispatchNested
<1> QED
  BY <1>1, <1>2, <1>4, <1>5 DEF Next, Progress

\* Host calls: only HostEnds and HostStops take an open connection away; the first
\* fails the calls on it, the second ends the children.
LEMMA HostCallStep == TypeOK /\ ChildIInv /\ AskIInv /\ [Next]_vars => AskIInv'
<1> SUFFICES ASSUME TypeOK, ChildIInv, AskIInv, [Next]_vars PROVE AskIInv'
  OBVIOUS
<1> USE NoneAssumption
<1>1. CASE Dial
  <2>1. PICK c \in Conns : hostEnd[c] = "none" /\ hostEnd' = [hostEnd EXCEPT ![c] = "open"] /\ ask' = ask /\ child' = child
    BY <1>1 DEF Dial
  <2> QED
    BY <2>1 DEF TypeOK, HostCalls, AskIInv, Running
<1>2. ASSUME NEW c \in Conns, HostEnds(c) PROVE AskIInv'
  BY <1>2 DEF HostEnds, Silent, TypeOK, HostCalls, AskIInv, Running
<1>3. ASSUME NEW c \in Conns, HostCloses(c) PROVE AskIInv'
  BY <1>3 DEF HostCloses, TypeOK, HostCalls, AskIInv, Running
<1>4. CASE HostStops
  BY <1>4 DEF HostStops, TypeOK, HostCalls, AskIInv, Running
<1>5. ASSUME NEW j \in Jobs, Spawn(j) \/ WallTimer(j) \/ ChildDies(j) \/ Result(j) \/ ChildFails(j) \/ ChildExits(j)
      PROVE AskIInv'
  <2> /\ job[j] \in {"none", "hashing"} => child[j] = "none"
      /\ job[j] = "running" => child[j] = "alive"
    BY DEF ChildIInv
  <2>1. UNCHANGED <<ask, hostEnd>>
    BY <1>5 DEF Spawn, WallTimer, ChildDies, Result, ChildFails, ChildExits, linkVars
  <2>2. /\ \A i \in Jobs \ {j} : child'[i] = child[i]
        /\ child'[j] # "none"
        /\ child'[j] \in {"alive", "killed"} => child[j] \in {"alive", "killed"} \/ ask[j].st = "none"
    BY <1>5 DEF Spawn, WallTimer, ChildDies, Result, ChildFails, ChildExits, TypeOK, AskIInv
  <2> QED
    BY <2>1, <2>2 DEF AskIInv, Running
<1>6. ASSUME NEW j \in Jobs, Dispatch(j) \/ NestedReturns(j) \/ \E k \in Jobs \ {j} : DispatchNested(j, k)
      PROVE AskIInv'
  <2>1. PICK r : ask' = [ask EXCEPT ![j] = r] /\ ask[j].st # "none" /\ r.conn = ask[j].conn
    <3>1. ask[j] \in HostCalls
      BY DEF TypeOK
    <3>2. [ask[j] EXCEPT !.st = "replied"].conn = ask[j].conn
      BY <3>1 DEF HostCalls
    <3>3. \A k \in Jobs : [ask[j] EXCEPT !.st = "waiting", !.nested = k].conn = ask[j].conn
      BY <3>1 DEF HostCalls
    <3> QED
      BY <1>6, <3>2, <3>3 DEF Dispatch, NestedReturns, DispatchNested
  <2>2. UNCHANGED <<child, hostEnd>>
    BY <1>6 DEF Dispatch, NestedReturns, DispatchNested, linkVars
  <2> QED
    BY <2>1, <2>2 DEF TypeOK, AskIInv, Running
<1>7. ASSUME NEW j \in Jobs, HostReply(j) PROVE AskIInv'
  BY <1>7 DEF HostReply, linkVars, Silent, TypeOK, AskIInv, Running
<1>8. ASSUME NEW j \in Jobs, HostCall(j) PROVE AskIInv'
  BY <1>8 DEF HostCall, linkVars, TypeOK, AskIInv, Running
<1>9. ASSUME UNCHANGED <<child, ask, hostEnd>> PROVE AskIInv'
  BY <1>9 DEF AskIInv, Running
<1>10. CASE HostStarts \/ OrchListens \/ OrchStops \/ UNCHANGED vars
            \/ \E c \in Conns : Accept(c) \/ OrchEnds(c) \/ OrchCloses(c)
  BY <1>9, <1>10 DEF HostStarts, OrchListens, OrchStops, Accept, OrchEnds, OrchCloses, vars
<1>11. ASSUME NEW j \in Jobs, JobArrives(j) \/ SpawnRefused(j) \/ Answer(j) \/ Invoke(j) PROVE AskIInv'
  BY <1>9, <1>11 DEF JobArrives, SpawnRefused, Answer, Invoke, linkVars
<1> QED
  BY <1>1, <1>2, <1>3, <1>4, <1>5, <1>6, <1>7, <1>8, <1>10, <1>11 DEF Next, Link, Progress

\* Connections: the order in which they are dialled, accepted and closed, and what
\* the holder has.
LEMMA LinkStep == TypeOK /\ LinkIInv /\ LiveIsHeld /\ [Next]_vars => LinkIInv' /\ LiveIsHeld'
<1> SUFFICES ASSUME TypeOK, LinkIInv, LiveIsHeld, [Next]_vars PROVE LinkIInv' /\ LiveIsHeld'
  OBVIOUS
<1> USE NoneAssumption
<1> Conns \subseteq Nat
  BY DEF Conns
<1>1. CASE Dial
  <2>1. PICK c \in Conns :
          /\ hostEnd[c] = "none" /\ \A d \in Conns : d < c => hostEnd[d] # "none"
          /\ hostEnd' = [hostEnd EXCEPT ![c] = "open"]
          /\ orchEnd' = [orchEnd EXCEPT ![c] = "backlog"]
    BY <1>1 DEF Dial
  <2>2. \A d \in Conns : d < c => hostEnd[d] = "closed"
    BY <1>1, <2>1 DEF Dial, LinkIInv
  <2>3. \A d \in Conns : c < d => hostEnd[d] = "none" /\ orchEnd[d] = "none"
    BY <2>1 DEF LinkIInv
  <2>4. host' = "connected" /\ overtaken' = overtaken /\ holder' = holder /\ orchEnd[c] = "none"
    BY <1>1, <2>1 DEF Dial, LinkIInv
  <2>5. LinkIInv'
    BY <2>1, <2>2, <2>3, <2>4 DEF LinkIInv, TypeOK
  <2> QED
    BY <2>1, <2>4, <2>5 DEF LiveIsHeld, TypeOK
<1>2. ASSUME NEW c \in Conns, Accept(c) PROVE LinkIInv' /\ LiveIsHeld'
  <2>1. /\ orchEnd[c] = "backlog" /\ orchEnd' = [orchEnd EXCEPT ![c] = "open"] /\ holder' = c
        /\ UNCHANGED <<host, hostEnd>> /\ overtaken \subseteq overtaken'
        /\ (\E d \in Conns : orchEnd[d] \in {"open", "ended"}) => c \in overtaken'
        /\ \A d \in Conns : d < c => orchEnd[d] # "backlog"
    BY <1>2 DEF Accept
  <2>2. \A d \in Conns : c < d => orchEnd[d] \notin {"open", "ended"}
    BY <2>1 DEF LinkIInv
  <2>3. LinkIInv'
    BY <2>1, <2>2 DEF LinkIInv, TypeOK
  <2>4. ASSUME NEW d \in Conns, d # c, orchEnd'[d] = "open" PROVE hostEnd[d] # "open"
    <3>1. d < c
      BY <2>1, <2>2, <2>4 DEF TypeOK
    <3> QED
      BY <3>1, <2>1 DEF LinkIInv
  <2> QED
    BY <2>1, <2>3, <2>4 DEF LiveIsHeld, TypeOK
<1>3. ASSUME NEW c \in Conns, OrchEnds(c) PROVE LinkIInv' /\ LiveIsHeld'
  BY <1>3 DEF OrchEnds, LinkIInv, LiveIsHeld, TypeOK
<1>4. ASSUME NEW c \in Conns, OrchCloses(c) PROVE LinkIInv' /\ LiveIsHeld'
  <2>1. /\ orchEnd[c] = "ended" /\ orchEnd' = [orchEnd EXCEPT ![c] = "closed"] /\ holder' = None
        /\ UNCHANGED <<host, hostEnd, overtaken>>
    BY <1>4 DEF OrchCloses
  <2>2. LinkIInv'
    BY <2>1 DEF LinkIInv, TypeOK
  <2>3. ASSUME NEW d \in Conns \ overtaken, orchEnd[d] = "open", hostEnd[d] = "open" PROVE FALSE
    <3>1. CASE d < c
      BY <3>1, <2>1, <2>3 DEF LinkIInv
    <3>2. CASE c < d
      BY <3>2, <2>1, <2>3 DEF LinkIInv
    <3> QED
      BY <3>1, <3>2, <2>1, <2>3
  <2> QED
    BY <2>1, <2>2, <2>3 DEF LiveIsHeld, TypeOK
<1>5. ASSUME NEW c \in Conns, HostEnds(c) PROVE LinkIInv' /\ LiveIsHeld'
  <2>1. /\ hostEnd[c] = "open" /\ orchEnd[c] = "closed" /\ hostEnd' = [hostEnd EXCEPT ![c] = "ended"]
        /\ UNCHANGED <<host, orchEnd, holder, overtaken>>
    BY <1>5 DEF HostEnds
  <2>2. LinkIInv'
    BY <2>1 DEF LinkIInv, TypeOK
  <2> QED
    BY <2>1, <2>2 DEF LiveIsHeld, TypeOK
<1>6. ASSUME NEW c \in Conns, HostCloses(c) PROVE LinkIInv' /\ LiveIsHeld'
  <2>1. /\ hostEnd[c] = "ended" /\ hostEnd' = [hostEnd EXCEPT ![c] = "closed"] /\ host' = "dialling"
        /\ UNCHANGED <<orchEnd, holder, overtaken>>
    BY <1>6 DEF HostCloses
  <2>2. \A d \in Conns : d # c => hostEnd[d] \in {"none", "closed"}
    <3> SUFFICES ASSUME NEW d \in Conns, d # c PROVE hostEnd[d] \in {"none", "closed"}
      OBVIOUS
    <3>1. CASE d < c
      BY <3>1, <2>1 DEF LinkIInv
    <3>2. CASE c < d
      BY <3>2, <2>1 DEF LinkIInv, TypeOK
    <3> QED
      BY <3>1, <3>2
  <2>3. LinkIInv'
    BY <2>1, <2>2 DEF LinkIInv, TypeOK
  <2> QED
    BY <2>1, <2>3 DEF LiveIsHeld, TypeOK
<1>7. CASE HostStops
  BY <1>7 DEF HostStops, LinkIInv, LiveIsHeld, TypeOK
<1>8. CASE OrchStops
  BY <1>8 DEF OrchStops, LinkIInv, LiveIsHeld, TypeOK
<1>9. CASE HostStarts
  BY <1>9 DEF HostStarts, LinkIInv, LiveIsHeld
<1>10. ASSUME UNCHANGED <<host, orchEnd, hostEnd, holder, overtaken>> PROVE LinkIInv' /\ LiveIsHeld'
  BY <1>10 DEF LinkIInv, LiveIsHeld
<1>11. CASE OrchListens \/ UNCHANGED vars
  BY <1>10, <1>11 DEF OrchListens, vars
<1>12. ASSUME NEW j \in Jobs, Progress(j) \/ Invoke(j) \/ Result(j) \/ ChildFails(j) \/ ChildExits(j) \/ HostCall(j)
              \/ \E k \in Jobs \ {j} : DispatchNested(j, k)
       PROVE LinkIInv' /\ LiveIsHeld'
  BY <1>10, <1>12 DEF Progress, JobArrives, Spawn, SpawnRefused, WallTimer, ChildDies, Answer, Dispatch, NestedReturns,
     HostReply, Invoke, Result, ChildFails, ChildExits, HostCall, DispatchNested, linkVars
<1> QED
  BY <1>1, <1>2, <1>3, <1>4, <1>5, <1>6, <1>7, <1>8, <1>9, <1>11, <1>12 DEF Next, Link

\* The inductive invariant holds throughout.
LEMMA Invariance == Spec => [](TypeOK /\ IInv)
<1>1. TypeOK /\ IInv /\ [Next]_vars => TypeOK' /\ IInv'
  BY TypeStep, CallStep, ChildStep, HostCallStep, LinkStep DEF IInv
<1> QED
  BY InitHolds, <1>1, PTL DEF Spec

\* Every variable of the link keeps its type.
THEOREM TypeCorrect == Spec => []TypeOK
  BY Invariance, PTL

\* Nobody waits on a dead connection, in either process (jsonrpc.ts: `closed`,
\* `pending`, handleClose).
THEOREM NoWaitOnDeadConnection == Spec => []PendingIsOpen
<1>1. IInv => PendingIsOpen
  BY DEF IInv, CallIInv, AskIInv, PendingIsOpen
<1> QED
  BY Invariance, <1>1, PTL

\* The holder has the connection that is open at both ends, unless an older one
\* closed after it was accepted (main.ts: the holder; plugin-socket.ts: "close").
THEOREM HolderTracksLink == Spec => []LiveIsHeld
<1>1. IInv => LiveIsHeld
  BY DEF IInv
<1> QED
  BY Invariance, <1>1, PTL

\* Every step of the link is a step of the remote call or leaves it alone.
LEMMA RemoteStep == TypeOK /\ CallIInv /\ [Next]_vars => [Remote!Next]_<<Caller, Work>>
<1> SUFFICES ASSUME TypeOK, CallIInv, [Next]_vars PROVE [Remote!Next]_<<Caller, Work>>
  OBVIOUS
<1> USE NoneAssumption
<1>1. ASSUME UNCHANGED call PROVE UNCHANGED Caller
  BY <1>1 DEF Caller
<1>2. ASSUME UNCHANGED job PROVE UNCHANGED Work
  BY <1>2 DEF Work
<1>3. CASE UNCHANGED <<call, job>>
  BY <1>1, <1>2, <1>3
<1>4. ASSUME NEW j \in Jobs, call[j].st = "idle", call' = [call EXCEPT ![j] = Outgoing], UNCHANGED job
      PROVE Remote!Next
  <2>1. Outgoing.st \in {"sent", "refused"}
    BY DEF Outgoing
  <2>2. Caller[j] = "idle"
    BY <1>4 DEF Caller
  <2>3. PICK st \in {"waiting", "refused"} : Caller' = [Caller EXCEPT ![j] = st]
    <3>1. CASE Outgoing.st = "sent"
      BY <1>4, <3>1 DEF Caller, TypeOK
    <3>2. CASE Outgoing.st = "refused"
      BY <1>4, <3>2 DEF Caller, TypeOK
    <3> QED
      BY <2>1, <3>1, <3>2
  <2> QED
    BY <1>2, <1>4, <2>2, <2>3 DEF Remote!Next, Remote!Call
<1>5. ASSUME NEW j \in Jobs, JobArrives(j) PROVE Remote!Next
  <2>1. call[j].st \notin {"idle", "refused"} /\ UNCHANGED call /\ job[j] = "none" /\ job' = [job EXCEPT ![j] = "hashing"]
    BY <1>5 DEF JobArrives, CallIInv
  <2>2. Caller[j] \notin {"idle", "refused"}
    BY <2>1 DEF Caller, TypeOK
  <2>3. Work[j] = "none" /\ Work' = [Work EXCEPT ![j] = "doing"]
    BY <2>1 DEF Work, TypeOK
  <2> QED
    BY <1>1, <2>1, <2>2, <2>3 DEF Remote!Next, Remote!Start
<1>6. ASSUME NEW j \in Jobs, Spawn(j) PROVE UNCHANGED <<Caller, Work>>
  <2>1. Work' = Work
    BY <1>6 DEF Spawn, Work, TypeOK
  <2> QED
    BY <1>1, <1>6, <2>1 DEF Spawn
<1>7. ASSUME NEW j \in Jobs, Result(j) PROVE Remote!Next
  <2>1. UNCHANGED call /\ job[j] = "running" /\ job' = [job EXCEPT ![j] = "ok"]
    BY <1>7 DEF Result
  <2>2. Work[j] = "doing" /\ Work' = [Work EXCEPT ![j] = "done"]
    BY <2>1 DEF Work, TypeOK
  <2> QED
    BY <1>1, <2>1, <2>2 DEF Remote!Next, Remote!Finish
<1>8. ASSUME NEW S \in SUBSET Jobs, UNCHANGED call, \A j \in S : job[j] \in {"hashing", "running"},
             \A j \in S : job'[j] \in {"failed", "lost"}, \A j \in Jobs \ S : job'[j] = job[j]
      PROVE [Remote!Next]_<<Caller, Work>>
  <2>1. \A j \in S : Work[j] = "doing"
    BY <1>8 DEF Work
  <2>2. Work' = [j \in Jobs |-> IF j \in S THEN "broken" ELSE Work[j]]
    BY <1>8 DEF Work, TypeOK
  <2>3. CASE S = {}
    <3>1. Work' = Work
      BY <2>2, <2>3 DEF Work
    <3> QED
      BY <1>1, <1>8, <3>1
  <2>4. CASE S # {}
    BY <1>1, <1>8, <2>1, <2>2, <2>4 DEF Remote!Next, Remote!Break
  <2> QED
    BY <2>3, <2>4
<1>9. ASSUME NEW j \in Jobs, SpawnRefused(j) \/ WallTimer(j) \/ ChildFails(j) \/ ChildExits(j)
      PROVE [Remote!Next]_<<Caller, Work>>
  <2>1. UNCHANGED call /\ job[j] \in {"hashing", "running"} /\ job' = [job EXCEPT ![j] = "failed"]
    BY <1>9 DEF SpawnRefused, WallTimer, ChildFails, ChildExits
  <2>2. /\ {j} \in SUBSET Jobs
        /\ \A i \in {j} : job[i] \in {"hashing", "running"} /\ job'[i] \in {"failed", "lost"}
        /\ \A i \in Jobs \ {j} : job'[i] = job[i]
    BY <2>1 DEF TypeOK
  <2> QED
    BY <1>8, <2>1, <2>2
<1>10. CASE HostStops
  <2> DEFINE S == {j \in Jobs : job[j] \in {"hashing", "running"}}
  <2>1. /\ UNCHANGED call
        /\ \A j \in S : job[j] \in {"hashing", "running"} /\ job'[j] \in {"failed", "lost"}
        /\ \A j \in Jobs \ S : job'[j] = job[j]
    BY <1>10 DEF HostStops
  <2> HIDE DEF S
  <2>2. S \in SUBSET Jobs
    BY DEF S
  <2> QED
    BY <1>8, <2>1, <2>2
<1>11. ASSUME NEW S \in SUBSET Jobs, UNCHANGED job, \A j \in S : call[j].st = "sent",
              \A j \in S : call'[j].st \in {"failed", "gone"}, \A j \in Jobs \ S : call'[j] = call[j]
       PROVE [Remote!Next]_<<Caller, Work>>
  <2>1. \A j \in S : Caller[j] = "waiting"
    BY <1>11 DEF Caller
  <2>2. Caller' = [j \in Jobs |-> IF j \in S THEN "failed" ELSE Caller[j]]
    BY <1>11 DEF Caller
  <2>3. CASE S = {}
    <3>1. Caller' = Caller
      BY <2>2, <2>3 DEF Caller
    <3> QED
      BY <1>2, <1>11, <3>1
  <2>4. CASE S # {}
    BY <1>2, <1>11, <2>1, <2>2, <2>4 DEF Remote!Next, Remote!Fail
  <2> QED
    BY <2>3, <2>4
<1>12. ASSUME NEW c \in Conns, OrchEnds(c) PROVE [Remote!Next]_<<Caller, Work>>
  <2> DEFINE S == {j \in Jobs : call[j].st = "sent" /\ call[j].conn = c}
  <2>1. /\ UNCHANGED job
        /\ \A j \in S : call[j].st = "sent" /\ call'[j].st \in {"failed", "gone"}
        /\ \A j \in Jobs \ S : call'[j] = call[j]
    BY <1>12 DEF OrchEnds, TypeOK
  <2> HIDE DEF S
  <2>2. S \in SUBSET Jobs
    BY DEF S
  <2> QED
    BY <1>11, <2>1, <2>2
<1>13. CASE OrchStops
  <2> DEFINE S == {j \in Jobs : call[j].st = "sent"}
  <2>1. /\ UNCHANGED job
        /\ \A j \in S : call[j].st = "sent" /\ call'[j].st \in {"failed", "gone"}
        /\ \A j \in Jobs \ S : call'[j] = call[j]
    BY <1>13 DEF OrchStops, TypeOK
  <2> HIDE DEF S
  <2>2. S \in SUBSET Jobs
    BY DEF S
  <2> QED
    BY <1>11, <2>1, <2>2
<1>14. ASSUME NEW j \in Jobs, Answer(j) PROVE [Remote!Next]_<<Caller, Work>>
  <2>1. UNCHANGED job /\ call[j].st = "sent" /\ job[j] \in {"ok", "failed"} /\ call' = [call EXCEPT ![j].st = job[j]]
    BY <1>14 DEF Answer, Settled
  <2>2. CASE job[j] = "ok"
    <3>1. Work[j] = "done"
      BY <2>2 DEF Work
    <3>2. Caller[j] = "waiting" /\ Caller' = [Caller EXCEPT ![j] = "ok"]
      <4>1. call'[j].st = "ok" /\ \A i \in Jobs \ {j} : call'[i] = call[i]
        BY <2>1, <2>2 DEF TypeOK
      <4>2. Caller[j] = "waiting" /\ Caller'[j] = "ok"
        BY <2>1, <4>1 DEF Caller
      <4>3. \A i \in Jobs \ {j} : Caller'[i] = Caller[i]
        BY <4>1 DEF Caller
      <4>4. /\ DOMAIN Caller = Jobs /\ Caller = [i \in Jobs |-> Caller[i]]
            /\ Caller' = [i \in Jobs |-> Caller'[i]]
        BY DEF Caller
      <4> QED
        BY <4>2, <4>3, <4>4
    <3> QED
      BY <1>2, <2>1, <3>1, <3>2 DEF Remote!Next, Remote!Return
  <2>3. CASE job[j] = "failed"
    <3>1. call'[j].st = "failed" /\ \A i \in Jobs \ {j} : call'[i] = call[i]
      BY <2>1, <2>3 DEF TypeOK
    <3>2. {j} \in SUBSET Jobs /\ \A i \in {j} : call[i].st = "sent" /\ call'[i].st \in {"failed", "gone"}
      BY <2>1, <3>1
    <3> QED
      BY <1>11, <2>1, <3>1, <3>2
  <2> QED
    BY <2>1, <2>2, <2>3
<1>15. ASSUME NEW j \in Jobs, Invoke(j) PROVE Remote!Next
  BY <1>4, <1>15 DEF Invoke
<1>16. ASSUME NEW j \in Jobs, NEW k \in Jobs \ {j}, DispatchNested(j, k) PROVE Remote!Next
  BY <1>4, <1>16 DEF DispatchNested
<1>17. CASE \/ Dial \/ HostStarts \/ OrchListens \/ UNCHANGED vars
            \/ \E c \in Conns : Accept(c) \/ OrchCloses(c) \/ HostEnds(c) \/ HostCloses(c)
  BY <1>3, <1>17 DEF Dial, HostStarts, OrchListens, Accept, OrchCloses, HostEnds, HostCloses, vars
<1>18. ASSUME NEW j \in Jobs, ChildDies(j) \/ Dispatch(j) \/ NestedReturns(j) \/ HostReply(j) \/ HostCall(j)
       PROVE [Remote!Next]_<<Caller, Work>>
  BY <1>3, <1>18 DEF ChildDies, Dispatch, NestedReturns, HostReply, HostCall
<1> QED
  BY <1>5, <1>6, <1>7, <1>9, <1>10, <1>12, <1>13, <1>14, <1>15, <1>16, <1>17, <1>18 DEF Next, Link, Progress

\* An invocation is a remote call: what is refused never runs, what returns well
\* ran to its result, nothing runs twice (invoke-plugin.ts, child-runner.ts).
THEOREM RefinesRemoteCall == Spec => Remote!Safety
<1>1. Init => Remote!Init
  BY DEF Init, Idle, Caller, Work, Remote!Init
<1>2. TypeOK /\ IInv /\ [Next]_vars => [Remote!Next]_<<Caller, Work>>
  BY RemoteStep DEF IInv
<1> QED
  BY Invariance, <1>1, <1>2, PTL DEF Spec, Remote!Safety, Remote!vars

=============================================================================
