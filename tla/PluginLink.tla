----------------------------- MODULE PluginLink -----------------------------
(***************************************************************************)
(* The orchestrator's link to the pluginhost: one Unix socket connection   *)
(* that the pluginhost dials and dials again, JSON-RPC calls in both       *)
(* directions over it, and one child process per `invoke`.                 *)
(*                                                                         *)
(*   orchestrator  plugin-socket.ts, main.ts (the connection's holder),    *)
(*                 trust/invoke-plugin.ts, host-api/dispatcher.ts          *)
(*   pluginhost    main.ts (dial), supervisor.ts, child-runner.ts          *)
(*   both          jsonrpc.ts: `pending` calls, `closed`                   *)
(*                                                                         *)
(* Both processes may die and are started again (restart: unless-stopped). *)
(* An action is what one event's callback does.  A connection is lost only *)
(* by the death of one of its ends; the other end sees "end" and then, in  *)
(* a later turn of its event loop, "close".  Data already sent may still   *)
(* be read before "end", or be dropped.                                    *)
(***************************************************************************)
EXTENDS Naturals

CONSTANTS Jobs,          \* the invocations, one invocationId each
          MaxConns,      \* connections dialled
          MaxAsks,       \* host calls the children make
          MaxHostStops,  \* deaths of the pluginhost
          MaxOrchStops,  \* deaths of the orchestrator
          None

\* Every connection after the first is due to a death of one of its ends.
ASSUME BoundsAssumption ==
  /\ MaxAsks \in Nat /\ MaxHostStops \in Nat /\ MaxOrchStops \in Nat
  /\ MaxConns \in Nat /\ MaxConns >= 1 + MaxHostStops + MaxOrchStops

ASSUME NoneAssumption == None \notin Jobs /\ None \notin Nat

Conns == 1..MaxConns

VARIABLES
  orch,        \* the orchestrator: "down", "up" (its plugin socket listens)
  host,        \* the pluginhost: "down", "dialling", "connected"
  orchEnd,     \* orchEnd[c]: the orchestrator's end of connection c
  hostEnd,     \* hostEnd[c]: the pluginhost's end
  holder,      \* pluginConnectionHolder.connection
  connection,  \* `connection` of the pluginhost's main.ts
  overtaken,   \* history: connections accepted before an older one's "close"
  call,        \* call[j]: the orchestrator's `invoke` of j, and its connection
  job,         \* job[j]: runInvocation of j in the pluginhost
  child,       \* child[j]: its child process
  ask,         \* ask[j]: the child's host call, its connection, and the
               \* invocation the orchestrator makes on its behalf
  budget

linkVars == <<orch, host, orchEnd, hostEnd, holder, connection, overtaken>>
vars == <<orch, host, orchEnd, hostEnd, holder, connection, overtaken, call, job, child, ask, budget>>

\* A child's host call: none, on its way, waiting for a nested invocation, replied.
HostCalls ==
  [st : {"none", "sent", "waiting", "replied"}, conn : Conns \cup {None}, nested : Jobs \cup {None}]

Settled == {"ok", "failed"}

TypeOK ==
  /\ orch \in {"down", "up"}
  /\ host \in {"down", "dialling", "connected"}
  /\ orchEnd \in [Conns -> {"none", "backlog", "open", "ended", "closed"}]
  /\ hostEnd \in [Conns -> {"none", "open", "ended", "closed"}]
  /\ holder \in Conns \cup {None}
  /\ connection \in Conns \cup {None}
  /\ overtaken \in SUBSET Conns
  /\ call \in [Jobs -> [st : {"idle", "sent", "ok", "failed", "refused", "gone"}, conn : Conns \cup {None}]]
  /\ job \in [Jobs -> {"none", "hashing", "running", "lost"} \cup Settled]
  /\ child \in [Jobs -> {"none", "alive", "killed", "gone"}]
  /\ ask \in [Jobs -> HostCalls]
  /\ budget \in [asks : 0..MaxAsks, hostStops : 0..MaxHostStops, orchStops : 0..MaxOrchStops]

Idle == [st |-> "idle", conn |-> None]
Silent == [st |-> "none", conn |-> None, nested |-> None]

Init ==
  /\ orch = "up"
  /\ host = "dialling"
  /\ orchEnd = [c \in Conns |-> "none"]
  /\ hostEnd = [c \in Conns |-> "none"]
  /\ holder = None
  /\ connection = None
  /\ overtaken = {}
  /\ call = [j \in Jobs |-> Idle]
  /\ job = [j \in Jobs |-> "none"]
  /\ child = [j \in Jobs |-> "none"]
  /\ ask = [j \in Jobs |-> Silent]
  /\ budget = [asks |-> MaxAsks, hostStops |-> MaxHostStops, orchStops |-> MaxOrchStops]

(***************************************************************************)
(* The connection.                                                         *)
(***************************************************************************)

\* dial() and its "connect" event.  The kernel completes it while the
\* orchestrator listens, before the orchestrator accepts; refused attempts only
\* arm the timer again.
Dial ==
  /\ host = "dialling" /\ orch = "up"
  /\ \E c \in Conns :
       /\ hostEnd[c] = "none"
       /\ \A d \in Conns : d < c => hostEnd[d] # "none"
       /\ hostEnd' = [hostEnd EXCEPT ![c] = "open"]
       /\ orchEnd' = [orchEnd EXCEPT ![c] = "backlog"]
       /\ connection' = c
  /\ host' = "connected"
  /\ UNCHANGED <<orch, holder, overtaken, call, job, child, ask, budget>>

\* Wrong on purpose: the connection is not kept.
AcceptForgets(c) ==
  /\ orchEnd[c] = "backlog"
  /\ \A d \in Conns : d < c => orchEnd[d] # "backlog"
  /\ orchEnd' = [orchEnd EXCEPT ![c] = "open"]
  /\ overtaken' = IF \E d \in Conns : orchEnd[d] \in {"open", "ended"}
                  THEN overtaken \cup {c} ELSE overtaken
  /\ UNCHANGED <<orch, host, hostEnd, holder, connection, call, job, child, ask, budget>>

\* The server's callback, oldest connection first: registerMethods puts the new
\* connection in the holder, whatever is there.
Accept(c) ==
  /\ orchEnd[c] = "backlog"
  /\ \A d \in Conns : d < c => orchEnd[d] # "backlog"
  /\ orchEnd' = [orchEnd EXCEPT ![c] = "open"]
  /\ holder' = c
  /\ overtaken' = IF \E d \in Conns : orchEnd[d] \in {"open", "ended"}
                  THEN overtaken \cup {c} ELSE overtaken
  /\ UNCHANGED <<orch, host, hostEnd, connection, call, job, child, ask, budget>>

\* handleClose of the orchestrator's JsonRpcConnection: every pending call is
\* rejected.
OrchEnds(c) ==
  /\ orchEnd[c] = "open" /\ hostEnd[c] = "closed"
  /\ orchEnd' = [orchEnd EXCEPT ![c] = "ended"]
  /\ call' = [j \in Jobs |-> IF call[j].st = "sent" /\ call[j].conn = c
                             THEN [call[j] EXCEPT !.st = "failed"] ELSE call[j]]
  /\ UNCHANGED <<orch, host, hostEnd, holder, connection, overtaken, job, child, ask, budget>>

\* The socket's "close": onDisconnect empties the holder, whichever connection
\* it holds.
OrchCloses(c) ==
  /\ orchEnd[c] = "ended"
  /\ orchEnd' = [orchEnd EXCEPT ![c] = "closed"]
  /\ holder' = None
  /\ UNCHANGED <<orch, host, hostEnd, connection, overtaken, call, job, child, ask, budget>>

\* handleClose of the pluginhost's JsonRpcConnection: the children's calls that
\* are pending on it fail.
HostEnds(c) ==
  /\ hostEnd[c] = "open" /\ orchEnd[c] = "closed"
  /\ hostEnd' = [hostEnd EXCEPT ![c] = "ended"]
  /\ ask' = [j \in Jobs |-> IF ask[j].conn = c THEN Silent ELSE ask[j]]
  /\ UNCHANGED <<orch, host, orchEnd, holder, connection, overtaken, call, job, child, budget>>

\* Wrong on purpose: the connection is not dialled again.
HostClosesForGood(c) ==
  /\ hostEnd[c] = "ended"
  /\ hostEnd' = [hostEnd EXCEPT ![c] = "closed"]
  /\ connection' = None
  /\ UNCHANGED <<orch, host, orchEnd, holder, overtaken, call, job, child, ask, budget>>

\* The pluginhost socket's "close": setTimeout(dial, 1000).
HostCloses(c) ==
  /\ hostEnd[c] = "ended"
  /\ hostEnd' = [hostEnd EXCEPT ![c] = "closed"]
  /\ connection' = None
  /\ host' = "dialling"
  /\ UNCHANGED <<orch, orchEnd, holder, overtaken, call, job, child, ask, budget>>

\* The pluginhost dies, by a signal or with its container, and its children
\* with it.
HostStops ==
  /\ host # "down" /\ budget.hostStops > 0
  /\ host' = "down"
  /\ connection' = None
  /\ hostEnd' = [c \in Conns |-> IF hostEnd[c] \in {"open", "ended"} THEN "closed" ELSE hostEnd[c]]
  /\ job' = [j \in Jobs |-> IF job[j] \in {"hashing", "running"} THEN "lost" ELSE job[j]]
  /\ child' = [j \in Jobs |-> IF child[j] = "none" THEN "none" ELSE "gone"]
  /\ budget' = [budget EXCEPT !.hostStops = @ - 1]
  /\ UNCHANGED <<orch, orchEnd, holder, overtaken, call, ask>>

HostStarts ==
  /\ host = "down"
  /\ host' = "dialling"
  /\ UNCHANGED <<orch, orchEnd, hostEnd, holder, connection, overtaken, call, job, child, ask, budget>>

\* The orchestrator dies; the pluginhost and its children live on.
OrchStops ==
  /\ orch = "up" /\ budget.orchStops > 0
  /\ orch' = "down"
  /\ holder' = None
  /\ orchEnd' = [c \in Conns |-> IF orchEnd[c] = "none" THEN "none" ELSE "closed"]
  /\ call' = [j \in Jobs |-> IF call[j].st = "sent" THEN [call[j] EXCEPT !.st = "gone"] ELSE call[j]]
  /\ budget' = [budget EXCEPT !.orchStops = @ - 1]
  /\ UNCHANGED <<host, hostEnd, connection, overtaken, job, child, ask>>

\* The plugin socket is opened again, after the boot run.
OrchListens ==
  /\ orch = "down"
  /\ orch' = "up"
  /\ UNCHANGED <<host, orchEnd, hostEnd, holder, connection, overtaken, call, job, child, ask, budget>>

(***************************************************************************)
(* An invocation.                                                          *)
(***************************************************************************)

\* Wrong on purpose: `closed` is not looked at.
OutgoingUnchecked ==
  IF holder # None
  THEN [st |-> "sent", conn |-> holder]
  ELSE [st |-> "refused", conn |-> None]

\* JsonRpcConnection.call over the holder's connection: without one, or once
\* it is closed, the call is refused; otherwise it is pending.
Outgoing ==
  IF holder # None /\ orchEnd[holder] = "open"
  THEN [st |-> "sent", conn |-> holder]
  ELSE [st |-> "refused", conn |-> None]

\* invokeTrustedPlugin, from the reconciler or from the admin socket.
Invoke(j) ==
  /\ orch = "up" /\ call[j].st = "idle"
  /\ call' = [call EXCEPT ![j] = Outgoing]
  /\ UNCHANGED <<orch, host, orchEnd, hostEnd, holder, connection, overtaken, job, child, ask, budget>>

\* The pluginhost's `invoke` handler starts runInvocation: the bundle is hashed.
JobArrives(j) ==
  /\ call[j].conn # None /\ hostEnd[call[j].conn] = "open"
  /\ job[j] = "none"
  /\ job' = [job EXCEPT ![j] = "hashing"]
  /\ UNCHANGED <<linkVars, call, child, ask, budget>>

\* The hash matches and the child is spawned, its task sent, its timer armed.
Spawn(j) ==
  /\ job[j] = "hashing"
  /\ job' = [job EXCEPT ![j] = "running"]
  /\ child' = [child EXCEPT ![j] = "alive"]
  /\ UNCHANGED <<linkVars, call, ask, budget>>

\* HashMismatchError, or the bundle is gone, or spawn's "error" event.
SpawnRefused(j) ==
  /\ job[j] = "hashing"
  /\ job' = [job EXCEPT ![j] = "failed"]
  /\ UNCHANGED <<linkVars, call, child, ask, budget>>

\* The first event to come settles the invocation: its result ...
Result(j) ==
  /\ job[j] = "running" /\ child[j] = "alive"
  /\ job' = [job EXCEPT ![j] = "ok"]
  /\ child' = [child EXCEPT ![j] = "killed"]
  /\ UNCHANGED <<linkVars, call, ask, budget>>

\* ... an error reply, or its output ending or not being NDJSON ...
ChildFails(j) ==
  /\ job[j] = "running" /\ child[j] = "alive"
  /\ job' = [job EXCEPT ![j] = "failed"]
  /\ child' = [child EXCEPT ![j] = "killed"]
  /\ UNCHANGED <<linkVars, call, ask, budget>>

\* ... the child's "exit", which may overtake a result it wrote before ...
ChildExits(j) ==
  /\ job[j] = "running" /\ child[j] = "alive"
  /\ job' = [job EXCEPT ![j] = "failed"]
  /\ child' = [child EXCEPT ![j] = "gone"]
  /\ UNCHANGED <<linkVars, call, ask, budget>>

\* ... or the timer at wallMs, which kills it.
WallTimer(j) ==
  /\ job[j] = "running"
  /\ job' = [job EXCEPT ![j] = "failed"]
  /\ child' = [child EXCEPT ![j] = "killed"]
  /\ UNCHANGED <<linkVars, call, ask, budget>>

\* The signal takes effect.
ChildDies(j) ==
  /\ child[j] = "killed"
  /\ child' = [child EXCEPT ![j] = "gone"]
  /\ UNCHANGED <<linkVars, call, job, ask, budget>>

\* Wrong on purpose: any answer counts as a result.
AnswerBlind(j) ==
  /\ call[j].st = "sent" /\ orchEnd[call[j].conn] = "open"
  /\ job[j] \in Settled
  /\ call' = [call EXCEPT ![j].st = "ok"]
  /\ UNCHANGED <<linkVars, job, child, ask, budget>>

\* The response is read: handleMessage takes the call out of `pending`, and
\* invokeTrustedPlugin returns.
Answer(j) ==
  /\ call[j].st = "sent" /\ orchEnd[call[j].conn] = "open"
  /\ job[j] \in Settled
  /\ call' = [call EXCEPT ![j].st = job[j]]
  /\ UNCHANGED <<linkVars, job, child, ask, budget>>

(***************************************************************************)
(* A child's host call.                                                    *)
(***************************************************************************)

Running(j) == child[j] \in {"alive", "killed"}

\* hostApiHandler forwards over the pluginhost's connection of the moment, which
\* need not be the one the invocation came by; without one the child gets an
\* error.
HostCall(j) ==
  /\ Running(j) /\ ask[j] = Silent /\ budget.asks > 0
  /\ ask' = IF connection # None /\ hostEnd[connection] = "open"
            THEN [ask EXCEPT ![j] = [st |-> "sent", conn |-> connection, nested |-> None]]
            ELSE ask
  /\ budget' = [budget EXCEPT !.asks = @ - 1]
  /\ UNCHANGED <<linkVars, call, job, child>>

\* The dispatcher answers by itself ...
Dispatch(j) ==
  /\ ask[j].st = "sent" /\ orchEnd[ask[j].conn] = "open"
  /\ ask' = [ask EXCEPT ![j] = [@ EXCEPT !.st = "replied"]]
  /\ UNCHANGED <<linkVars, call, job, child, budget>>

\* ... or has the DNS provider invoked first (brokerDnsApply).
DispatchNested(j, k) ==
  /\ ask[j].st = "sent" /\ orchEnd[ask[j].conn] = "open"
  /\ call[k].st = "idle"
  /\ call' = [call EXCEPT ![k] = Outgoing]
  /\ ask' = [ask EXCEPT ![j] = [@ EXCEPT !.st = "waiting", !.nested = k]]
  /\ UNCHANGED <<linkVars, job, child, budget>>

NestedReturns(j) ==
  /\ ask[j].st = "waiting" /\ orchEnd[ask[j].conn] = "open"
  /\ call[ask[j].nested].st \in {"ok", "failed", "refused"}
  /\ ask' = [ask EXCEPT ![j] = [@ EXCEPT !.st = "replied"]]
  /\ UNCHANGED <<linkVars, call, job, child, budget>>

\* The pluginhost reads the answer and passes it to the child.
HostReply(j) ==
  /\ ask[j].st = "replied" /\ hostEnd[ask[j].conn] = "open"
  /\ ask' = [ask EXCEPT ![j] = Silent]
  /\ UNCHANGED <<linkVars, call, job, child, budget>>

-----------------------------------------------------------------------------

Link ==
  \/ Dial \/ HostStarts \/ OrchListens
  \/ \E c \in Conns : Accept(c) \/ OrchEnds(c) \/ OrchCloses(c) \/ HostEnds(c) \/ HostCloses(c)

\* What an invocation's own progress consists of.
Progress(j) ==
  \/ JobArrives(j) \/ Spawn(j) \/ SpawnRefused(j) \/ WallTimer(j) \/ ChildDies(j) \/ Answer(j)
  \/ Dispatch(j) \/ NestedReturns(j) \/ HostReply(j)

Next ==
  \/ Link \/ HostStops \/ OrchStops
  \/ \E j \in Jobs :
       \/ Progress(j)
       \/ Invoke(j) \/ Result(j) \/ ChildFails(j) \/ ChildExits(j)
       \/ HostCall(j)
       \/ \E k \in Jobs \ {j} : DispatchNested(j, k)

\* Event loops run their callbacks, timers fire, signals kill, and Docker starts
\* a container again.  Nothing is assumed of the operator and of the plugins: a
\* child need never reply.
Fairness == WF_vars(Link) /\ \A j \in Jobs : WF_vars(Progress(j))

Spec == Init /\ [][Next]_vars /\ Fairness

-----------------------------------------------------------------------------

\* Nobody waits on a dead connection: a call the orchestrator has pending is
\* pending on a connection that is open at its end, and likewise for a host call
\* in the pluginhost (JsonRpcConnection.call refuses once `closed`, handleClose
\* rejects what is pending).
PendingIsOpen ==
  \A j \in Jobs :
    /\ call[j].st = "sent" => orchEnd[call[j].conn] = "open"
    /\ Running(j) /\ ask[j].st # "none" => hostEnd[ask[j].conn] = "open"

\* The holder is "for the (at most one) pluginhost's persistent connection"
\* (admin-socket.ts).  What it has was accepted and has not seen its "close"; and
\* a connection open at both ends is the one in the holder, unless it was
\* accepted before an older one's "close", which then empties it.
LiveIsHeld ==
  /\ holder # None => orchEnd[holder] \in {"open", "ended"}
  /\ \A c \in Conns \ overtaken : orchEnd[c] = "open" /\ hostEnd[c] = "open" => holder = c

\* The inductive invariant, part by part.  A call is pending on an open
\* connection, and has one only if it went out.
CallIInv ==
  \A j \in Jobs :
    /\ call[j].st = "sent" => call[j].conn # None /\ orchEnd[call[j].conn] = "open"
    /\ call[j].st \in {"idle", "refused"} => call[j].conn = None

\* Only a child that was spawned asks, and only over a connection that is open.
AskIInv ==
  \A j \in Jobs :
    /\ child[j] = "none" => ask[j].st = "none"
    /\ ask[j].st # "none" => ask[j].conn # None
    /\ Running(j) /\ ask[j].st # "none" => hostEnd[ask[j].conn] = "open"

\* A child is spawned by its invocation, and is signalled or gone when that is
\* settled.
ChildIInv ==
  \A j \in Jobs :
    /\ job[j] \in {"none", "hashing"} => child[j] = "none"
    /\ child[j] = "alive" <=> job[j] = "running"

\* Connections are dialled one after the other, and accepted in that order.
LinkIInv ==
  /\ \A c \in Conns : hostEnd[c] = "none" <=> orchEnd[c] = "none"
  /\ host # "connected" => \A c \in Conns : hostEnd[c] \in {"none", "closed"}
  /\ \A c, d \in Conns : c < d /\ hostEnd[d] # "none" => hostEnd[c] = "closed"
  /\ \A c, d \in Conns :
       c < d /\ orchEnd[d] \in {"open", "ended"} =>
         orchEnd[c] # "backlog" /\ (orchEnd[c] \in {"open", "ended"} => d \in overtaken)

\* PendingIsOpen and LiveIsHeld need the parts above to be inductive: that children
\* only ask once spawned, and that "close" events cannot pass each other unseen.
IInv == CallIInv /\ AskIInv /\ ChildIInv /\ LinkIInv /\ LiveIsHeld

\* No child stays: the wall-clock limit, a result, an error or the death of the
\* pluginhost ends each one, though it never replies.
ChildrenEnd == \A j \in Jobs : child[j] = "alive" ~> child[j] = "gone"

Linked == holder # None /\ orchEnd[holder] = "open" /\ hostEnd[holder] = "open"

\* After the last death of either process the orchestrator gets a connection it
\* can use, unless the "close" of an older one came after it.
LinkRestored == <>[](Linked \/ connection \in overtaken)

\* Both sides recover from every death and every plugin that hangs: its children
\* end, and the link comes back.
Recovers == ChildrenEnd /\ LinkRestored

\* The abstract state: a caller that died counts as one whose call failed.
Caller == [j \in Jobs |-> CASE call[j].st = "sent" -> "waiting"
                           [] call[j].st = "gone" -> "failed"
                           [] OTHER -> call[j].st]

Work == [j \in Jobs |-> CASE job[j] = "none" -> "none"
                         [] job[j] \in {"hashing", "running"} -> "doing"
                         [] job[j] = "ok" -> "done"
                         [] OTHER -> "broken"]

Remote == INSTANCE RemoteCall WITH caller <- Caller, work <- Work

\* An invocation is a remote call: a call refused never runs, one that returns well
\* ran its child to its result, none runs twice, and each one ends.
RemoteSpec == Remote!Spec

=============================================================================
