-------------------------------- MODULE Ipam --------------------------------
(***************************************************************************)
(* Addresses for dedicated-ip network providers: the allocation table of   *)
(* the state store, the CIDR arithmetic under it, the host API calls that  *)
(* use it and the reconcile run of network-macvlan that plans with the     *)
(* address and creates the proxy.                                          *)
(*                                                                         *)
(* An address is a number of Width bits.  A row of ipam_allocations that   *)
(* was released is treated by the code as a row that is not there, so the  *)
(* table is a function from addresses to their live holder.                *)
(***************************************************************************)
EXTENDS Integers, FiniteSetsExt

CONSTANTS Width,        \* bits of an address; 32 in the code
          Docs,         \* values of framework.spec.network.macvlan
          NoDoc,        \* a framework document without one
          Owners,       \* idempotency keys the callers use
          ProxyOwner,   \* the purpose PLAN asks an endpoint for
          Anon,         \* a caller that gives no owner
          Free,         \* no live row
          CallIds,      \* host calls in flight
          NoCall,
          NoNet,        \* the exposure network does not exist
          MaxCalls,     \* bound: calls of other providers
          MaxUpsets     \* bound: framework edits, trust changes, timeouts

ASSUME WidthAssumption == Width \in Nat \ {0}
\* What exponentiation is, for the provers.
ASSUME PowersOfTwo ==
    2^0 = 1 /\ \A n \in 1..Width : 2^n \in Nat /\ 2^n = 2 * 2^(n - 1)
ASSUME DocsAssumption ==
    \A d \in Docs : /\ d.addr \in 0..(2^Width - 1)
                    /\ d.len \in 0..Width
                    /\ d.gateway \in 0..(2^Width - 1)
ASSUME OwnersAssumption ==
    ProxyOwner \in Owners /\ Anon \notin Owners /\ Free \notin Owners /\ Anon # Free

VARIABLES doc,       \* framework.spec.network.macvlan as the operator left it
          range,     \* the row of ipam_ranges, or NoDoc
          holder,    \* live rows of ipam_allocations
          types,     \* "provider" or "denied": macvlan's trusted manifest
          call,      \* the host calls in flight
          run,       \* the reconcile run of network-macvlan
          net,       \* the exposure network's IPRange, or NoNet
          proxy,     \* the address Docker gave the proxy container, or Free
          told,      \* what each owner was last told and nobody released
          calls, changes

ipamVars == <<doc, range, holder, types, call, run, net, proxy, told, calls, changes>>

Addrs == 0..(2^Width - 1)
NoAddr == 2^Width

-----------------------------------------------------------------------------
(* cidr.ts: 32 bit arithmetic with JavaScript's shifts, whose count is     *)
(* taken modulo the width.                                                 *)

Shl(x, n) == (x * 2^(n % Width)) % 2^Width

\* Wrong on purpose: without the special case a /0 gets the mask of a /32.
MaskAlwaysShifted(len) == Shl(2^Width - 1, Width - len)

Mask(len) == IF len = 0 THEN 0 ELSE Shl(2^Width - 1, Width - len)

\* addr & mask, and networkInt | ~mask: the mask is a run of leading ones.
Network(d) == d.addr - (d.addr % (2^Width - Mask(d.len)))
Broadcast(d) == Network(d) + (2^Width - 1 - Mask(d.len))

HostsInCidr(d) ==
    IF d.len >= Width - 1 THEN {}
    ELSE (Network(d) + 1)..(Broadcast(d) - 1) \ {d.gateway}

-----------------------------------------------------------------------------

IdleRun == [pc |-> "idle", doc |-> NoDoc, call |-> NoCall, ip |-> NoAddr]

IpamInit ==
    /\ doc \in Docs \cup {NoDoc}
    /\ range = NoDoc
    /\ holder = [a \in Addrs |-> Free]
    /\ types = "provider"
    /\ call = [c \in CallIds |-> NoCall]
    /\ run = IdleRun
    /\ net = NoNet
    /\ proxy = NoAddr
    /\ told = [o \in Owners |-> NoAddr]
    /\ calls = 0 /\ changes = 0

\* The operator edits the framework document.
EditFramework(d) ==
    /\ changes < MaxUpsets /\ d # doc
    /\ doc' = d
    /\ changes' = changes + 1
    /\ UNCHANGED <<range, holder, types, call, run, net, proxy, told, calls>>

\* Another plugin version is trusted, or the plugin is untrusted.
ChangeTrust ==
    /\ changes < MaxUpsets
    /\ types' = IF types = "provider" THEN "denied" ELSE "provider"
    /\ changes' = changes + 1
    /\ UNCHANGED <<doc, range, holder, call, run, net, proxy, told, calls>>

SetIpamRange(d) == range' = d

\* The load stage keeps the range in step with the document it read, and
\* leaves it alone when the document has none.
SyncRange ==
    /\ run.pc = "idle"
    /\ IF doc = NoDoc THEN UNCHANGED range ELSE SetIpamRange(doc)
    /\ run' = [run EXCEPT !.pc = "plan", !.doc = doc]
    /\ UNCHANGED <<doc, holder, types, call, net, proxy, told, calls, changes>>

\* PLAN invokes network.plan, whose plugin asks for an address.  The
\* dispatcher looks the caller's trust record up, then awaits its manifest.
AskAddress(c) ==
    /\ run.pc = "plan" /\ call[c] = NoCall
    /\ call' = [call EXCEPT ![c] = [op |-> "allocate", owner |-> ProxyOwner, ip |-> NoAddr, as |-> types]]
    /\ run' = [run EXCEPT !.pc = "asked", !.call = c]
    /\ UNCHANGED <<doc, range, holder, types, net, proxy, told, calls, changes>>

\* The wall limit ends network.plan; the call it made is not taken back.
WallTimer ==
    /\ run.pc = "asked" /\ changes < MaxUpsets
    /\ run' = IdleRun
    /\ changes' = changes + 1
    /\ UNCHANGED <<doc, range, holder, types, call, net, proxy, told, calls>>

\* Another network provider allocates, with or without an owner, or
\* releases any address.
OtherCalls(c, op, o, a) ==
    /\ calls < MaxCalls /\ call[c] = NoCall
    /\ call' = [call EXCEPT ![c] = [op |-> op, owner |-> o, ip |-> a, as |-> types]]
    /\ calls' = calls + 1
    /\ UNCHANGED <<doc, range, holder, types, run, net, proxy, told, changes>>

\* What a call returns reaches the run, if the run still waits for it.
Deliver(c, ip) ==
    /\ call' = [call EXCEPT ![c] = NoCall]
    /\ run' = IF run.pc = "asked" /\ run.call = c
              THEN [run EXCEPT !.pc = "planned", !.ip = ip]
              ELSE run
    /\ UNCHANGED <<doc, range, types, net, proxy, calls, changes>>

Held(o) == {a \in Addrs : holder[a] = o}

\* Wrong on purpose: the caller's owner is not looked up.
FoundFresh(o) == {}

\* The live row of this owner, wherever its address lies by now.
Found(o) == IF o = Anon THEN {} ELSE Held(o)

FreeHosts == {a \in Addrs : a \in HostsInCidr(range) /\ holder[a] = Free}

\* allocateIp, one transaction.
AllocateAgain(c) ==
    /\ call[c] # NoCall /\ call[c].op = "allocate" /\ call[c].as = "provider"
    /\ range # NoDoc
    /\ \E a \in Found(call[c].owner) :
         /\ told' = [told EXCEPT ![call[c].owner] = a]
         /\ Deliver(c, a)
    /\ UNCHANGED holder

AllocateFirst(c) ==
    /\ call[c] # NoCall /\ call[c].op = "allocate" /\ call[c].as = "provider"
    /\ range # NoDoc
    /\ Found(call[c].owner) = {} /\ FreeHosts # {}
    /\ holder' = [holder EXCEPT ![Min(FreeHosts)] = call[c].owner]
    /\ told' = IF call[c].owner = Anon THEN told
               ELSE [told EXCEPT ![call[c].owner] = Min(FreeHosts)]
    /\ Deliver(c, Min(FreeHosts))

\* Denied, no range, or no address left: the call throws and so does the
\* plan that waits for it.
AllocateFails(c) ==
    /\ call[c] # NoCall /\ call[c].op = "allocate"
    /\ \/ call[c].as = "denied"
       \/ range = NoDoc
       \/ range # NoDoc /\ Found(call[c].owner) = {} /\ FreeHosts = {}
    /\ call' = [call EXCEPT ![c] = NoCall]
    /\ run' = IF run.pc = "asked" /\ run.call = c THEN IdleRun ELSE run
    /\ UNCHANGED <<doc, range, holder, types, net, proxy, told, calls, changes>>

\* releaseIp: nothing happens to an address that is not held.
Release(c) ==
    /\ call[c] # NoCall /\ call[c].op = "release" /\ call[c].as = "provider"
    /\ holder' = [holder EXCEPT ![call[c].ip] = Free]
    /\ told' = [o \in Owners |-> IF told[o] = call[c].ip THEN NoAddr ELSE told[o]]
    /\ Deliver(c, NoAddr)

ReleaseDenied(c) ==
    /\ call[c] # NoCall /\ call[c].op = "release" /\ call[c].as = "denied"
    /\ holder' = holder /\ told' = told
    /\ Deliver(c, NoAddr)

\* Docker's own address management: any address of the network's IPRange
\* but the gateway; the plan's attachment.ip is not passed to it.
DockerGives(d) ==
    IF d = NoDoc THEN Addrs
    ELSE {a \in Addrs : a \in Network(d)..Broadcast(d) /\ a # d.gateway}

\* EXECUTE: the network is created once, with the range of the plan that
\* needed it first; the proxy when it is missing or its spec changed.
Execute(again) ==
    /\ run.pc = "planned"
    /\ net' = IF net = NoNet THEN run.doc ELSE net
    /\ IF proxy = NoAddr \/ again
       THEN IF DockerGives(net') = {} THEN proxy' = NoAddr
            ELSE proxy' \in DockerGives(net')
       ELSE proxy' = proxy
    /\ run' = IdleRun
    /\ UNCHANGED <<doc, range, holder, types, call, told, calls, changes>>

IpamNext ==
    \/ \E d \in Docs \cup {NoDoc} : EditFramework(d)
    \/ ChangeTrust \/ SyncRange \/ WallTimer
    \/ \E again \in BOOLEAN : Execute(again)
    \/ \E c \in CallIds :
         \/ AskAddress(c)
         \/ \E o \in Owners \cup {Anon} : OtherCalls(c, "allocate", o, NoAddr)
         \/ \E a \in Addrs : OtherCalls(c, "release", Anon, a)
         \/ AllocateAgain(c) \/ AllocateFirst(c) \/ AllocateFails(c)
         \/ Release(c) \/ ReleaseDenied(c)

IpamSpec == IpamInit /\ [][IpamNext]_ipamVars

-----------------------------------------------------------------------------

Call == [op : {"allocate", "release"}, owner : Owners \cup {Anon},
         ip : Addrs \cup {NoAddr}, as : {"provider", "denied"}]
RunRecords == [pc : {"idle", "plan", "asked", "planned"}, doc : Docs \cup {NoDoc},
               call : CallIds \cup {NoCall}, ip : Addrs \cup {NoAddr}]

\* Types of the variables.
IpamTypeOK ==
    /\ doc \in Docs \cup {NoDoc}
    /\ range \in Docs \cup {NoDoc}
    /\ holder \in [Addrs -> Owners \cup {Anon, Free}]
    /\ types \in {"provider", "denied"}
    /\ call \in [CallIds -> Call \cup {NoCall}]
    /\ run \in RunRecords
    /\ net \in Docs \cup {NoDoc, NoNet}
    /\ proxy \in Addrs \cup {NoAddr}
    /\ told \in [Owners -> Addrs \cup {NoAddr}]
    /\ calls \in Nat /\ changes \in Nat

\* hostsInCidr against what a CIDR means: the addresses that share the first
\* len bits of its address, whose other bits are neither all zero nor all
\* one, and that are not the gateway.  The edges are a /0, whose shift
\* count is the width, and the prefixes too long to have a host.
HostsExact ==
    range # NoDoc =>
        LET h == Width - range.len
            Reference == {n \in Addrs : /\ n \div 2^h = range.addr \div 2^h
                                        /\ n % 2^h \notin {0, 2^h - 1}
                                        /\ n # range.gateway}
        IN  HostsInCidr(range) = Reference

\* However often a plan is made again, timed out and landed late, whatever
\* happened to the range in between, an owner holds one address: plans do
\* not drain the range.
OneAddressPerOwner ==
    \A a, b \in Addrs : (holder[a] = holder[b] /\ holder[a] \in Owners) => a = b

\* What an owner was told is his until somebody releases it: it is neither
\* given to a second owner nor replaced by another address.
ToldIsHeld == \A o \in Owners : told[o] # NoAddr => holder[told[o]] = o

\* The allocation table keeps its promises: one address per owner, and what an
\* owner was told is his.
Table == IpamTypeOK /\ OneAddressPerOwner /\ ToldIsHeld

\* The same for the plan a run is about to execute, as a step: nothing but
\* a release takes an address out of a holder's hands.
TakenOnlyByRelease ==
    [][\A a \in Addrs :
         (holder[a] # Free /\ holder'[a] # holder[a]) =>
            \E c \in CallIds : call[c] # NoCall /\ call'[c] = NoCall
                               /\ call[c].op = "release" /\ call[c].ip = a]_ipamVars
=============================================================================
