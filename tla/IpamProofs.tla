----------------------------- MODULE IpamProofs -----------------------------
(***************************************************************************)
(* An owner's address is his: proofs about the allocation table, for every *)
(* width, every CIDR and every number of callers.                          *)
(***************************************************************************)
EXTENDS Ipam, WellFoundedInduction, TLAPS

(* A non-empty set of naturals has a least element.                        *)
LEMMA LeastNatural ==
    ASSUME NEW T, T \subseteq Nat, T # {}
    PROVE  \E x \in T : \A y \in T : x <= y
<1> DEFINE R == OpToRel(<, Nat)
<1>1. IsWellFoundedOn(R, Nat)
  BY NatLessThanWellFounded
<1> HIDE DEF R
<1>2. PICK x \in T : \A y \in T : ~ (<<y, x>> \in R)
  BY <1>1, WFMin
<1>3. \A y \in T : ~ (y < x)
  BY <1>2 DEF R, OpToRel
<1>4. QED
  BY <1>3

(* Min picks that element.                                                 *)
LEMMA MinIsLeast ==
    ASSUME NEW T, T \subseteq Nat, T # {}
    PROVE  Min(T) \in T /\ \A y \in T : Min(T) <= y
<1>1. PICK x \in T : \A y \in T : x <= y
  BY LeastNatural
<1>2. QED
  BY <1>1 DEF Min


LEMMA AddrsAreNaturals == Addrs \subseteq Nat
BY DEF Addrs

\* The address allocateIp takes is an address and nobody holds it.
LEMMA CandidateIsFree ==
    ASSUME FreeHosts # {}
    PROVE  Min(FreeHosts) \in Addrs /\ holder[Min(FreeHosts)] = Free
<1>1. FreeHosts \subseteq Nat
    BY AddrsAreNaturals DEF FreeHosts
<1>2. Min(FreeHosts) \in FreeHosts
    BY <1>1, MinIsLeast
<1> QED BY <1>2 DEF FreeHosts

LEMMA InitTable == IpamInit => Table
<1> SUFFICES ASSUME IpamInit PROVE Table
    OBVIOUS
<1>1. IpamTypeOK
    BY DEF IpamInit, IpamTypeOK, IdleRun, RunRecords
<1>2. OneAddressPerOwner
    BY OwnersAssumption DEF IpamInit, OneAddressPerOwner
<1>3. ToldIsHeld
    BY DEF IpamInit, ToldIsHeld
<1> QED BY <1>1, <1>2, <1>3 DEF Table

\* Steps that leave the table and the promises alone.
LEMMA Untouched ==
    ASSUME Table, UNCHANGED <<holder, told>>, IpamTypeOK'
    PROVE  Table'
BY DEF Table, OneAddressPerOwner, ToldIsHeld

\* A call in flight is one of the two, from a caller the dispatcher typed.
LEMMA CallType ==
    ASSUME IpamTypeOK, NEW c \in CallIds, call[c] # NoCall
    PROVE  /\ call[c].op \in {"allocate", "release"}
           /\ call[c].owner \in Owners \cup {Anon}
           /\ call[c].ip \in Addrs \cup {NoAddr}
<1>1. call[c] \in Call
    BY DEF IpamTypeOK
<1> QED BY <1>1 DEF Call

LEMMA DeliverType ==
    ASSUME IpamTypeOK, NEW c \in CallIds, NEW ip \in Addrs \cup {NoAddr}, Deliver(c, ip)
    PROVE  /\ call' \in [CallIds -> Call \cup {NoCall}]
           /\ run' \in RunRecords
           /\ UNCHANGED <<doc, range, types, net, proxy, calls, changes>>
BY DEF IpamTypeOK, Deliver, RunRecords

LEMMA NextAllocateFirst ==
    ASSUME Table, NEW c \in CallIds, AllocateFirst(c)
    PROVE  Table'
<1> DEFINE a == Min(FreeHosts)
           o == call[c].owner
<1>1. a \in Addrs /\ holder[a] = Free
    BY CandidateIsFree DEF AllocateFirst
<1>2. o \in Owners \cup {Anon}
    BY CallType DEF Table, AllocateFirst
<1>3. /\ holder' = [holder EXCEPT ![a] = o]
      /\ told' = IF o = Anon THEN told ELSE [told EXCEPT ![o] = a]
      /\ Found(o) = {} /\ Deliver(c, a)
    BY DEF AllocateFirst
<1> HIDE DEF a, o
<1>4. IpamTypeOK'
    BY <1>1, <1>2, <1>3, DeliverType DEF IpamTypeOK, Table
<1>5. o \in Owners => \A b \in Addrs : holder[b] # o
    BY <1>3, OwnersAssumption DEF Found, Held
<1>6. \A b \in Addrs : holder'[b] = IF b = a THEN o ELSE holder[b]
    BY <1>3 DEF Table, IpamTypeOK
<1>7. OneAddressPerOwner'
    BY <1>1, <1>5, <1>6 DEF Table, OneAddressPerOwner
<1>8. ToldIsHeld'
  <2> SUFFICES ASSUME NEW p \in Owners, told'[p] # NoAddr
               PROVE  holder'[told'[p]] = p
      BY DEF ToldIsHeld
  <2>1. CASE p = o
      BY <2>1, <1>1, <1>3, <1>6, OwnersAssumption DEF Table, IpamTypeOK
  <2>2. CASE p # o
    <3>1. told'[p] = told[p] /\ told[p] \in Addrs /\ holder[told[p]] = p
        BY <2>2, <1>2, <1>3 DEF Table, IpamTypeOK, ToldIsHeld
    <3>2. told[p] # a
        BY <3>1, <1>1, OwnersAssumption
    <3> QED BY <3>1, <3>2, <1>6
  <2> QED BY <2>1, <2>2
<1> QED BY <1>4, <1>7, <1>8 DEF Table

LEMMA NextAllocateAgain ==
    ASSUME Table, NEW c \in CallIds, AllocateAgain(c)
    PROVE  Table'
<1> DEFINE o == call[c].owner
<1>1. PICK a \in Found(o) : told' = [told EXCEPT ![o] = a] /\ Deliver(c, a)
    BY DEF AllocateAgain
<1>2. o \in Owners \cup {Anon}
    BY CallType DEF Table, AllocateAgain
<1>3. holder' = holder
    BY DEF AllocateAgain
<1>4. a \in Addrs /\ holder[a] = o /\ o \in Owners
    BY <1>1, <1>2 DEF Found, Held
<1> HIDE DEF o
<1>5. IpamTypeOK'
    BY <1>1, <1>3, <1>4, DeliverType DEF IpamTypeOK, Table
<1>6. OneAddressPerOwner'
    BY <1>3 DEF Table, OneAddressPerOwner
<1>7. ToldIsHeld'
    BY <1>1, <1>3, <1>4 DEF Table, IpamTypeOK, ToldIsHeld
<1> QED BY <1>5, <1>6, <1>7 DEF Table

LEMMA NextRelease ==
    ASSUME Table, NEW c \in CallIds, Release(c)
    PROVE  Table'
<1> DEFINE a == call[c].ip
<1>1. a \in Addrs \cup {NoAddr}
    BY CallType DEF Table, Release
<1>2. /\ holder' = [holder EXCEPT ![a] = Free]
      /\ told' = [o \in Owners |-> IF told[o] = a THEN NoAddr ELSE told[o]]
      /\ Deliver(c, NoAddr)
    BY DEF Release
<1> HIDE DEF a
<1>3. IpamTypeOK'
    BY <1>2, DeliverType DEF IpamTypeOK, Table
<1>4. \A b \in Addrs : holder'[b] = IF b = a THEN Free ELSE holder[b]
    BY <1>2 DEF Table, IpamTypeOK
<1>5. OneAddressPerOwner'
    BY <1>4, OwnersAssumption DEF Table, OneAddressPerOwner
<1>6. ToldIsHeld'
    BY <1>2, <1>4 DEF Table, IpamTypeOK, ToldIsHeld
<1> QED BY <1>3, <1>5, <1>6 DEF Table

LEMMA NextTable == Table /\ [IpamNext]_ipamVars => Table'
<1> SUFFICES ASSUME Table, [IpamNext]_ipamVars PROVE Table'
    OBVIOUS
<1> USE DEF Table
<1>1. CASE \E c \in CallIds : AllocateFirst(c)
    BY <1>1, NextAllocateFirst
<1>2. CASE \E c \in CallIds : AllocateAgain(c)
    BY <1>2, NextAllocateAgain
<1>3. CASE \E c \in CallIds : Release(c)
    BY <1>3, NextRelease
<1>4. ASSUME NEW c \in CallIds, AllocateFails(c) PROVE Table'
  <2>1. IpamTypeOK'
      BY <1>4 DEF AllocateFails, IpamTypeOK, IdleRun, RunRecords
  <2> QED BY <2>1, <1>4, Untouched DEF AllocateFails
<1>5. ASSUME NEW c \in CallIds, ReleaseDenied(c) PROVE Table'
  <2>1. IpamTypeOK'
      BY <1>5, DeliverType DEF ReleaseDenied, IpamTypeOK
  <2> QED BY <2>1, <1>5, Untouched DEF ReleaseDenied
<1>6. ASSUME NEW c \in CallIds, AskAddress(c) PROVE Table'
  <2>1. [op |-> "allocate", owner |-> ProxyOwner, ip |-> NoAddr, as |-> types] \in Call
      BY OwnersAssumption DEF Call, IpamTypeOK
  <2>2. call' \in [CallIds -> Call \cup {NoCall}]
      BY <1>6, <2>1 DEF AskAddress, IpamTypeOK
  <2>3. run' \in RunRecords
      BY <1>6 DEF AskAddress, IpamTypeOK, RunRecords
  <2>4. IpamTypeOK'
      BY <1>6, <2>2, <2>3 DEF AskAddress, IpamTypeOK
  <2> QED BY <2>4, <1>6, Untouched DEF AskAddress
<1>7. ASSUME NEW c \in CallIds, NEW op \in {"allocate", "release"},
             NEW o \in Owners \cup {Anon}, NEW a \in Addrs \cup {NoAddr},
             OtherCalls(c, op, o, a)
      PROVE  Table'
  <2>1. [op |-> op, owner |-> o, ip |-> a, as |-> types] \in Call
      BY DEF Call, IpamTypeOK
  <2>2. call' \in [CallIds -> Call \cup {NoCall}]
      BY <1>7, <2>1 DEF OtherCalls, IpamTypeOK
  <2>3. IpamTypeOK'
      BY <1>7, <2>2 DEF OtherCalls, IpamTypeOK
  <2> QED BY <2>3, <1>7, Untouched DEF OtherCalls
<1>8. ASSUME NEW again \in BOOLEAN, Execute(again) PROVE Table'
  <2>1. net' \in Docs \cup {NoDoc, NoNet} /\ run' \in RunRecords
      BY <1>8 DEF Execute, IpamTypeOK, IdleRun, RunRecords
  <2>2. proxy' \in Addrs \cup {NoAddr}
      BY <1>8 DEF Execute, IpamTypeOK, DockerGives
  <2>3. IpamTypeOK'
      BY <1>8, <2>1, <2>2 DEF Execute, IpamTypeOK
  <2> QED BY <2>3, <1>8, Untouched DEF Execute
<1>9. ASSUME NEW d \in Docs \cup {NoDoc}, EditFramework(d) PROVE Table'
  <2>1. IpamTypeOK'
      BY <1>9 DEF EditFramework, IpamTypeOK
  <2> QED BY <2>1, <1>9, Untouched DEF EditFramework
<1>10. CASE ChangeTrust
  <2>1. IpamTypeOK'
      BY <1>10 DEF ChangeTrust, IpamTypeOK
  <2> QED BY <2>1, <1>10, Untouched DEF ChangeTrust
<1>11. CASE SyncRange
  <2>1. IpamTypeOK'
      BY <1>11 DEF SyncRange, SetIpamRange, IpamTypeOK, RunRecords
  <2> QED BY <2>1, <1>11, Untouched DEF SyncRange, SetIpamRange
<1>12. CASE WallTimer
  <2>1. IpamTypeOK'
      BY <1>12 DEF WallTimer, IpamTypeOK, IdleRun, RunRecords
  <2> QED BY <2>1, <1>12, Untouched DEF WallTimer
<1>13. CASE UNCHANGED ipamVars
  <2>1. IpamTypeOK'
      BY <1>13 DEF ipamVars, IpamTypeOK
  <2> QED BY <2>1, <1>13, Untouched DEF ipamVars
<1> QED BY <1>1, <1>2, <1>3, <1>4, <1>5, <1>6, <1>7, <1>8, <1>9, <1>10, <1>11, <1>12, <1>13 DEF IpamNext

\* The invariant of the allocation table: types, one address per owner and
\* promises kept.
THEOREM TableInvariant == IpamSpec => []Table
BY InitTable, NextTable, PTL DEF IpamSpec

\* Plans made again and again, late or timed out, hold one address for each
\* owner (allocateIp's idempotency key).
THEOREM OwnerHoldsOne == IpamSpec => []OneAddressPerOwner
BY TableInvariant, PTL DEF Table

\* An address an owner was told stays his until it is released.
THEOREM PromiseKept == IpamSpec => []ToldIsHeld
<1>1. Table => ToldIsHeld
    BY DEF Table
<1> QED BY <1>1, TableInvariant, PTL

\* Nothing but ipam.release takes an address from its holder: neither an
\* allocation for somebody else nor a range that moved.
THEOREM OnlyReleaseTakes == IpamSpec => TakenOnlyByRelease
<1> DEFINE Taken(a) == \E c \in CallIds : call[c] # NoCall /\ call'[c] = NoCall
                               /\ call[c].op = "release" /\ call[c].ip = a
<1>1. ASSUME Table, [IpamNext]_ipamVars, NEW a \in Addrs, holder[a] # Free, holder'[a] # holder[a]
      PROVE  Taken(a)
  <2>1. ASSUME NEW c \in CallIds, AllocateFirst(c) PROVE FALSE
    <3>1. Min(FreeHosts) # a
        BY <1>1, <2>1, CandidateIsFree DEF AllocateFirst
    <3>2. holder' = [holder EXCEPT ![Min(FreeHosts)] = call[c].owner]
        BY <2>1 DEF AllocateFirst
    <3> QED BY <1>1, <3>1, <3>2 DEF Table, IpamTypeOK
  <2>2. ASSUME NEW c \in CallIds, Release(c) PROVE Taken(a)
    <3>1. holder' = [holder EXCEPT ![call[c].ip] = Free] /\ call[c] # NoCall
          /\ call[c].op = "release" /\ call' = [call EXCEPT ![c] = NoCall]
        BY <2>2 DEF Release, Deliver
    <3>2. call[c].ip = a
        BY <1>1, <3>1 DEF Table, IpamTypeOK
    <3>3. call'[c] = NoCall
        BY <1>1, <3>1 DEF Table, IpamTypeOK
    <3> QED BY <3>1, <3>2, <3>3
  <2>3. CASE UNCHANGED holder
      BY <2>3, <1>1
  <2>4. \/ \E c \in CallIds : AllocateFirst(c) \/ Release(c)
        \/ UNCHANGED holder
      BY <1>1 DEF IpamNext, ipamVars, EditFramework, ChangeTrust, SyncRange, SetIpamRange, WallTimer, Execute,
                  AskAddress, OtherCalls, AllocateAgain, AllocateFails, ReleaseDenied
  <2> QED BY <2>1, <2>2, <2>3, <2>4
<1>2. Table /\ [IpamNext]_ipamVars =>
        [\A a \in Addrs : (holder[a] # Free /\ holder'[a] # holder[a]) => Taken(a)]_ipamVars
    BY <1>1
<1> QED BY <1>2, TableInvariant, PTL DEF IpamSpec, TakenOnlyByRelease

-----------------------------------------------------------------------------
\* The addresses of a CIDR.

\* Division with rest.
LEMMA DivMod ==
    ASSUME NEW n \in Nat, NEW p \in Nat \ {0}
    PROVE  /\ n \div p \in Nat /\ n % p \in 0..(p - 1)
           /\ n = p * (n \div p) + (n % p)
OBVIOUS

\* There is only one such division.
LEMMA DivModUnique ==
    ASSUME NEW n \in Nat, NEW p \in Nat \ {0}, NEW q \in Nat, NEW r \in 0..(p - 1),
           n = p * q + r
    PROVE  n \div p = q /\ n % p = r
OBVIOUS

\* The powers of two up to 2^Width are positive.
LEMMA PowersPositive == \A n \in 0..Width : 2^n \in Nat \ {0}
<1> DEFINE Bad == {n \in 0..Width : ~(2^n \in Nat \ {0})}
<1> SUFFICES ASSUME Bad # {} PROVE FALSE
  OBVIOUS
<1>1. Bad \subseteq Nat
  BY WidthAssumption
<1>2. PICK n \in Bad : \A m \in Bad : n <= m
  <2> HIDE DEF Bad
  <2>1. QED
    BY <1>1, LeastNatural
<1>3. CASE n = 0
  BY <1>2, <1>3, PowersOfTwo
<1>4. CASE n # 0
  <2>1. n \in 1..Width /\ n - 1 \in 0..Width /\ n - 1 < n
    BY <1>1, <1>2, <1>4, WidthAssumption
  <2>2. 2^(n - 1) \in Nat \ {0}
    BY <1>2, <2>1
  <2>3. 2^n = 2 * 2^(n - 1)
    BY <2>1, PowersOfTwo
  <2>4. 2 * 2^(n - 1) \in Nat \ {0}
    <3>1. PICK p \in Nat \ {0} : p = 2^(n - 1)
      BY <2>2
    <3>2. 2 * p \in Nat \ {0}
      OBVIOUS
    <3>3. QED
      BY <3>1, <3>2
  <2>5. QED
    BY <1>2, <2>3, <2>4
<1>5. QED
  BY <1>3, <1>4

\* Each of them divides 2^Width.
LEMMA PowersDivide == \A h \in 0..Width : \E m \in Nat : 2^Width = 2^h * m
<1> DEFINE Divides(h) == \E m \in Nat : 2^Width = 2^h * m
           Bad == {k \in 0..Width : ~Divides(Width - k)}
<1>1. Bad = {}
  <2> SUFFICES ASSUME Bad # {} PROVE FALSE
    OBVIOUS
  <2>1. Bad \subseteq Nat
    BY WidthAssumption
  <2>2. PICK k \in Bad : \A j \in Bad : k <= j
    <3> HIDE DEF Bad
    <3>1. QED
      BY <2>1, LeastNatural
  <2>3. k \in 0..Width /\ ~Divides(Width - k)
    BY <2>2
  <2>4. PICK p \in Nat \ {0} : p = 2^Width
    BY PowersPositive, WidthAssumption
  <2>5. CASE k = 0
    <3>1. Width - k = Width /\ p = p * 1
      BY <2>5, WidthAssumption
    <3>2. Divides(Width)
      BY <2>4, <3>1
    <3>3. QED
      BY <2>3, <3>1, <3>2
  <2>6. CASE k # 0
    <3>1. k - 1 \in 0..Width /\ k - 1 < k
      BY <2>3, <2>6, WidthAssumption
    <3>2. PICK h \in 1..Width : h = Width - (k - 1) /\ h - 1 = Width - k
      BY <2>3, <2>6, WidthAssumption
    <3>3. Divides(h)
      BY <2>2, <3>1, <3>2
    <3>4. PICK m \in Nat : 2^Width = 2^h * m
      BY <3>3
    <3>5. PICK x \in Nat \ {0} : x = 2^(h - 1)
      <4>1. h - 1 \in 0..Width
        BY WidthAssumption
      <4>2. QED
        BY <4>1, PowersPositive
    <3>6. 2^h = 2 * x
      BY <3>5, PowersOfTwo
    <3>7. 2^Width = (2 * x) * m
      BY <3>4, <3>6
    <3>8. (2 * x) * m = x * (2 * m) /\ 2 * m \in Nat
      OBVIOUS
    <3>9. Divides(h - 1)
      BY <3>5, <3>7, <3>8
    <3>10. QED
      BY <2>3, <3>2, <3>9
  <2>7. QED
    BY <2>5, <2>6
<1>2. ASSUME NEW h \in 0..Width PROVE Divides(h)
  <2>1. PICK k \in 0..Width : k = Width - h /\ Width - k = h
    BY WidthAssumption
  <2>2. Divides(Width - k)
    BY <1>1
  <2>3. QED
    BY <2>1, <2>2
<1>3. QED
  BY <1>2

\* The mask of a prefix: all bits but the last Width - len, the /0 included,
\* where JavaScript's shift would shift by nothing.
LEMMA MaskIsPrefix ==
    ASSUME NEW len \in 0..Width PROVE 2^Width - Mask(len) = 2^(Width - len)
<1>1. PICK w \in Nat \ {0} : w = 2^Width
  BY PowersPositive, WidthAssumption
<1>2. CASE len = 0
  <2>1. Width - len = Width /\ Mask(len) = 0
    BY <1>2, WidthAssumption DEF Mask
  <2>2. w - 0 = w
    OBVIOUS
  <2>3. QED
    BY <1>1, <2>1, <2>2
<1>3. CASE len # 0
  <2>1. PICK h \in 0..Width : h = Width - len /\ h < Width
    BY <1>3, WidthAssumption
  <2>2. PICK p \in Nat \ {0} : p = 2^h
    BY PowersPositive
  <2>3. PICK m \in Nat : w = p * m
    BY <1>1, <2>2, PowersDivide
  <2>4. h % Width = h
    BY <2>1, WidthAssumption
  <2>5. Mask(len) = ((w - 1) * p) % w
    <3>1. Mask(len) = Shl(2^Width - 1, Width - len)
      BY <1>3 DEF Mask
    <3>2. Shl(2^Width - 1, Width - len) = ((2^Width - 1) * 2^(h % Width)) % 2^Width
      BY <2>1 DEF Shl
    <3>3. QED
      BY <1>1, <2>2, <2>4, <3>1, <3>2
  <2>6. p <= w
    <3>1. m # 0
      BY <2>3
    <3>2. m >= 1
      BY <3>1
    <3>3. QED
      BY <2>3, <3>2
  <2>7. (w - 1) * p = w * (p - 1) + (w - p)
    OBVIOUS
  <2>8. w - p \in 0..(w - 1) /\ p - 1 \in Nat
    BY <2>6
  <2>9. (w - 1) * p \in Nat
    OBVIOUS
  <2>10. ((w - 1) * p) % w = w - p
    BY <2>7, <2>8, <2>9, DivModUnique
  <2>11. w - (w - p) = p
    OBVIOUS
  <2>12. QED
    BY <1>1, <2>1, <2>2, <2>5, <2>10, <2>11
<1>4. QED
  BY <1>2, <1>3

\* hostsInCidr lists the hosts of any CIDR of any width.
LEMMA HostsOfCidr ==
    ASSUME NEW d \in Docs
    PROVE  LET h == Width - d.len IN
           HostsInCidr(d) = {n \in Addrs : /\ n \div 2^h = d.addr \div 2^h
                                           /\ n % 2^h \notin {0, 2^h - 1}
                                           /\ n # d.gateway}
<1>1. PICK w \in Nat \ {0} : w = 2^Width
  BY PowersPositive, WidthAssumption
<1>2. d.addr \in 0..(w - 1) /\ d.len \in 0..Width
  BY <1>1, DocsAssumption
<1>3. PICK addr \in Nat : addr = d.addr /\ addr < w
  BY <1>2
<1>4. PICK h \in 0..Width : h = Width - d.len
  BY <1>2, WidthAssumption
<1>5. PICK p \in Nat \ {0} : p = 2^h
  BY PowersPositive
<1>6. PICK m \in Nat : w = p * m
  BY <1>1, <1>5, PowersDivide
<1>7. w - Mask(d.len) = p
  BY <1>1, <1>2, <1>4, <1>5, MaskIsPrefix
<1>8. PICK q \in Nat : q = addr \div p /\ addr = p * q + (addr % p)
  BY DivMod
<1>9. addr % p \in 0..(p - 1)
  BY DivMod
<1>10. Network(d) = p * q
  <2>1. Network(d) = addr - (addr % p)
    BY <1>1, <1>3, <1>7 DEF Network
  <2>2. QED
    BY <1>8, <1>9, <2>1
<1>11. Broadcast(d) = p * q + (p - 1)
  <2>1. Broadcast(d) = p * q + (w - 1 - Mask(d.len))
    BY <1>1, <1>10 DEF Broadcast
  <2>2. Mask(d.len) \in Int
    <3>1. CASE d.len = 0
      BY <3>1 DEF Mask
    <3>2. CASE d.len # 0
      <4>1. PICK x \in Nat : x = 2^((Width - d.len) % Width)
        <5>1. (Width - d.len) % Width \in 0..Width
          BY <1>2, WidthAssumption
        <5>2. QED
          BY <5>1, PowersPositive
      <4>2. Mask(d.len) = ((w - 1) * x) % w
        BY <1>1, <3>2, <4>1 DEF Mask, Shl
      <4>3. (w - 1) * x \in Nat
        OBVIOUS
      <4>4. QED
        BY <4>2, <4>3, DivMod
    <3>3. QED
      BY <3>1, <3>2
  <2>3. w - 1 - Mask(d.len) = p - 1
    BY <1>7, <2>2
  <2>4. QED
    BY <2>1, <2>3
<1>12. p * q + p <= w
  <2>1. p * q < p * m
    <3>1. PICK r \in Nat : r = addr % p
      BY <1>9
    <3>2. p * q \in Nat /\ addr = p * q + r
      BY <1>8, <3>1
    <3>3. p * q <= addr
      BY <3>2
    <3>4. p * q < w
      BY <1>3, <3>2, <3>3
    <3>5. QED
      BY <1>6, <3>4
  <2>2. q < m
    BY <2>1
  <2>3. q + 1 <= m
    BY <2>2
  <2>4. p * (q + 1) <= p * m
    BY <2>3
  <2>5. p * (q + 1) = p * q + p
    OBVIOUS
  <2>6. QED
    BY <1>6, <2>4, <2>5
<1> DEFINE Reference == {n \in Addrs : /\ n \div 2^h = d.addr \div 2^h
                                       /\ n % 2^h \notin {0, 2^h - 1}
                                       /\ n # d.gateway}
<1>13. Addrs = 0..(w - 1)
  BY <1>1 DEF Addrs
<1>14. Reference = {n \in 0..(w - 1) : n \div p = q /\ n % p \notin {0, p - 1} /\ n # d.gateway}
  BY <1>3, <1>5, <1>8, <1>13
<1>15. CASE d.len >= Width - 1
  <2>1. h \in 0..1
    BY <1>2, <1>4, <1>15, WidthAssumption
  <2>2. p \in {1, 2}
    <3>1. CASE h = 0
      BY <1>5, <3>1, PowersOfTwo
    <3>2. CASE h = 1
      <4>1. 1 \in 1..Width
        BY WidthAssumption
      <4>2. 2^1 = 2 * 2^(1 - 1) /\ 1 - 1 = 0
        BY <4>1, PowersOfTwo
      <4>3. QED
        BY <1>5, <3>2, <4>2, PowersOfTwo
    <3>3. QED
      BY <2>1, <3>1, <3>2
  <2>3. \A n \in 0..(w - 1) : n % p \in {0, p - 1}
    BY <2>2
  <2>4. Reference = {}
    BY <1>14, <2>3
  <2>5. QED
    BY <1>4, <1>15, <2>4 DEF HostsInCidr
<1>16. CASE ~(d.len >= Width - 1)
  <2>1. HostsInCidr(d) = (p * q + 1)..(p * q + (p - 1) - 1) \ {d.gateway}
    BY <1>10, <1>11, <1>16 DEF HostsInCidr
  <2>2. p * q \in Nat
    OBVIOUS
  <2>3. ASSUME NEW n \in (p * q + 1)..(p * q + (p - 1) - 1)
        PROVE  n \in 0..(w - 1) /\ n \div p = q /\ n % p \notin {0, p - 1}
    <3>1. n \in Nat /\ n - p * q \in 1..(p - 2)
      BY <2>2
    <3>2. PICK r \in 0..(p - 1) : r = n - p * q /\ r # 0 /\ r # p - 1
      BY <3>1
    <3>3. n = p * q + r
      BY <2>2, <3>1, <3>2
    <3>4. n \div p = q /\ n % p = r
      BY <3>1, <3>3, DivModUnique
    <3>5. n \in 0..(w - 1)
      BY <1>12, <2>2, <3>1
    <3>6. QED
      BY <3>2, <3>4, <3>5
  <2>4. ASSUME NEW n \in 0..(w - 1), n \div p = q, n % p \notin {0, p - 1}
        PROVE  n \in (p * q + 1)..(p * q + (p - 1) - 1)
    <3>1. n \in Nat
      OBVIOUS
    <3>2. n = p * (n \div p) + (n % p) /\ n % p \in 0..(p - 1)
      BY <3>1, DivMod
    <3>3. PICK r \in 0..(p - 1) : r = n % p
      BY <3>2
    <3>4. n = p * q + r /\ r # 0 /\ r # p - 1
      BY <2>4, <3>2, <3>3
    <3>5. QED
      BY <2>2, <3>3, <3>4
  <2>5. HostsInCidr(d) = Reference
    BY <1>14, <2>1, <2>3, <2>4
  <2>6. QED
    BY <1>4, <2>5
<1>17. QED
  BY <1>15, <1>16

\* Whatever range the framework document gave, of any width, with the /0
\* and the prefixes too long for a host: what allocateIp chooses from are
\* the hosts of that CIDR but the gateway (cidr.ts, hostsInCidr).
THEOREM HostsAreExact == IpamSpec => []HostsExact
<1>1. Table => HostsExact
  <2> SUFFICES ASSUME Table, range # NoDoc PROVE HostsExact
    BY DEF HostsExact
  <2>1. range \in Docs
    BY DEF Table, IpamTypeOK
  <2>2. PICK d \in Docs : d = range
    BY <2>1
  <2>3. QED
    BY <2>2, HostsOfCidr DEF HostsExact
<1>2. QED
  BY <1>1, TableInvariant, PTL
=============================================================================
