--------------------------- MODULE ResolveProofs ---------------------------
(***************************************************************************)
(* Proofs about Resolve: the cycle search of detectCycle() and the verdict *)
(* of the stage are exact, for every set of plugins and roles, every        *)
(* choice of trust records and every dependency graph.                     *)
(***************************************************************************)
EXTENDS Resolve, TLAPS

LEMMA EdgesType ==
    ASSUME ResolveTypeOK
    PROVE  \A p \in PluginIds : Edges(p) \in SUBSET PluginIds
BY DEF ResolveTypeOK, Edges, AsksFor

LEMMA EdgesSame ==
    ASSUME UNCHANGED inputs, UNCHANGED manifests
    PROVE  \A p : Edges(p)' = Edges(p)
BY DEF inputs, Edges, AsksFor

LEMMA BoundType ==
    ASSUME ResolveTypeOK
    PROVE  Bound \in SUBSET PluginIds
BY DEF ResolveTypeOK, Bound

LEMMA SomeDepsType == SomeDeps \subseteq SUBSET (PluginIds \X Targets)
<1> DEFINE Dep == PluginIds \X Targets
<1>1. \A f \in [1..MaxDeps -> Dep] : {f[i] : i \in 1..MaxDeps} \in SUBSET Dep
    OBVIOUS
<1> HIDE DEF Dep
<1>2. SomeDeps \subseteq SUBSET Dep
    BY <1>1 DEF SomeDeps, Dep
<1> QED BY <1>2 DEF Dep

LEMMA InitType == ResolveInit => ResolveTypeOK
<1> SUFFICES ASSUME ResolveInit PROVE ResolveTypeOK
    OBVIOUS
<1>1. deps \in SUBSET (PluginIds \X Targets)
    BY SomeDepsType DEF ResolveInit
<1>2. toRead \in SUBSET PluginIds
    BY DEF ResolveInit, Bound
<1> QED
    BY <1>1, <1>2 DEF ResolveInit, ResolveTypeOK, WHITE, GRAY, BLACK

LEMMA HereType ==
    ASSUME ResolveTypeOK, PathInv, NEW p \in PluginIds, color[p] = GRAY
    PROVE  Here(p) \in 1..Len(path) /\ path[Here(p)] = p
<1>1. \E i \in 1..Len(path) : path[i] = p
    BY DEF PathInv, Onto
<1> QED BY <1>1 DEF Here

LEMMA NextType == ResolveTypeOK /\ PathInv /\ [ResolveNext]_resolveVars => ResolveTypeOK'
<1> SUFFICES ASSUME ResolveTypeOK, PathInv, [ResolveNext]_resolveVars PROVE ResolveTypeOK'
    OBVIOUS
<1> USE DEF ResolveTypeOK, inputs
<1>1. CASE ReadDone
    BY <1>1 DEF ReadDone
<1>2. CASE CheckDependencies
  <2>1. \A p \in PluginIds : Unmet(p) \in SUBSET ((PluginIds \cup {NoPlugin}) \X Kinds)
    BY DEF Unmet, Kinds
  <2>2. PortError \in SUBSET ((PluginIds \cup {NoPlugin}) \X Kinds)
    BY DEF PortError, Kinds
  <2>3. errors' \in SUBSET ((PluginIds \cup {NoPlugin}) \X Kinds)
    BY <1>2, <2>1, <2>2 DEF CheckDependencies
  <2> QED BY <1>2, <2>3 DEF CheckDependencies
<1>3. CASE Leave
  <2>1. Top \in PluginIds /\ Len(path) \in Nat \ {0}
    BY <1>3 DEF Leave, Top
  <2>2. SubSeq(path, 1, Len(path) - 1) \in Seq(PluginIds)
    BY <2>1
  <2> QED BY <1>3, <2>1, <2>2 DEF Leave, WHITE, GRAY, BLACK
<1>4. CASE SearchDone
    BY <1>4 DEF SearchDone
<1>5. ASSUME NEW p \in PluginIds, ReadManifest(p) PROVE ResolveTypeOK'
    BY <1>5 DEF ReadManifest, Kinds
<1>6. ASSUME NEW p \in PluginIds, VisitRoot(p) PROVE ResolveTypeOK'
    BY <1>6, EdgesType DEF VisitRoot, Enter, WHITE, GRAY, BLACK
<1>7. ASSUME NEW p \in PluginIds, FindCycle(p) PROVE ResolveTypeOK'
  <2>1. color[p] = GRAY /\ Len(path) \in Nat
    BY <1>7 DEF FindCycle
  <2>2. Here(p) \in 1..Len(path)
    BY <2>1, HereType
  <2>3. SubSeq(path, Here(p), Len(path)) \in Seq(PluginIds)
    BY <2>1, <2>2
  <2> QED BY <1>7, <2>3 DEF FindCycle, Kinds
<1>8. ASSUME NEW p \in PluginIds, Descend(p) PROVE ResolveTypeOK'
  <2>1. Top \in PluginIds
    BY <1>8 DEF Descend, Top
  <2> QED BY <1>8, <2>1, EdgesType DEF Descend, Enter, WHITE, GRAY, BLACK
<1>9. ASSUME NEW p \in PluginIds, PassOver(p) PROVE ResolveTypeOK'
  <2>1. Top \in PluginIds
    BY <1>9 DEF PassOver, Top
  <2> QED BY <1>9, <2>1 DEF PassOver
<1>10. CASE UNCHANGED resolveVars
    BY <1>10 DEF resolveVars
<1> QED BY <1>1, <1>2, <1>3, <1>4, <1>5, <1>6, <1>7, <1>8, <1>9, <1>10 DEF ResolveNext

-----------------------------------------------------------------------------
LEMMA InitSearch == ResolveInit => SearchIInv
<1> SUFFICES ASSUME ResolveInit PROVE SearchIInv
    OBVIOUS
<1>1. ReadInv
    BY DEF ResolveInit, ReadInv
<1>2. PathInv /\ TodoInv /\ DoneInv
    BY DEF ResolveInit, PathInv, TodoInv, DoneInv, Onto, WHITE, GRAY
<1>3. BlackInv
    BY DEF ResolveInit, BlackInv, WHITE, BLACK
<1> QED BY <1>1, <1>2, <1>3 DEF SearchIInv

\* Reading and checking leave the search alone.
LEMMA NextRead ==
    ASSUME ResolveTypeOK, SearchIInv, pc \in {"read", "check"},
           UNCHANGED <<color, path, todo, cycle>>, ReadInv'
    PROVE  pc' # "done" => SearchIInv'
<1> SUFFICES ASSUME pc' # "done" PROVE SearchIInv'
    OBVIOUS
<1>1. path = <<>> /\ cycle = <<>> /\ \A p \in PluginIds : color[p] = WHITE
    BY DEF SearchIInv, ReadInv
<1>2. PathInv' /\ TodoInv' /\ DoneInv'
    BY <1>1 DEF PathInv, TodoInv, DoneInv, Onto, WHITE, GRAY
<1>3. BlackInv'
    BY <1>1 DEF BlackInv, WHITE, BLACK
<1> QED BY <1>2, <1>3 DEF SearchIInv

\* Pushing n, a white successor of the top or a root.
LEMMA NextEnter ==
    ASSUME ResolveTypeOK, SearchIInv, pc = "search", UNCHANGED <<inputs, pc, toRead, manifests, cycle>>,
           NEW n \in PluginIds, color[n] = WHITE, Enter(n),
           todo' \in [PluginIds -> SUBSET PluginIds],
           todo'[n] = Edges(n),
           \A p \in PluginIds \ {n} : p # Top => todo'[p] = todo[p],
           path # <<>> => n \in todo[Top] /\ todo'[Top] = todo[Top] \ {n}
    PROVE  SearchIInv'
<1> DEFINE L == Len(path)
<1>1. L \in Nat /\ Len(path') = L + 1 /\ path'[L + 1] = n
      /\ \A i \in 1..L : path'[i] = path[i] /\ path[i] \in PluginIds
    BY DEF Enter, ResolveTypeOK
<1>2. color' = [color EXCEPT ![n] = GRAY]
    BY DEF Enter
<1>3. \A i \in 1..L : path[i] # n /\ color[path[i]] = GRAY
    BY <1>1 DEF SearchIInv, PathInv, Onto, WHITE, GRAY
<1>4. \A p \in PluginIds : Edges(p)' = Edges(p) /\ Edges(p) \in SUBSET PluginIds
    BY EdgesSame, EdgesType
<1>5. ReadInv'
    BY DEF SearchIInv, ReadInv, inputs, Bound
<1>6. L > 0 => n \in Edges(path[L])
    BY <1>1 DEF SearchIInv, TodoInv, Top, ResolveTypeOK
<1>7. PathInv'
  <2>1. \A p \in PluginIds : color'[p] = GRAY <=> \E i \in 1..Len(path') : path'[i] = p
    <3> SUFFICES ASSUME NEW p \in PluginIds
                 PROVE  color'[p] = GRAY <=> \E i \in 1..Len(path') : path'[i] = p
        OBVIOUS
    <3>1. color'[p] = GRAY <=> p = n \/ color[p] = GRAY
        BY <1>2 DEF ResolveTypeOK
    <3>2. color[p] = GRAY <=> \E i \in 1..L : path[i] = p
        BY DEF SearchIInv, PathInv, Onto
    <3>3. (\E i \in 1..(L + 1) : path'[i] = p) <=> p = n \/ \E i \in 1..L : path[i] = p
        BY <1>1
    <3> QED BY <3>1, <3>2, <3>3, <1>1
  <2>2. \A i, j \in 1..Len(path') : path'[i] = path'[j] => i = j
    BY <1>1, <1>3 DEF SearchIInv, PathInv
  <2>3. \A i \in 1..(Len(path') - 1) : path'[i + 1] \in Edges(path'[i])
    BY <1>1, <1>6 DEF SearchIInv, PathInv
  <2>4. \A i \in 1..(Len(path') - 1) : path'[i] \in PluginIds
    BY <1>1
  <2> QED BY <2>1, <2>2, <2>3, <2>4, <1>4 DEF PathInv, Onto
<1>8. TodoInv'
  <2>1. ASSUME NEW i \in 1..Len(path')
        PROVE  /\ todo'[path'[i]] \subseteq Edges(path'[i])
               /\ \A q \in Edges(path'[i]) \ todo'[path'[i]] :
                    color'[q] = BLACK \/ (i < Len(path') /\ q = path'[i + 1])
    <3>1. CASE i = L + 1
      BY <1>1, <3>1
    <3>2. CASE i \in 1..(L - 1)
      <4>1. path'[i] = path[i] /\ path'[i + 1] = path[i + 1] /\ path[i] # Top /\ path[i] # n
        BY <1>1, <1>3, <3>2 DEF SearchIInv, PathInv, Top
      <4>2. todo'[path[i]] = todo[path[i]]
        BY <4>1, <1>1, <3>2
      <4>3. \A q \in Edges(path[i]) \ todo[path[i]] : color[q] = BLACK \/ q = path[i + 1]
        BY <3>2 DEF SearchIInv, TodoInv
      <4>4. \A q \in PluginIds : color[q] = BLACK => color'[q] = BLACK
        BY <1>2 DEF ResolveTypeOK, WHITE, BLACK
      <4>5. todo[path[i]] \subseteq Edges(path[i])
        BY <3>2 DEF SearchIInv, TodoInv
      <4>6. Edges(path[i]) \in SUBSET PluginIds
        BY <1>1, <1>4, <3>2
      <4> QED BY <4>1, <4>2, <4>3, <4>4, <4>5, <4>6, <1>1, <3>2
    <3>3. CASE i = L /\ L > 0
      <4>1. path'[i] = Top /\ path'[i + 1] = n /\ todo'[Top] = todo[Top] \ {n} /\ Top \in PluginIds
        BY <1>1, <3>3 DEF Top
      <4>2. \A q \in Edges(Top) \ todo[Top] : color[q] = BLACK
        BY <3>3, <1>1 DEF SearchIInv, TodoInv, Top
      <4>3. \A q \in PluginIds : color[q] = BLACK => color'[q] = BLACK
        BY <1>2 DEF ResolveTypeOK, WHITE, BLACK
      <4>4. todo[Top] \subseteq Edges(Top)
        BY <3>3, <1>1 DEF SearchIInv, TodoInv, Top
      <4>5. Edges(Top) \in SUBSET PluginIds
        BY <4>1, <1>4
      <4> QED BY <4>1, <4>2, <4>3, <4>4, <4>5, <1>1, <3>3
    <3> QED BY <3>1, <3>2, <3>3, <1>1
  <2>2. \A i \in 1..Len(path') : path'[i] \in PluginIds
    BY <1>1
  <2> QED BY <2>1, <2>2, <1>4 DEF TodoInv
<1>9. BlackInv'
  <2>1. \A p \in PluginIds : color'[p] = BLACK <=> color[p] = BLACK
    BY <1>2 DEF ResolveTypeOK, WHITE, GRAY, BLACK
  <2> QED BY <2>1, <1>4 DEF SearchIInv, BlackInv
<1>10. DoneInv'
    BY DEF SearchIInv, DoneInv
<1> QED BY <1>5, <1>7, <1>8, <1>9, <1>10 DEF SearchIInv

\* What is left of a sequence without its last element.
LEMMA Popped ==
    ASSUME NEW S, NEW s \in Seq(S), s # <<>>
    PROVE  /\ Len(SubSeq(s, 1, Len(s) - 1)) = Len(s) - 1
           /\ \A i \in 1..(Len(s) - 1) : SubSeq(s, 1, Len(s) - 1)[i] = s[i]
<1>1. Len(s) \in Nat /\ Len(s) # 0
    OBVIOUS
<1>2. Len(s) - 1 \in Nat
    BY <1>1
<1>3. SubSeq(s, 1, Len(s) - 1) = [i \in 1..(Len(s) - 1) |-> s[i]]
    BY <1>1, <1>2
<1>4. \A i \in 1..(Len(s) - 1) : SubSeq(s, 1, Len(s) - 1)[i] = s[i]
    BY <1>3
<1>5. Len(SubSeq(s, 1, Len(s) - 1)) = Len(s) - 1
    BY <1>1, <1>2
<1> QED BY <1>4, <1>5

\* Popping the top, whose successors are all black.
LEMMA NextLeave ==
    ASSUME ResolveTypeOK, SearchIInv, Leave
    PROVE  SearchIInv'
<1> DEFINE L == Len(path)
<1>0. L \in Nat \ {0} /\ Top = path[L] /\ \A i \in 1..L : path[i] \in PluginIds
    BY DEF Leave, Top, ResolveTypeOK
<1>1. L \in Nat \ {0} /\ Len(path') = L - 1 /\ Top = path[L] /\ Top \in PluginIds
      /\ \A i \in 1..(L - 1) : path'[i] = path[i] /\ path[i] \in PluginIds
  <2>1. path' = SubSeq(path, 1, Len(path) - 1) /\ path \in Seq(PluginIds) /\ path # <<>>
    BY DEF Leave, ResolveTypeOK
  <2>2. Len(path') = L - 1 /\ \A i \in 1..(L - 1) : path'[i] = path[i]
    BY <2>1, Popped
  <2> QED BY <1>0, <2>2
<1>2. color' = [color EXCEPT ![Top] = BLACK] /\ todo' = todo /\ todo[Top] = {}
    BY DEF Leave
<1>3. \A p \in PluginIds : Edges(p)' = Edges(p) /\ Edges(p) \in SUBSET PluginIds
    BY EdgesSame, EdgesType DEF Leave
<1>4. \A i \in 1..(L - 1) : path[i] # Top
    BY <1>1 DEF SearchIInv, PathInv
<1>5. color[Top] = GRAY
    BY <1>1 DEF SearchIInv, PathInv, Onto
<1>6. \A q \in Edges(Top) : color[q] = BLACK
    BY <1>1, <1>2 DEF SearchIInv, TodoInv
<1>7. \A p \in PluginIds : color'[p] = BLACK <=> p = Top \/ color[p] = BLACK
    BY <1>1, <1>2 DEF ResolveTypeOK
<1>8. ReadInv'
    BY DEF SearchIInv, ReadInv, inputs, Bound, Leave
<1>9. PathInv'
  <2>1. \A p \in PluginIds : color'[p] = GRAY <=> \E i \in 1..Len(path') : path'[i] = p
    <3> SUFFICES ASSUME NEW p \in PluginIds
                 PROVE  color'[p] = GRAY <=> \E i \in 1..Len(path') : path'[i] = p
        OBVIOUS
    <3>1. color'[p] = GRAY <=> p # Top /\ color[p] = GRAY
        BY <1>1, <1>2 DEF ResolveTypeOK, GRAY, BLACK
    <3>2. color[p] = GRAY <=> \E i \in 1..L : path[i] = p
        BY DEF SearchIInv, PathInv, Onto
    <3>3. (p # Top /\ \E i \in 1..L : path[i] = p) <=> \E i \in 1..(L - 1) : path'[i] = p
        BY <1>1, <1>4
    <3> QED BY <3>1, <3>2, <3>3, <1>1
  <2>2. \A i, j \in 1..Len(path') : path'[i] = path'[j] => i = j
    BY <1>1 DEF SearchIInv, PathInv
  <2>3. \A i \in 1..(Len(path') - 1) : path'[i + 1] \in Edges(path'[i]) /\ path'[i] \in PluginIds
    BY <1>1 DEF SearchIInv, PathInv
  <2> QED BY <2>1, <2>2, <2>3, <1>3 DEF PathInv, Onto
<1>10. TodoInv'
  <2>1. ASSUME NEW i \in 1..(L - 1)
        PROVE  /\ todo[path[i]] \subseteq Edges(path[i])
               /\ \A q \in Edges(path[i]) \ todo[path[i]] :
                    color'[q] = BLACK \/ (i < L - 1 /\ q = path'[i + 1])
    <3>0. i \in 1..L
        BY <1>1
    <3>1. todo[path[i]] \subseteq Edges(path[i])
          /\ \A q \in Edges(path[i]) \ todo[path[i]] : color[q] = BLACK \/ q = path[i + 1]
        BY <3>0 DEF SearchIInv, TodoInv
    <3>2. i = L - 1 => path[i + 1] = Top
        BY <1>1
    <3>3. i < L - 1 => path'[i + 1] = path[i + 1]
        BY <1>1
    <3>4. Edges(path[i]) \in SUBSET PluginIds
        BY <1>1, <1>3
    <3> QED BY <1>1, <1>7, <3>1, <3>2, <3>3, <3>4
  <2>2. ASSUME NEW i \in 1..Len(path')
        PROVE  /\ todo'[path'[i]] \subseteq Edges(path[i])'
               /\ \A q \in Edges(path[i])' \ todo'[path'[i]] :
                    color'[q] = BLACK \/ (i < Len(path') /\ q = path'[i + 1])
    <3>1. i \in 1..(L - 1) /\ Len(path') = L - 1
        BY <1>1
    <3>2. path'[i] = path[i] /\ path[i] \in PluginIds /\ todo' = todo
        BY <1>1, <1>2, <3>1
    <3>3. Edges(path[i])' = Edges(path[i])
        BY <1>3, <3>2
    <3> HIDE DEF L
    <3> QED BY <2>1, <3>1, <3>2, <3>3
  <2> QED BY <2>2 DEF TodoInv
<1>11. BlackInv'
  <2>1. \A p \in PluginIds : color'[p] = BLACK => \A q \in Edges(p) : color'[q] = BLACK
    BY <1>3, <1>6, <1>7 DEF SearchIInv, BlackInv
  <2>2. ASSUME NEW S \in SUBSET PluginIds, S # {}, \A p \in S : color'[p] = BLACK
        PROVE  \E p \in S : \A q \in S : q \notin Edges(p)
    <3>1. CASE S = {Top}
        BY <3>1, <1>5, <1>6 DEF GRAY, BLACK
    <3>2. CASE S # {Top}
      <4> DEFINE R == S \ {Top}
      <4>1. R \in SUBSET PluginIds /\ R # {} /\ \A p \in R : color[p] = BLACK
        BY <1>7, <2>2, <3>2
      <4>2. PICK p \in R : \A q \in R : q \notin Edges(p)
        BY <4>1 DEF SearchIInv, BlackInv
      <4>3. \A q \in Edges(p) : color[q] = BLACK
        BY <4>1, <4>2 DEF SearchIInv, BlackInv
      <4>4. Top \notin Edges(p)
        BY <4>3, <1>5 DEF GRAY, BLACK
      <4> QED BY <4>2, <4>4
    <3> QED BY <3>1, <3>2
  <2> QED BY <2>1, <2>2, <1>3 DEF BlackInv
<1>12. DoneInv'
    BY DEF SearchIInv, DoneInv, Leave
<1> QED BY <1>8, <1>9, <1>10, <1>11, <1>12 DEF SearchIInv

\* An edge to a black node is passed over.
LEMMA NextPassOver ==
    ASSUME ResolveTypeOK, SearchIInv, NEW n \in PluginIds, PassOver(n)
    PROVE  SearchIInv'
<1>1. \A p \in PluginIds : Edges(p)' = Edges(p)
    BY EdgesSame DEF PassOver
<1>2. Len(path) \in Nat \ {0} /\ Top \in PluginIds /\ Top = path[Len(path)]
      /\ \A i \in 1..Len(path) : path[i] \in PluginIds
    BY DEF PassOver, Top, ResolveTypeOK
<1>3. todo' = [todo EXCEPT ![Top] = todo[Top] \ {n}] /\ color' = color /\ path' = path
      /\ color[n] = BLACK
    BY DEF PassOver
<1>4. ReadInv'
    BY DEF SearchIInv, ReadInv, inputs, Bound, PassOver
<1>5. PathInv' /\ BlackInv'
  <2>1. PathInv'
    BY <1>1, <1>2, <1>3 DEF SearchIInv, PathInv, Onto
  <2>2. BlackInv'
    BY <1>1, <1>3 DEF SearchIInv, BlackInv
  <2> QED BY <2>1, <2>2
<1>6. TodoInv'
  <2>1. ASSUME NEW i \in 1..Len(path)
        PROVE  /\ todo'[path[i]] \subseteq Edges(path[i])
               /\ \A q \in Edges(path[i]) \ todo'[path[i]] :
                    color[q] = BLACK \/ (i < Len(path) /\ q = path[i + 1])
    <3>1. todo[path[i]] \subseteq Edges(path[i])
          /\ \A q \in Edges(path[i]) \ todo[path[i]] :
               color[q] = BLACK \/ (i < Len(path) /\ q = path[i + 1])
        BY DEF SearchIInv, TodoInv
    <3>2. todo'[path[i]] = todo[path[i]] \/ todo'[path[i]] = todo[path[i]] \ {n}
        BY <1>2, <1>3 DEF ResolveTypeOK
    <3> QED BY <3>1, <3>2, <1>3
  <2> QED BY <2>1, <1>1, <1>2, <1>3 DEF TodoInv
<1>7. DoneInv'
    BY DEF SearchIInv, DoneInv, PassOver
<1> QED BY <1>4, <1>5, <1>6, <1>7 DEF SearchIInv

\* A gray successor closes a ring.
LEMMA NextFindCycle ==
    ASSUME ResolveTypeOK, SearchIInv, NEW n \in PluginIds, FindCycle(n)
    PROVE  SearchIInv'
<1> DEFINE L == Len(path)
           h == Here(n)
           s == SubSeq(path, h, L)
<1>1. L \in Nat \ {0} /\ Top = path[L] /\ h \in 1..L /\ path[h] = n
      /\ \A i \in 1..L : path[i] \in PluginIds
    BY HereType DEF FindCycle, Top, ResolveTypeOK, SearchIInv
<1> HIDE DEF h, L
<1>2. s \in Seq(PluginIds) /\ Len(s) = L - h + 1 /\ \A i \in 1..(L - h + 1) : s[i] = path[h + i - 1]
    BY <1>1 DEF ResolveTypeOK, L
<1>3. cycle' = Append(s, n)
    BY DEF FindCycle, h, L
<1>4. n \in Edges(Top)
  <2>1. n \in todo[Top] /\ L \in 1..L
    BY <1>1 DEF FindCycle
  <2>2. todo[path[L]] \subseteq Edges(path[L])
    BY <2>1 DEF SearchIInv, TodoInv, L
  <2> QED BY <2>1, <2>2, <1>1
<1>5. \A i \in 1..(L - 1) : path[i + 1] \in Edges(path[i])
    BY DEF SearchIInv, PathInv, L
<1> HIDE DEF s
<1>6. Len(cycle') = L - h + 2 /\ cycle'[L - h + 2] = n
      /\ \A i \in 1..(L - h + 1) : cycle'[i] = path[h + i - 1]
    BY <1>1, <1>2, <1>3
<1>7. \A i \in 1..(L - h + 1) : cycle'[i + 1] \in Edges(cycle'[i]) /\ cycle'[i] \in PluginIds
  <2> SUFFICES ASSUME NEW i \in 1..(L - h + 1)
               PROVE  cycle'[i + 1] \in Edges(cycle'[i]) /\ cycle'[i] \in PluginIds
    OBVIOUS
  <2>1. CASE i = L - h + 1
    BY <2>1, <1>1, <1>4, <1>6
  <2>2. CASE i \in 1..(L - h)
    <3>1. cycle'[i] = path[h + i - 1] /\ cycle'[i + 1] = path[h + i]
        BY <2>2, <1>1, <1>6
    <3>2. h + i - 1 \in 1..(L - 1) /\ (h + i - 1) + 1 = h + i
        BY <2>2, <1>1
    <3> QED BY <3>1, <3>2, <1>5, <1>1
  <2> QED BY <2>1, <2>2, <1>1
<1>8. \A p \in PluginIds : Edges(p)' = Edges(p)
    BY EdgesSame DEF FindCycle
<1>9. DoneInv'
  <2>1. pc' = "done" /\ cycle' # <<>>
    <3>1. Len(cycle') # 0
        BY <1>1, <1>6
    <3> QED BY <3>1 DEF FindCycle
  <2>2. cycle'[1] = n
    BY <1>1, <1>6
  <2> QED BY <2>1, <2>2, <1>1, <1>6, <1>7, <1>8 DEF DoneInv
<1>10. ReadInv'
    BY DEF SearchIInv, ReadInv, inputs, Bound, FindCycle
<1>11. PathInv' /\ TodoInv' /\ BlackInv'
  <2>1. \A i \in 1..Len(path) : path[i] \in PluginIds
    BY <1>1 DEF L
  <2>2. UNCHANGED <<color, path, todo>>
    BY DEF FindCycle
  <2>3. PathInv'
    BY <2>1, <2>2, <1>8 DEF SearchIInv, PathInv, Onto, ResolveTypeOK
  <2>4. TodoInv'
    BY <2>1, <2>2, <1>8 DEF SearchIInv, TodoInv
  <2>5. BlackInv'
    BY <2>2, <1>8 DEF SearchIInv, BlackInv
  <2> QED BY <2>3, <2>4, <2>5
<1> QED BY <1>9, <1>10, <1>11 DEF SearchIInv

LEMMA NextSearch == ResolveTypeOK /\ SearchIInv /\ [ResolveNext]_resolveVars => SearchIInv'
<1> SUFFICES ASSUME ResolveTypeOK, SearchIInv, [ResolveNext]_resolveVars PROVE SearchIInv'
    OBVIOUS
<1>1. CASE ReadDone
  <2>1. ReadInv'
    BY <1>1 DEF ReadDone, SearchIInv, ReadInv, inputs, Bound
  <2> QED BY <1>1, <2>1, NextRead DEF ReadDone
<1>2. CASE CheckDependencies
  <2>1. ReadInv'
    BY <1>2 DEF CheckDependencies, SearchIInv, ReadInv, inputs, Bound
  <2> QED BY <1>2, <2>1, NextRead DEF CheckDependencies
<1>3. CASE Leave
    BY <1>3, NextLeave
<1>4. CASE SearchDone
  <2>1. \A p \in PluginIds : Edges(p)' = Edges(p)
    BY <1>4, EdgesSame DEF SearchDone
  <2>2. path = <<>> /\ UNCHANGED <<color, path, todo, cycle, manifests>> /\ cycle = <<>>
        /\ pc = "search" /\ pc' = "done" /\ \A n \in manifests : color[n] # WHITE
    BY <1>4 DEF SearchDone, SearchIInv, DoneInv
  <2>3. ReadInv'
    BY <1>4 DEF SearchDone, SearchIInv, ReadInv, inputs, Bound
  <2>4. PathInv' /\ TodoInv'
    BY <2>2 DEF SearchIInv, PathInv, TodoInv, Onto
  <2>5. BlackInv'
    BY <2>1, <2>2 DEF SearchIInv, BlackInv
  <2>6. DoneInv'
    BY <2>2 DEF DoneInv
  <2> QED BY <2>3, <2>4, <2>5, <2>6 DEF SearchIInv
<1>5. ASSUME NEW p \in PluginIds, ReadManifest(p) PROVE SearchIInv'
  <2>1. ReadInv'
    BY <1>5 DEF ReadManifest, SearchIInv, ReadInv, inputs, Bound
  <2> QED BY <1>5, <2>1, NextRead DEF ReadManifest
<1>6. ASSUME NEW p \in PluginIds, VisitRoot(p) PROVE SearchIInv'
  <2>1. todo' \in [PluginIds -> SUBSET PluginIds] /\ todo'[p] = Edges(p)
        /\ \A q \in PluginIds \ {p} : todo'[q] = todo[q]
    BY <1>6, EdgesType DEF VisitRoot, ResolveTypeOK
  <2> QED BY <1>6, <2>1, NextEnter DEF VisitRoot
<1>7. ASSUME NEW p \in PluginIds, FindCycle(p) PROVE SearchIInv'
    BY <1>7, NextFindCycle
<1>8. ASSUME NEW p \in PluginIds, Descend(p) PROVE SearchIInv'
  <2>1. Top \in PluginIds /\ Top # p
    <3>1. Len(path) \in Nat \ {0} /\ Top = path[Len(path)] /\ Top \in PluginIds
        BY <1>8 DEF Descend, Top, ResolveTypeOK
    <3>2. color[Top] = GRAY
        BY <3>1 DEF SearchIInv, PathInv, Onto
    <3> QED BY <1>8, <3>1, <3>2 DEF Descend, WHITE, GRAY
  <2>2. todo' \in [PluginIds -> SUBSET PluginIds] /\ todo'[p] = Edges(p)
        /\ (\A q \in PluginIds \ {p} : q # Top => todo'[q] = todo[q])
        /\ todo'[Top] = todo[Top] \ {p}
    BY <1>8, <2>1, EdgesType DEF Descend, ResolveTypeOK
  <2> QED BY <1>8, <2>2, NextEnter DEF Descend
<1>9. ASSUME NEW p \in PluginIds, PassOver(p) PROVE SearchIInv'
    BY <1>9, NextPassOver
<1>10. CASE UNCHANGED resolveVars
  <2>1. \A p \in PluginIds : Edges(p)' = Edges(p)
    BY <1>10, EdgesSame DEF resolveVars, inputs
  <2>2. \A i \in 1..Len(path) : path[i] \in PluginIds
    BY DEF ResolveTypeOK
  <2>3. \A i \in 1..Len(cycle) : cycle[i] \in PluginIds
    BY DEF ResolveTypeOK
  <2>4. ReadInv'
    BY <1>10 DEF resolveVars, inputs, SearchIInv, ReadInv, Bound
  <2>5. PathInv'
    BY <1>10, <2>1, <2>2 DEF resolveVars, SearchIInv, PathInv, Onto, ResolveTypeOK
  <2>6. TodoInv'
    BY <1>10, <2>1, <2>2 DEF resolveVars, SearchIInv, TodoInv
  <2>7. BlackInv'
    BY <1>10, <2>1 DEF resolveVars, SearchIInv, BlackInv
  <2>8. DoneInv'
    BY <1>10, <2>1, <2>3 DEF resolveVars, SearchIInv, DoneInv, ResolveTypeOK
  <2> QED BY <2>4, <2>5, <2>6, <2>7, <2>8 DEF SearchIInv
<1> QED BY <1>1, <1>2, <1>3, <1>4, <1>5, <1>6, <1>7, <1>8, <1>9, <1>10 DEF ResolveNext

\* The search keeps its invariant, for every graph of dependencies.
THEOREM SearchInvariant == ResolveSpec => [](ResolveTypeOK /\ SearchIInv)
<1>1. ResolveInit => ResolveTypeOK /\ SearchIInv
    BY InitType, InitSearch
<1>2. ResolveTypeOK /\ SearchIInv /\ [ResolveNext]_resolveVars => (ResolveTypeOK /\ SearchIInv)'
  <2>1. SearchIInv => PathInv
    BY DEF SearchIInv
  <2> QED BY <2>1, NextType, NextSearch
<1> QED BY <1>1, <1>2, PTL DEF ResolveSpec

\* Once the manifests are read the graph searched is the reference's.
LEMMA EdgesAreBefore ==
    ASSUME ResolveTypeOK, SearchIInv, pc # "read"
    PROVE  \A p, q \in PluginIds : q \in Edges(p) <=> EnteredBefore(p, q)
<1>1. manifests = Loaded
    BY DEF SearchIInv, ReadInv, Loaded
<1> SUFFICES ASSUME NEW p \in PluginIds, NEW q \in PluginIds
             PROVE  q \in Edges(p) <=> EnteredBefore(p, q)
    OBVIOUS
<1>2. CASE p \notin manifests
    BY <1>1, <1>2 DEF Edges, EnteredBefore
<1>3. CASE p \in manifests
  <2>1. Edges(p) = (AsksFor(p) \cap PluginIds)
           \cup {roles[r] : r \in {s \in Roles : s \in AsksFor(p) /\ roles[s] # NoPlugin}}
    BY <1>3 DEF Edges
  <2>2. q \in AsksFor(p) \cap PluginIds <=> <<p, q>> \in deps
    BY DEF AsksFor, Targets
  <2>3. q \in {roles[r] : r \in {s \in Roles : s \in AsksFor(p) /\ roles[s] # NoPlugin}}
          <=> \E r \in Roles : <<p, r>> \in deps /\ roles[r] = q
    <3>1. \A r \in Roles : r \in AsksFor(p) <=> <<p, r>> \in deps
        BY DEF AsksFor, Targets
    <3>2. q # NoPlugin
        BY NoPluginAssumption
    <3> QED BY <3>1, <3>2
  <2>4. EnteredBefore(p, q) <=> \/ <<p, q>> \in deps
                         \/ \E r \in Roles : <<p, r>> \in deps /\ roles[r] = q
    BY <1>1, <1>3 DEF EnteredBefore
  <2> QED BY <2>1, <2>2, <2>3, <2>4
<1> QED BY <1>2, <1>3

LEMMA RealFromInv == ResolveTypeOK /\ SearchIInv => CycleIsReal
<1> SUFFICES ASSUME ResolveTypeOK, SearchIInv, cycle # <<>>
             PROVE  /\ Len(cycle) > 1
                    /\ cycle[1] = cycle[Len(cycle)]
                    /\ \A i \in 1..(Len(cycle) - 1) : EnteredBefore(cycle[i], cycle[i + 1])
    BY DEF CycleIsReal
<1>1. pc = "done" /\ Len(cycle) > 1 /\ cycle[1] = cycle[Len(cycle)]
      /\ \A i \in 1..(Len(cycle) - 1) : cycle[i + 1] \in Edges(cycle[i])
    BY DEF SearchIInv, DoneInv
<1>2. \A i \in 1..(Len(cycle) - 1) : cycle[i] \in PluginIds /\ cycle[i + 1] \in PluginIds
    BY DEF ResolveTypeOK
<1> QED BY <1>1, <1>2, EdgesAreBefore

\* The cycle reported to the operator is a ring of real dependencies.
THEOREM ReportedCycleIsReal == ResolveSpec => []CycleIsReal
BY SearchInvariant, RealFromInv, PTL

LEMMA ExactFromInv == ResolveTypeOK /\ SearchIInv => CycleExact
<1> SUFFICES ASSUME ResolveTypeOK, SearchIInv, pc = "done"
             PROVE  (cycle = <<>>) <=> Acyclic
    BY DEF CycleExact
<1>1. \A p, q \in PluginIds : q \in Edges(p) <=> EnteredBefore(p, q)
    BY EdgesAreBefore
<1>2. ASSUME cycle = <<>> PROVE Acyclic
  <2>1. \A n \in manifests : color[n] = BLACK
    <3>1. path = <<>> /\ \A n \in manifests : color[n] # WHITE
        BY <1>2 DEF SearchIInv, DoneInv
    <3>2. \A n \in PluginIds : color[n] # GRAY
        BY <3>1 DEF SearchIInv, PathInv, Onto
    <3> QED BY <3>1, <3>2 DEF ResolveTypeOK
  <2> SUFFICES ASSUME NEW S \in SUBSET PluginIds, S # {}
               PROVE  \E p \in S : \A q \in S : ~EnteredBefore(p, q)
    BY DEF Acyclic
  <2>2. CASE \A p \in S : color[p] = BLACK
    <3>1. PICK p \in S : \A q \in S : q \notin Edges(p)
        BY <2>2 DEF SearchIInv, BlackInv
    <3> QED BY <3>1, <1>1
  <2>3. CASE \E p \in S : color[p] # BLACK
    <3>1. PICK p \in S : p \notin manifests
        BY <2>1, <2>3
    <3>2. Edges(p) = {}
        BY <3>1 DEF Edges
    <3> QED BY <3>1, <3>2, <1>1
  <2> QED BY <2>2, <2>3
<1>3. ASSUME cycle # <<>> PROVE ~Acyclic
  <2> DEFINE N == Len(cycle)
             S == {cycle[i] : i \in 1..(N - 1)}
  <2>1. N \in Nat /\ N > 1 /\ cycle[1] = cycle[N]
        /\ \A i \in 1..(N - 1) : EnteredBefore(cycle[i], cycle[i + 1])
    BY <1>3, RealFromInv DEF CycleIsReal, ResolveTypeOK
  <2>2. S \in SUBSET PluginIds /\ cycle[1] \in S
    BY <2>1 DEF ResolveTypeOK
  <2>3. \A p \in S : \E q \in S : EnteredBefore(p, q)
    <3> SUFFICES ASSUME NEW i \in 1..(N - 1) PROVE \E q \in S : EnteredBefore(cycle[i], q)
        OBVIOUS
    <3>1. EnteredBefore(cycle[i], cycle[i + 1])
        BY <2>1
    <3>2. CASE i = N - 1
        BY <3>1, <3>2, <2>1, <2>2
    <3>3. CASE i < N - 1
      <4>1. cycle[i + 1] \in S
        BY <3>3, <2>1
      <4> QED BY <3>1, <4>1
    <3> QED BY <3>2, <3>3, <2>1
  <2> QED BY <2>2, <2>3 DEF Acyclic
<1> QED BY <1>2, <1>3

\* detectCycle() reports a cycle exactly when the loaded plugins have one,
\* whatever the graph and whatever the order its nodes are visited in.
THEOREM CycleSearchExact == ResolveSpec => []CycleExact
BY SearchInvariant, ExactFromInv, PTL

-----------------------------------------------------------------------------
\* Neither the snapshot of the trust records nor the manifests change once
\* they were taken, so what the check reported stays what it would report.
LEMMA ReportsSame ==
    ASSUME UNCHANGED <<inputs, toRead, manifests>>
    PROVE  /\ Untrusted' = Untrusted /\ PortError' = PortError
           /\ UNION {Unmet(p) : p \in manifests}' = UNION {Unmet(p) : p \in manifests}
<1>1. \A p : Unmet(p)' = Unmet(p)
    BY DEF Unmet, AsksFor, inputs
<1>2. Untrusted' = Untrusted /\ PortError' = PortError
    BY DEF Untrusted, PortError, Bound, inputs
<1> QED BY <1>1, <1>2

\* Every step keeps ErrorIInv: each report is made once and none is lost.
LEMMA NextErrors == ResolveTypeOK /\ SearchIInv /\ ErrorIInv /\ [ResolveNext]_resolveVars => ErrorIInv'
<1> SUFFICES ASSUME ResolveTypeOK, SearchIInv, ErrorIInv, [ResolveNext]_resolveVars PROVE ErrorIInv'
    OBVIOUS
<1>1. ASSUME UNCHANGED <<inputs, toRead, manifests, errors, cycle>>,
             pc \in {"read", "check"} <=> pc' \in {"read", "check"}
      PROVE  ErrorIInv'
  <2>1. Untrusted' = Untrusted /\ Checked' = Checked /\ Ring' = Ring
    BY <1>1, ReportsSame DEF Checked, Ring
  <2> QED BY <1>1, <2>1 DEF ErrorIInv
<1>2. CASE CheckDependencies
  <2>1. Untrusted' = Untrusted /\ Checked' = PortError \cup UNION {Unmet(p) : p \in manifests}
    BY <1>2, ReportsSame DEF CheckDependencies, Checked
  <2>2. Ring' = Ring /\ Checked = {}
    BY <1>2 DEF CheckDependencies, Ring, Checked
  <2> QED BY <1>2, <2>1, <2>2 DEF CheckDependencies, ErrorIInv
<1>3. ASSUME NEW p \in PluginIds, ReadManifest(p) PROVE ErrorIInv'
  <2>1. /\ p \in toRead /\ toRead' = toRead \ {p} /\ Bound' = Bound /\ p \in Bound
        /\ trustedIds' = trustedIds
    BY <1>3 DEF ReadManifest, SearchIInv, ReadInv, inputs, Bound
  <2>2. Untrusted' = Untrusted \cup {<<q, "plugin">> : q \in {p} \ trustedIds}
    BY <2>1 DEF Untrusted
  <2>3. errors' = errors \cup {<<q, "plugin">> : q \in {p} \ trustedIds}
    BY <1>3 DEF ReadManifest
  <2>4. Checked' = {} /\ Checked = {} /\ Ring' = Ring
    BY <1>3 DEF ReadManifest, Checked, Ring
  <2> QED BY <2>2, <2>3, <2>4 DEF ErrorIInv
<1>4. ASSUME NEW n \in PluginIds, FindCycle(n) PROVE ErrorIInv'
  <2>1. Untrusted' = Untrusted /\ Checked' = Checked
    BY <1>4, ReportsSame DEF FindCycle, Checked
  <2>2. cycle = <<>>
    BY <1>4 DEF FindCycle, SearchIInv, DoneInv
  <2>3. cycle' # <<>> /\ cycle'[1] = n
    <3> DEFINE L == Len(path)
               h == Here(n)
               s == SubSeq(path, h, L)
    <3>1. L \in Nat \ {0} /\ h \in 1..L /\ path[h] = n
        BY <1>4, HereType DEF FindCycle, ResolveTypeOK, SearchIInv
    <3> HIDE DEF h
    <3>2. s \in Seq(PluginIds) /\ Len(s) = L - h + 1 /\ s[1] = path[h]
        BY <3>1 DEF ResolveTypeOK
    <3>3. cycle' = Append(s, n)
        BY <1>4 DEF FindCycle, h
    <3> HIDE DEF s, L
    <3>4. Len(s) >= 1 /\ Len(s) \in Nat
        BY <3>1, <3>2
    <3>5. Len(cycle') = Len(s) + 1 /\ cycle'[1] = s[1]
        BY <3>2, <3>3, <3>4
    <3>6. Len(cycle') # 0
        BY <3>4, <3>5
    <3> QED BY <3>1, <3>2, <3>5, <3>6
  <2>4. Ring = {} /\ Ring' = {<<n, "cycle">>} /\ errors' = errors \cup {<<n, "cycle">>}
    BY <1>4, <2>2, <2>3 DEF Ring, FindCycle
  <2> QED BY <2>1, <2>4 DEF ErrorIInv
<1>5. CASE UNCHANGED resolveVars
    BY <1>1, <1>5 DEF resolveVars, inputs
<1>6. CASE ReadDone \/ Leave \/ SearchDone
    BY <1>1, <1>6 DEF ReadDone, Leave, SearchDone, inputs
<1>7. ASSUME NEW p \in PluginIds, VisitRoot(p) \/ Descend(p) \/ PassOver(p) PROVE ErrorIInv'
    BY <1>1, <1>7 DEF VisitRoot, Descend, PassOver, inputs
<1> QED BY <1>2, <1>3, <1>4, <1>5, <1>6, <1>7 DEF ResolveNext

\* A manifest's requirements are met exactly when nothing of it is unmet.
LEMMA UnmetEmpty ==
    ASSUME NEW p \in PluginIds
    PROVE  Unmet(p) = {} <=> /\ <<p, Setting>> \notin deps
                             /\ \A q \in PluginIds : <<p, q>> \in deps => q \in trustedIds
                             /\ \A r \in Roles : <<p, r>> \in deps => roles[r] # NoPlugin
<1>1. \A t \in Targets : t \in AsksFor(p) <=> <<p, t>> \in deps
    BY DEF AsksFor
<1>2. {<<p, "setting">> : t \in AsksFor(p) \cap {Setting}} = {} <=> <<p, Setting>> \notin deps
    BY <1>1 DEF Targets
<1>3. {<<p, "role">> : t \in {r \in AsksFor(p) \cap Roles : roles[r] = NoPlugin}} = {}
        <=> \A r \in Roles : <<p, r>> \in deps => roles[r] # NoPlugin
    BY <1>1 DEF Targets
<1>4. {<<p, "plugin">> : t \in (AsksFor(p) \cap PluginIds) \ trustedIds} = {}
        <=> \A q \in PluginIds : <<p, q>> \in deps => q \in trustedIds
    BY <1>1 DEF Targets
<1>5. Unmet(p) = {} <=>
        /\ {<<p, "setting">> : t \in AsksFor(p) \cap {Setting}} = {}
        /\ {<<p, "role">> : t \in {r \in AsksFor(p) \cap Roles : roles[r] = NoPlugin}} = {}
        /\ {<<p, "plugin">> : t \in (AsksFor(p) \cap PluginIds) \ trustedIds} = {}
    BY DEF Unmet
<1> QED BY <1>2, <1>3, <1>4, <1>5

\* At the end nothing is reported exactly when the reference is satisfied.
LEMMA VerdictFromInv == ResolveTypeOK /\ SearchIInv /\ ErrorIInv => VerdictExact
<1> SUFFICES ASSUME ResolveTypeOK, SearchIInv, ErrorIInv, pc = "done"
             PROVE  errors = {} <=> Satisfied
    BY DEF VerdictExact
<1>1. manifests = Loaded /\ toRead = {} /\ Loaded \in SUBSET PluginIds
    BY DEF SearchIInv, ReadInv, Loaded, ResolveTypeOK
<1>2. Ring = {} <=> Acyclic
    BY ExactFromInv DEF CycleExact, Ring
<1>3. Untrusted = {} <=> Bound \subseteq trustedIds
    BY <1>1 DEF Untrusted
<1>4. PortError = {} <=> mode # "port"
    BY DEF PortError
<1>5. UNION {Unmet(p) : p \in manifests} = {} <=> \A p \in Loaded : Unmet(p) = {}
    BY <1>1
<1>6. Checked = PortError \cup UNION {Unmet(p) : p \in manifests}
    BY DEF Checked
<1>7. errors = {} <=> Untrusted = {} /\ Checked = {} /\ Ring = {}
    BY DEF ErrorIInv
<1>8. Checked = {} <=> PortError = {} /\ UNION {Unmet(p) : p \in manifests} = {}
    BY <1>6
<1>9. \A p \in Loaded :
        Unmet(p) = {} <=> /\ <<p, Setting>> \notin deps
                          /\ \A q \in PluginIds : <<p, q>> \in deps => q \in trustedIds
                          /\ \A r \in Roles : <<p, r>> \in deps => roles[r] # NoPlugin
    BY <1>1, UnmetEmpty
<1> QED BY <1>2, <1>3, <1>4, <1>5, <1>7, <1>8, <1>9 DEF Satisfied

\* The resolve stage passes exactly when every binding is trusted, every
\* manifest read has what it asks for, nothing waits for itself and the mode
\* is implemented, whatever the bindings, manifests and trust records.
THEOREM VerdictIsExact == ResolveSpec => []VerdictExact
<1>1. ResolveInit => ErrorIInv
    BY DEF ResolveInit, ErrorIInv, Untrusted, Checked, Ring
<1>2. ResolveTypeOK /\ SearchIInv /\ ErrorIInv /\ [ResolveNext]_resolveVars => ErrorIInv'
    BY NextErrors
<1> QED BY <1>1, <1>2, SearchInvariant, VerdictFromInv, PTL DEF ResolveSpec

=============================================================================
