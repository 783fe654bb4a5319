------------------------------ MODULE Resolve ------------------------------
(***************************************************************************)
(* The resolve stage: one call of resolveDependencies                      *)
(* (packages/orchestrator/src/dependency-resolution/resolve.ts).           *)
(*                                                                         *)
(* The role bindings of the framework document name plugins; the call      *)
(* takes one snapshot of the trust records, reads the manifest of every    *)
(* bound plugin (an awaited read each, so in the order of the bindings and *)
(* possibly failing), checks what each manifest asks for and looks for a   *)
(* cycle with a depth first search.  The search is modelled at the grain   *)
(* of its loop, with the recursion of visit() as an explicit path, because *)
(* what can be wrong in it is the colouring.                               *)
(***************************************************************************)
EXTENDS Integers, Sequences, FiniteSets

CONSTANTS PluginIds,    \* plugin ids
          Roles,        \* role names of the framework document
          NoPlugin,     \* a role that is not bound
          Setting,      \* a required setting the framework document lacks
          MaxDeps,      \* bound: declared dependencies among all manifests
          MaxFaults     \* bound: plugins untrusted or without a manifest

ASSUME NoPluginAssumption == NoPlugin \notin PluginIds
ASSUME TargetsAssumption ==
    /\ PluginIds \cap Roles = {}
    /\ Setting \notin PluginIds \cup Roles

VARIABLES deps,        \* manifests: <<plugin, what it asks for>>
          roles,       \* the framework document's role bindings
          mode,        \* its deploymentMode
          trustedIds,  \* plugins with a live trust record, at the call
          readable,    \* those of them whose manifest.json can be read
          pc,          \* "read", "check", "search", "done"
          toRead,      \* bound plugins whose manifest is still to be read
          manifests,   \* keys of manifestsByPluginId
          errors,      \* the errors reported, as <<plugin, kind>>
          color,       \* WHITE, GRAY, BLACK of the search
          path,        \* the nodes visit() is inside of
          todo,        \* edges each of those has not looked at yet
          cycle        \* the cycle reported, or <<>>

inputs == <<deps, roles, mode, trustedIds, readable>>
resolveVars == <<inputs, pc, toRead, manifests, errors, color, path, todo, cycle>>

WHITE == 0
GRAY == 1
BLACK == 2

Targets == PluginIds \cup Roles \cup {Setting}
AsksFor(p) == {t \in Targets : <<p, t>> \in deps}

\* Object.values(roles)
Bound == {roles[r] : r \in Roles} \ {NoPlugin}

\* The graph detectCycle() builds: a bound plugin with a manifest points at
\* the plugins it names and at the holders of the roles it names.  The first
\* form is wrong on purpose: it leaves the roles out.
EdgesPluginsOnly(p) == IF p \in manifests THEN AsksFor(p) \cap PluginIds ELSE {}

Edges(p) ==
    IF p \in manifests
    THEN (AsksFor(p) \cap PluginIds)
           \cup {roles[r] : r \in {q \in Roles : q \in AsksFor(p) /\ roles[q] # NoPlugin}}
    ELSE {}

\* Any MaxDeps dependencies, or fewer.
SomeDeps ==
    {{}} \cup {{f[i] : i \in 1..MaxDeps} : f \in [1..MaxDeps -> PluginIds \X Targets]}

ResolveInit ==
    /\ deps \in SomeDeps
    /\ roles \in [Roles -> PluginIds \cup {NoPlugin}]
    /\ mode \in {"subdomain", "port"}
    /\ trustedIds \in SUBSET PluginIds
    /\ readable \in SUBSET trustedIds
    /\ Cardinality(PluginIds \ readable) <= MaxFaults
    /\ pc = "read"
    /\ toRead = Bound
    /\ manifests = {}
    /\ errors = {}
    /\ color = [p \in PluginIds |-> WHITE]
    /\ path = <<>>
    /\ todo = [p \in PluginIds |-> {}]
    /\ cycle = <<>>

-----------------------------------------------------------------------------

\* One turn of the loop over the bound plugins: an untrusted one is an
\* error, an unreadable manifest is skipped without one.
ReadManifest(p) ==
    /\ pc = "read" /\ p \in toRead
    /\ toRead' = toRead \ {p}
    /\ errors' = IF p \in trustedIds THEN errors ELSE errors \cup {<<p, "plugin">>}
    /\ manifests' = IF p \in trustedIds \cap readable THEN manifests \cup {p} ELSE manifests
    /\ UNCHANGED <<inputs, pc, color, path, todo, cycle>>

ReadDone ==
    /\ pc = "read" /\ toRead = {}
    /\ pc' = "check"
    /\ UNCHANGED <<inputs, toRead, manifests, errors, color, path, todo, cycle>>

\* What the manifests read ask for and do not get.
PortError == IF mode = "port" THEN {<<NoPlugin, "unimplemented">>} ELSE {}
\* Wrong on purpose: asks whether the required plugin is bound, not trusted.
UnmetIfUnbound(p) ==
    {<<p, "setting">> : t \in AsksFor(p) \cap {Setting}}
      \cup {<<p, "role">> : t \in {r \in AsksFor(p) \cap Roles : roles[r] = NoPlugin}}
      \cup {<<p, "plugin">> : t \in (AsksFor(p) \cap PluginIds) \ Bound}

Unmet(p) ==
    {<<p, "setting">> : t \in AsksFor(p) \cap {Setting}}
      \cup {<<p, "role">> : t \in {r \in AsksFor(p) \cap Roles : roles[r] = NoPlugin}}
      \cup {<<p, "plugin">> : t \in (AsksFor(p) \cap PluginIds) \ trustedIds}

CheckDependencies ==
    /\ pc = "check"
    /\ errors' = errors \cup PortError \cup UNION {Unmet(p) : p \in manifests}
    /\ pc' = "search"
    /\ UNCHANGED <<inputs, toRead, manifests, color, path, todo, cycle>>

Enter(n) ==
    /\ color' = [color EXCEPT ![n] = GRAY]
    /\ path' = Append(path, n)

\* The outer loop of detectCycle(): a node of the graph not seen yet.
VisitRoot(n) ==
    /\ pc = "search" /\ path = <<>>
    /\ n \in manifests /\ color[n] = WHITE
    /\ Enter(n)
    /\ todo' = [todo EXCEPT ![n] = Edges(n)]
    /\ UNCHANGED <<inputs, pc, toRead, manifests, errors, cycle>>

Top == path[Len(path)]
Here(n) == CHOOSE i \in 1..Len(path) : path[i] = n

\* One edge of the node being visited leads back into the path.
FindCycle(n) ==
    /\ pc = "search" /\ path # <<>>
    /\ n \in todo[Top] /\ color[n] = GRAY
    /\ cycle' = Append(SubSeq(path, Here(n), Len(path)), n)
    /\ errors' = errors \cup {<<n, "cycle">>}
    /\ pc' = "done"
    /\ UNCHANGED <<inputs, toRead, manifests, color, path, todo>>

\* ... leads to a node that was not seen yet.
Descend(n) ==
    /\ pc = "search" /\ path # <<>>
    /\ n \in todo[Top] /\ color[n] = WHITE
    /\ Enter(n)
    /\ todo' = [todo EXCEPT ![Top] = @ \ {n}, ![n] = Edges(n)]
    /\ UNCHANGED <<inputs, pc, toRead, manifests, errors, cycle>>

\* ... leads to a node that is finished.
PassOver(n) ==
    /\ pc = "search" /\ path # <<>>
    /\ n \in todo[Top] /\ color[n] = BLACK
    /\ todo' = [todo EXCEPT ![Top] = @ \ {n}]
    /\ UNCHANGED <<inputs, pc, toRead, manifests, errors, color, path, cycle>>

\* visit() returns without a cycle.
Leave ==
    /\ pc = "search" /\ path # <<>> /\ todo[Top] = {}
    /\ color' = [color EXCEPT ![Top] = BLACK]
    /\ path' = SubSeq(path, 1, Len(path) - 1)
    /\ UNCHANGED <<inputs, pc, toRead, manifests, errors, todo, cycle>>

SearchDone ==
    /\ pc = "search" /\ path = <<>>
    /\ \A n \in manifests : color[n] # WHITE
    /\ pc' = "done"
    /\ UNCHANGED <<inputs, toRead, manifests, errors, color, path, todo, cycle>>

ResolveNext ==
    \/ ReadDone \/ CheckDependencies \/ Leave \/ SearchDone
    \/ \E p \in PluginIds :
         ReadManifest(p) \/ VisitRoot(p) \/ FindCycle(p) \/ Descend(p) \/ PassOver(p)

ResolveSpec == ResolveInit /\ [][ResolveNext]_resolveVars

-----------------------------------------------------------------------------

Kinds == {"setting", "role", "plugin", "cycle", "unimplemented"}

\* Types of the variables.
ResolveTypeOK ==
    /\ deps \in SUBSET (PluginIds \X Targets)
    /\ roles \in [Roles -> PluginIds \cup {NoPlugin}]
    /\ mode \in {"subdomain", "port"}
    /\ trustedIds \in SUBSET PluginIds
    /\ readable \in SUBSET PluginIds
    /\ pc \in {"read", "check", "search", "done"}
    /\ toRead \in SUBSET PluginIds
    /\ manifests \in SUBSET PluginIds
    /\ errors \in SUBSET ((PluginIds \cup {NoPlugin}) \X Kinds)
    /\ color \in [PluginIds -> {WHITE, GRAY, BLACK}]
    /\ path \in Seq(PluginIds)
    /\ todo \in [PluginIds -> SUBSET PluginIds]
    /\ cycle \in Seq(PluginIds)

\* The reference: among the bound plugins whose manifest the call could
\* read, q has to be there before p.
Loaded == Bound \cap trustedIds \cap readable
EnteredBefore(p, q) ==
    /\ p \in Loaded
    /\ \/ <<p, q>> \in deps
       \/ \E r \in Roles : <<p, r>> \in deps /\ roles[r] = q

\* No set of plugins in which each waits for another one of the set.
Acyclic ==
    \A S \in SUBSET PluginIds :
        S # {} => \E p \in S : \A q \in S : ~EnteredBefore(p, q)

\* The depth first search reports a cycle exactly when the plugins wait for
\* each other in a ring: no ring is missed because a node was coloured too
\* early, none is invented because two paths meet.
CycleExact == pc = "done" => ((cycle = <<>>) <=> Acyclic)

\* The cycle in the error message is one: it starts and ends at the same
\* plugin and every step of it is a dependency.
CycleIsReal ==
    cycle # <<>> =>
        /\ Len(cycle) > 1
        /\ cycle[1] = cycle[Len(cycle)]
        /\ \A i \in 1..(Len(cycle) - 1) : EnteredBefore(cycle[i], cycle[i + 1])

\* resolveDependencies: "a role binding whose transitive dependencies fail
\* is rejected whole".  When the stage passes, the bound plugins belong to a
\* set of trusted plugins that has all that its members ask for.  The code
\* reads the manifests of bound plugins only.
TransitivelySatisfied ==
    pc = "done" /\ errors = {} =>
        \E S \in SUBSET trustedIds :
            /\ Bound \subseteq S
            /\ \A p \in S :
                 /\ <<p, Setting>> \notin deps
                 /\ \A q \in PluginIds : <<p, q>> \in deps => q \in S
                 /\ \A r \in Roles : <<p, r>> \in deps => roles[r] # NoPlugin

\* What the stage does check, of the bound plugins and of nothing behind
\* them: it passes exactly when every binding is trusted, every manifest of
\* a bound plugin that could be read has what it asks for, none of these
\* waits for itself and the mode is implemented, so that a missing
\* dependency is found whichever of the other checks failed or passed
\* before it.
Satisfied ==
    /\ mode # "port"
    /\ Bound \subseteq trustedIds
    /\ \A p \in Loaded :
         /\ <<p, Setting>> \notin deps
         /\ \A q \in PluginIds : <<p, q>> \in deps => q \in trustedIds
         /\ \A r \in Roles : <<p, r>> \in deps => roles[r] # NoPlugin
    /\ Acyclic
VerdictExact == pc = "done" => ((errors = {}) <=> Satisfied)

-----------------------------------------------------------------------------

\* What the search keeps true, and why it is exact: the gray nodes are the
\* path and the path follows edges; a black node has only black successors,
\* and no set of black nodes waits for itself.
Onto(p) == \E i \in 1..Len(path) : path[i] = p
ReadInv ==
    /\ toRead \subseteq Bound
    /\ manifests = (Bound \ toRead) \cap trustedIds \cap readable
    /\ pc # "read" => toRead = {}
    /\ pc \in {"read", "check"} =>
         path = <<>> /\ cycle = <<>> /\ \A p \in PluginIds : color[p] = WHITE
PathInv ==
    /\ \A p \in PluginIds : color[p] = GRAY <=> Onto(p)
    /\ \A i, j \in 1..Len(path) : path[i] = path[j] => i = j
    /\ \A i \in 1..(Len(path) - 1) : path[i + 1] \in Edges(path[i])
TodoInv ==
    \A i \in 1..Len(path) :
        /\ todo[path[i]] \subseteq Edges(path[i])
        /\ \A q \in Edges(path[i]) \ todo[path[i]] :
             color[q] = BLACK \/ (i < Len(path) /\ q = path[i + 1])
BlackInv ==
    /\ \A p \in PluginIds : color[p] = BLACK => \A q \in Edges(p) : color[q] = BLACK
    /\ \A S \in SUBSET PluginIds :
         (S # {} /\ \A p \in S : color[p] = BLACK) =>
            \E p \in S : \A q \in S : q \notin Edges(p)
DoneInv ==
    /\ (pc = "done" /\ cycle = <<>>) =>
         path = <<>> /\ \A n \in manifests : color[n] # WHITE
    /\ cycle # <<>> =>
         /\ pc = "done"
         /\ Len(cycle) > 1
         /\ cycle[1] = cycle[Len(cycle)]
         /\ \A i \in 1..(Len(cycle) - 1) : cycle[i + 1] \in Edges(cycle[i])

\* The inductive invariant behind CycleExact and CycleIsReal.
SearchIInv == ReadInv /\ PathInv /\ TodoInv /\ BlackInv /\ DoneInv

\* Behind VerdictExact: what is reported at any moment, no more and no less.
Untrusted == {<<p, "plugin">> : p \in (Bound \ toRead) \ trustedIds}
Checked == IF pc \in {"read", "check"} THEN {}
           ELSE PortError \cup UNION {Unmet(p) : p \in manifests}
Ring == IF cycle = <<>> THEN {} ELSE {<<cycle[1], "cycle">>}
ErrorIInv == errors = Untrusted \cup Checked \cup Ring

=============================================================================
