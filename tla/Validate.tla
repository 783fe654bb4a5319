------------------------------ MODULE Validate ------------------------------
(***************************************************************************)
(* VALIDATE's field check of a container spec against a plugin's grants    *)
(* (validate-plan.ts, scope-matcher.ts, projection.ts), as operators.      *)
(*                                                                         *)
(* A spec is the set of what it asks for, each a <<capability, value>>; a  *)
(* grant is a <<capability, scope>>.  A path is the list of what stands    *)
(* between its slashes, so a trailing "/*" of a pattern is its last        *)
(* element; a name is a list the same way.                                 *)
(***************************************************************************)
EXTENDS Sequences, SequencesExt

Up == ".."
Dot == "."
Gap == ""       \* between two adjacent slashes
Star == "*"
Relative == "relative"   \* first element of a path without a leading slash

NoPath == <<Up>>         \* canonicalizePath's null

\* Wrong on purpose: lets a path climb.
CanonicalizePathUpward(p) ==
    IF p # <<>> /\ Head(p) = Relative THEN NoPath ELSE SelectSeq(p, LAMBDA s : s # Gap)

CanonicalizePath(p) ==
    LET segments == SelectSeq(p, LAMBDA s : s # Gap)
    IN  IF \/ p # <<>> /\ Head(p) = Relative
           \/ \E i \in DOMAIN segments : segments[i] \in {Up, Dot}
        THEN NoPath
        ELSE segments

MatchPathGlob(pattern, path) ==
    LET glob == pattern # <<>> /\ Last(pattern) = Star
        dir == CanonicalizePath(IF glob THEN Front(pattern) ELSE pattern)
        p == CanonicalizePath(path)
    IN  /\ p # NoPath /\ dir # NoPath
        /\ IF glob THEN IsPrefix(dir, p) ELSE p = dir

MatchNamePrefix(pattern, name) ==
    \/ pattern = <<Star>>
    \/ pattern = name
    \/ /\ Len(pattern) > 1 /\ Last(pattern) = Star
       /\ IsStrictPrefix(Front(pattern), name)

\* matchPortRange: one grant has to cover every port of the spec.
MatchPorts(scope, ports) == ports \subseteq scope

ScopeMatches(cap, scope, value) ==
    CASE cap = "docker.image.pull" -> \E p \in scope : MatchNamePrefix(p, value)
      [] cap \in {"docker.mount.bind", "docker.device"} ->
            \E p \in scope : MatchPathGlob(p, value)
      [] cap = "docker.capabilities" -> value \in scope
      [] cap = "docker.ports.publish" -> MatchPorts(scope, value)
      [] cap \in {"docker.network.host", "docker.privileged"} -> TRUE

\* Wrong on purpose: the capability is enough.
HasGrantAnyScope(grants, cap, value) == \E g \in grants : g[1] = cap

HasGrant(grants, cap, value) ==
    \E g \in grants : g[1] = cap /\ ScopeMatches(cap, g[2], value)

\* Own volumes and the service's own network need no grant, others are
\* refused whatever the grants.  A volume counts as own when its name begins
\* with wanfw_<serviceId>: one of a service whose id begins with this one's
\* does too, and is Own here.
Structural == {"docker.volume.named", "docker.network.attach"}
Own == "own"

Violations(spec, grants) ==
    {ask \in spec :
        IF ask[1] \in Structural THEN ask[2] # Own
        ELSE \/ ask[1] = "docker.device" /\ ~(Len(ask[2]) > 1 /\ Head(ask[2]) = "dev")
             \/ ~HasGrant(grants, ask[1], ask[2])}

-----------------------------------------------------------------------------
(* What the fields mean to the kernel, for the properties.                 *)

\* The directory a path leads to: "..", ".", and empty segments resolved.
Resolved(p) ==
    FoldLeft(LAMBDA at, s : CASE s = Up -> IF at = <<>> THEN at ELSE Front(at)
                              [] s \in {Dot, Gap} -> at
                              [] OTHER -> Append(at, s), <<>>, p)

\* The declared scope reaches the value.
Reaches(cap, scope, value) ==
    CASE cap \in {"docker.mount.bind", "docker.device"} ->
            \E p \in scope :
               IF p # <<>> /\ Last(p) = Star THEN IsPrefix(Front(p), Resolved(value))
               ELSE p = Resolved(value)
      [] OTHER -> ScopeMatches(cap, scope, value)

Declared(caps, ask) ==
    \/ ask[1] \in Structural
    \/ \E c \in caps : c[1] = ask[1] /\ Reaches(ask[1], c[2], ask[2])
=============================================================================
