----------------------------- MODULE MCResolve -----------------------------
(* Model checking instance of Resolve: every framework document with three  *)
(* roles over three plugins, up to MaxFaults of them untrusted or without a *)
(* manifest, and every choice of at most MaxDeps dependencies.              *)
EXTENDS Resolve, TLC

CONSTANTS p1, p2, p3, r1, r2, r3
MCPlugins == {p1, p2, p3}
MCRoles == {r1, r2, r3}

(* The roles' bindings, up to the names of roles and of plugins: which      *)
(* roles share a plugin, and which have none.                               *)
Bind(x, y, z) == (r1 :> x) @@ (r2 :> y) @@ (r3 :> z)
Bindings ==
    {Bind(NoPlugin, NoPlugin, NoPlugin), Bind(p1, NoPlugin, NoPlugin), Bind(p1, p1, NoPlugin),
     Bind(p1, p2, NoPlugin), Bind(p1, p1, p1), Bind(p1, p1, p2), Bind(p1, p2, p3)}
DocumentInit == roles \in Bindings /\ ResolveInit
DocumentSpec == DocumentInit /\ [][ResolveNext]_resolveVars
=============================================================================
