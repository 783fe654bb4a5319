------------------------------ MODULE MCTrust ------------------------------
(* A small instance of Trust: a plugin uploaded once and built in twice,   *)
(* in the same version with other content and in the next version.  The    *)
(* specs ask for a device of the uploaded content and for a path that      *)
(* climbs out of its directory.                                            *)
EXTENDS Trust

image == <<"docker.image.pull", {<<"*">>}>>
dri == <<"docker.device", {<<"dev", "dri", "*">>}>>
port == <<"docker.ports.publish", {80}>>

MCBundles == {"a1", "b1", "b2"}
MCId == [b \in MCBundles |-> "deploy"]
MCVersion == [b \in MCBundles |-> IF b = "b2" THEN 2 ELSE 1]
MCCaps == ("a1" :> {image, dri}) @@ ("b1" :> {image}) @@ ("b2" :> {image, port})

Alike == Permutations(Reqs) \cup Permutations(Uploads)

MCSpecs == {
    {<<"docker.image.pull", <<"app">>>>, <<"docker.device", <<"dev", "dri", "", "card0">>>>,
     <<"docker.volume.named", Own>>},
    {<<"docker.image.pull", <<"app">>>>, <<"docker.device", <<"dev", "dri", "..", "sda">>>>}}
=============================================================================
