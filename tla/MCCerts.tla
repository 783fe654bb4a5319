------------------------------- MODULE MCCerts -------------------------------
(* Small instances of Certs.                                               *)
EXTENDS Certs

(* The backoff of the instances: one tick, then two.                       *)
MCBackoff == <<1, 2>>
==============================================================================
