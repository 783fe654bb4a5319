------------------------------ MODULE MCCustody ------------------------------
(* Instances of Custody for TLC.                                            *)
EXTENDS Custody, TLC

(* Requests in flight at once are interchangeable.                          *)
RequestSymmetry == Permutations(Requests)
=============================================================================
