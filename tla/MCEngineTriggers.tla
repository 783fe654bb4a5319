--------------------------- MODULE MCEngineTriggers ---------------------------
(* A three-stage pipeline whose second stage plays RENEWAL.                *)
EXTENDS EngineTriggers

MCDegrading == {2}
=============================================================================
