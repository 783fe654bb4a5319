----------------------------- MODULE MCFirstRun -----------------------------
(* Two shells that may run the wizard at the same time, and two browsers.  *)
EXTENDS FirstRun, TLC

CONSTANTS term1, term2, anna, ben
MCTerminals == {term1, term2}
MCBrowsers == {anna, ben}
Alike == Permutations(MCTerminals) \cup Permutations(MCBrowsers)
=============================================================================
