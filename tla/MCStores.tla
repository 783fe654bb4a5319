------------------------------ MODULE MCStores ------------------------------
(* Three parts side by side: the key and the audit log (Custody), the       *)
(* accounts and sessions of the web UI (FirstRun), one resolve stage        *)
(* (Resolve).  They share no state; one of them moves, the others stay as   *)
(* they began.                                                              *)
EXTENDS MCCustody, MCFirstRun, MCResolve

VARIABLE part
storesVars == <<part, vars, firstRunVars, resolveVars>>

(* At rest the framework document binds nothing and no plugin asks for      *)
(* anything.                                                                *)
NothingBound ==
    /\ roles = Bind(NoPlugin, NoPlugin, NoPlugin) /\ deps = {}
    /\ mode = "subdomain" /\ readable = PluginIds

StoresInit ==
    \/ part \in {"custody", "first run"} /\ NothingBound /\ ResolveInit /\ Init /\ FirstRunInit
    \/ part = "resolve" /\ DocumentInit /\ Init /\ FirstRunInit

StoresNext ==
    \/ part = "custody" /\ Next /\ UNCHANGED <<part, firstRunVars, resolveVars>>
    \/ part = "first run" /\ FirstRunNext /\ UNCHANGED <<part, vars, resolveVars>>
    \/ part = "resolve" /\ ResolveNext /\ UNCHANGED <<part, vars, firstRunVars>>

StoresSpec == StoresInit /\ [][StoresNext]_storesVars

(* Bound: at most two of a failing append, a torn one, a crash and an       *)
(* import in one behaviour, whatever rotations there are.                   *)
Mishaps == (MaxFailed - budget.failed) + (MaxTorn - budget.torn)
           + (MaxCrashes - budget.crashes) + (MaxImports - budget.imports)

(* Bound: at most four of the wizard's runs, the sessions and the ticks.    *)
Events == runs + Len(sessions) + now

Few == Mishaps <= 2 /\ Events <= 4

(* One group for all: the configuration takes the requests of Custody from  *)
(* the browsers.  Sound: only safety is checked, and nothing singles out a  *)
(* request, a browser or a terminal.                                        *)
StoresSymmetry == Alike
=============================================================================
