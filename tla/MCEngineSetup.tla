----------------------------- MODULE MCEngineSetup -----------------------------
(* One value a caller passes for each field beside the default, two        *)
(* metrics providers, one of them without a registry, two playbooks that   *)
(* share a task.                                                           *)
EXTENDS EngineSetupProperties

CONSTANTS custom, prometheus, unregistered, password, token, fetch, parse, store

MCPlaybooks == {{}, {fetch, parse}, {parse, store}}
MCKeywords == {{password}, {token}}
MCPolicies == {[buffer |-> 0, strategy |-> ""], [buffer |-> -1, strategy |-> "block"],
               [buffer |-> -2, strategy |-> "drop_new"], [buffer |-> 5, strategy |-> "newest"]}
=============================================================================
