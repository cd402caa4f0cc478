------------------------- MODULE EngineSetupProperties -------------------------
(* What an engine promises whatever options, setters and runs it has seen. *)
EXTENDS EngineSetup

\* Types of the state.
TypeOK ==
  /\ phase \in {"options", "built", "failed", "panicked"}
  /\ engine \in [Fields -> Values \cup {"nil", "default"}]
  /\ runner \in [Fields -> Values \cup {"nil", "default"}]
  /\ keywords \in Keywords \cup {{}} /\ runnerKeywords \in Keywords \cup {{}}
  /\ helperKeywords \in Keywords \cup {{}}
  /\ {provider, counter, runnerCounter} \subseteq Providers \cup {"nil", "default"}
  /\ registries \subseteq Providers \cup {"default"} /\ shared \in BOOLEAN
  /\ contents \in [Stores -> SUBSET UNION Playbooks] /\ statuses \subseteq UNION Playbooks

\* The task runner and the retry helper work with what the engine was last
\* given (engine.go:158-174, 1024-1155): the fields and the redacted keywords.
\* The channel manager is in step only while both share one: after
\* SetDefaultChannelPolicy (engine.go:1118) nothing is said of the runner's.
RunnerInStep ==
  Built =>
    /\ runner = engine /\ "nil" \notin {engine[f] : f \in Fields}
    /\ runnerKeywords = keywords /\ helperKeywords = keywords
    /\ manager = Effective(policy)
    /\ shared => runnerManager = manager

\* The provider the engine was given last holds the engine's collectors, if it
\* has a registry, and the counter the task runner increments is one a registry
\* exposes, unless NewEngine found none (engine.go:176-177, 186-195).  After
\* SetMetricsRegistryProvider it need not be the engine's counter.
CollectorsInStep ==
  Built =>
    /\ provider \in NoRegistry \/ (counter = provider /\ provider \in registries)
    /\ runnerCounter \in registries \/ (runnerCounter = "nil" /\ "default" \notin registries)

\* A run whose playbook is valid reports its own tasks only, and one whose
\* variables were loaded leaves no other task's status or result in the state
\* store, though the engine and the store were used before (engine.go:329-338, 947).
ReportsOwn ==
  /\ report.end \in {"refused", "loaded"} =>
       report.tasks \subseteq report.playbook /\ statuses \subseteq report.playbook
  /\ report.end = "loaded" => contents[report.store] \subseteq report.playbook
=============================================================================
