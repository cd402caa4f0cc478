------------------------------ MODULE EngineSetup ------------------------------
(***************************************************************************)
(* An Engine over its lifetime (internal/engine/engine.go): NewEngine with *)
(* its options (pkg/gxo/v1/api.go), the setters of EngineV1 called later,  *)
(* and one RunPlaybook after the other.  The task runner, the retry helper *)
(* and the metrics collectors hold copies of what the engine holds, which  *)
(* every setter must keep in step.  Calls do not overlap.                  *)
(***************************************************************************)
EXTENDS Integers, FiniteSets

CONSTANTS
  Values,     \* what a caller passes for a provider or the default timeout
  Keywords,   \* lists of redacted keywords a caller passes, normalised
  Providers,  \* metrics providers, one Prometheus registry each
  NoRegistry, \* those whose Registry() is nil
  Policies,   \* channel policies a caller passes
  Playbooks   \* the sets of tasks of the playbooks run

\* Setters with one body: the value goes to the engine and to its task runner.
Fields == {"stateManager", "secretsProvider", "eventBus", "pluginRegistry", "tracerProvider", "defaultTimeout"}
Strategies == {"", "block", "drop_new", "drop_oldest", "error"}
DefaultBuffer == 100
Unset == -2

ASSUME SetupAssumption ==
  /\ {"nil", "default"} \cap (Values \cup Providers) = {}
  /\ NoRegistry \subseteq Providers
  /\ \A p \in Policies : p \in [buffer : Int, strategy : STRING]

VARIABLES
  phase,      \* "options", "built", "failed" (an error) or "panicked"
  engine,     \* the engine's Fields
  keywords,   \* its redactedKeywords
  policy,     \* its defaultChannelPolicy
  manager,    \* the policy its channelManager works with
  provider,   \* its metricsProvider
  counter,    \* the provider its counters were last registered with
  registries, \* providers whose registry holds the collectors
  runner,     \* the task runner's copies of Fields
  runnerKeywords, helperKeywords, \* those of the task runner and the retry helper
  runnerManager, \* the policy of the task runner's channelManager
  shared,     \* the engine's channelManager is the task runner's
  runnerCounter, \* the provider of its secretsRedactedCounter
  statuses,   \* the tasks of taskStatuses
  contents,   \* the tasks of which each state store holds a status or a result
  report      \* the last report: the playbook, how its run began, the state store, the tasks listed

copyVars    == <<runner, runnerKeywords, helperKeywords, runnerManager, shared>>
metricVars  == <<provider, counter, registries, runnerCounter>>
policyVars  == <<policy, manager, runnerManager, shared>>
reportVars  == <<statuses, contents, report>>
vars == <<phase, engine, keywords, policy, manager, metricVars, copyVars, reportVars>>

NoPolicy == [buffer |-> Unset, strategy |-> ""]
NoReport == [playbook |-> {}, end |-> "none", store |-> "default", tasks |-> {}]
Stores == Values \cup {"default"}
Built == phase = "built"

Init ==
  /\ phase = "options"
  /\ engine = [f \in Fields |-> IF f = "defaultTimeout" THEN "default" ELSE "nil"]
  /\ keywords = {} /\ policy = NoPolicy /\ manager = NoPolicy
  /\ provider = "nil" /\ counter = "nil" /\ registries = {} /\ runnerCounter = "nil"
  /\ runner = [f \in Fields |-> "nil"] /\ runnerKeywords = {} /\ helperKeywords = {}
  /\ runnerManager = NoPolicy /\ shared = FALSE
  /\ statuses = {} /\ contents = [s \in Stores |-> {}] /\ report = NoReport
-----------------------------------------------------------------------------
(* The setters: as options before the engine is built, by callers after.   *)

Open == phase \in {"options", "built"}

\* Defect: the task runner keeps what it was built with.
SetEngineOnly(f, v) ==
  /\ Open /\ engine' = [engine EXCEPT ![f] = v]
  /\ UNCHANGED <<phase, keywords, policy, manager, metricVars, copyVars, reportVars>>

Set(f, v) ==
  /\ Open
  /\ engine' = [engine EXCEPT ![f] = v]
  /\ runner' = IF Built THEN [runner EXCEPT ![f] = v] ELSE runner
  /\ UNCHANGED <<phase, keywords, policy, manager, metricVars, reportVars,
                 runnerKeywords, helperKeywords, runnerManager, shared>>

SetRedactedKeywords(k) ==
  /\ Open
  /\ keywords' = k
  /\ IF Built THEN runnerKeywords' = k /\ helperKeywords' = k ELSE UNCHANGED <<runnerKeywords, helperKeywords>>
  /\ UNCHANGED <<phase, engine, policy, manager, metricVars, reportVars, runner, runnerManager, shared>>

Allowed(p) == p.strategy \in Strategies /\ (p.buffer = Unset \/ p.buffer >= 0)

\* NewChannelManager: what is not set, or not allowed, has a default.
Effective(p) ==
  [buffer |-> IF p.buffer = Unset THEN DefaultBuffer ELSE IF p.buffer < 0 THEN 0 ELSE p.buffer,
   strategy |-> IF p.strategy \in Strategies \ {""} THEN p.strategy ELSE "block"]

\* A built engine gets a new channelManager; the task runner keeps the old one.
SetDefaultChannelPolicy(p) ==
  /\ Open /\ Allowed(p)
  /\ policy' = p
  /\ IF Built THEN manager' = Effective(p) /\ shared' = FALSE ELSE UNCHANGED <<manager, shared>>
  /\ UNCHANGED <<phase, engine, keywords, metricVars, reportVars, runner, runnerKeywords, helperKeywords,
                 runnerManager>>

\* MustRegister panics on a registry that holds a collector of the same name;
\* without a registry, the engine keeps the collectors it has.
InitMetrics(p, after) ==
  IF p \in registries THEN phase' = "panicked" /\ UNCHANGED <<counter, registries>>
  ELSE /\ phase' = after
       /\ IF p \in NoRegistry THEN UNCHANGED <<counter, registries>>
          ELSE counter' = p /\ registries' = registries \cup {p}

SetMetricsRegistryProvider(p) ==
  /\ Open
  /\ provider' = p /\ InitMetrics(p, phase)
  /\ UNCHANGED <<engine, keywords, policy, manager, runnerCounter, copyVars, reportVars>>

\* nil, a negative number, an unknown strategy: an error, and nothing changes
\* unless it is an option, which ends NewEngine.
Refuse ==
  /\ phase = "options" /\ phase' = "failed"
  /\ UNCHANGED <<engine, keywords, policy, manager, metricVars, copyVars, reportVars>>
-----------------------------------------------------------------------------
(* The rest of NewEngine.                                                  *)

OrDefault(v) == IF v = "nil" THEN "default" ELSE v

\* Defect: the task runner gets its counter before the engine has made it.
BuildCounterFirst ==
  /\ phase = "options"
  /\ engine' = [f \in Fields |-> OrDefault(engine[f])] /\ runner' = engine'
  /\ runnerKeywords' = keywords /\ helperKeywords' = keywords
  /\ manager' = Effective(policy) /\ runnerManager' = manager' /\ shared' = TRUE
  /\ provider' = OrDefault(provider) /\ runnerCounter' = counter
  /\ InitMetrics(provider', "built")
  /\ UNCHANGED <<keywords, policy, reportVars>>

Build ==
  /\ phase = "options"
  /\ engine' = [f \in Fields |-> OrDefault(engine[f])] /\ runner' = engine'
  /\ runnerKeywords' = keywords /\ helperKeywords' = keywords
  /\ manager' = Effective(policy) /\ runnerManager' = manager' /\ shared' = TRUE
  /\ provider' = OrDefault(provider) /\ InitMetrics(provider', "built")
  /\ runnerCounter' = IF phase' = "built" THEN counter' ELSE runnerCounter
  /\ UNCHANGED <<keywords, policy, reportVars>>
-----------------------------------------------------------------------------
(* RunPlaybook on a built engine.                                          *)

Store == engine["stateManager"]
Report(pb, end, tasks) == report' = [playbook |-> pb, end |-> end, store |-> Store, tasks |-> tasks]
Idle == UNCHANGED <<phase, engine, keywords, policy, manager, metricVars, copyVars>>

\* A playbook that does not load: what an earlier run left is not reset.
LoadFails(pb) ==
  /\ Built /\ Report(pb, "invalid", statuses)
  /\ UNCHANGED <<statuses, contents>> /\ Idle

\* The state store refuses the playbook's variables, which the default one never
\* does: it keeps what earlier runs left in it.
VarsRefused(pb) ==
  /\ Built /\ Store # "default"
  /\ statuses' = {} /\ Report(pb, "refused", {})
  /\ UNCHANGED contents /\ Idle

Reset == statuses' = {} /\ contents' = [contents EXCEPT ![Store] = {}]

\* Its variables loaded, but the DAG or its channels are refused, or no task.
StartFails(pb) ==
  /\ Built /\ Reset /\ Report(pb, "loaded", {}) /\ Idle

\* Defect: the state and the statuses of an earlier run stay.
RunOnTop(pb) ==
  /\ Built /\ statuses' = statuses \cup pb /\ contents' = [contents EXCEPT ![Store] = @ \cup pb]
  /\ Report(pb, "loaded", statuses') /\ Idle

\* Every task of the DAG gets a status in both, from Pending on.
Run(pb) ==
  /\ Built /\ pb # {}
  /\ statuses' = pb /\ contents' = [contents EXCEPT ![Store] = pb]
  /\ Report(pb, "loaded", pb) /\ Idle
-----------------------------------------------------------------------------
Setter ==
  \/ \E f \in Fields, v \in Values : Set(f, v)
  \/ \E k \in Keywords : SetRedactedKeywords(k)
  \/ \E p \in Policies : SetDefaultChannelPolicy(p)
  \/ \E p \in Providers : SetMetricsRegistryProvider(p)
RunPlaybook == \E pb \in Playbooks : LoadFails(pb) \/ VarsRefused(pb) \/ StartFails(pb) \/ Run(pb)
Ended == phase \in {"failed", "panicked"} /\ UNCHANGED vars

Next == Setter \/ Refuse \/ Build \/ RunPlaybook \/ Ended

Spec == Init /\ [][Next]_vars
=============================================================================
