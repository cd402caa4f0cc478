--------------------------- MODULE EngineSetupProofs ---------------------------
(* What EngineSetupProperties states of an engine, proved for every set of *)
(* values, providers, policies and playbooks, and every order of calls.    *)
EXTENDS EngineSetupProperties, TLAPS

-----------------------------------------------------------------------------
\* The state keeps its types: no setter, build or run takes a field, a registry
\* or a store outside what callers pass and the defaults (engine.go:61-180).
THEOREM TypesKept == Spec => []TypeOK
<1>1. Init => TypeOK
  BY DEF Init, TypeOK, Stores, Fields
<1>2. TypeOK /\ [Next]_vars => TypeOK'
  <2> SUFFICES ASSUME TypeOK, [Next]_vars PROVE TypeOK'
    OBVIOUS
  <2> USE DEF TypeOK
  <2>1. ASSUME NEW f \in Fields, NEW v \in Values, Set(f, v) PROVE TypeOK'
    BY <2>1 DEF Set, Open, Built, metricVars, reportVars
  <2>2. ASSUME NEW k \in Keywords, SetRedactedKeywords(k) PROVE TypeOK'
    BY <2>2 DEF SetRedactedKeywords, Open, Built, metricVars, reportVars
  <2>3. ASSUME NEW p \in Policies, SetDefaultChannelPolicy(p) PROVE TypeOK'
    BY <2>3 DEF SetDefaultChannelPolicy, Open, Built, metricVars, reportVars
  <2>4. ASSUME NEW p \in Providers, SetMetricsRegistryProvider(p) PROVE TypeOK'
    BY <2>4 DEF SetMetricsRegistryProvider, InitMetrics, Open, copyVars, reportVars
  <2>5. CASE Refuse
    BY <2>5 DEF Refuse, metricVars, copyVars, reportVars
  <2>6. CASE Build
    <3>1. provider' \in Providers \cup {"default"}
      BY <2>6 DEF Build, OrDefault
    <3> QED
      BY <2>6, <3>1 DEF Build, InitMetrics, OrDefault, reportVars
  <2>7. ASSUME NEW pb \in Playbooks, LoadFails(pb) \/ VarsRefused(pb) \/ StartFails(pb) \/ Run(pb) PROVE TypeOK'
    BY <2>7 DEF LoadFails, VarsRefused, StartFails, Run, Reset, Report, Idle, Built, metricVars, copyVars
  <2>8. CASE UNCHANGED vars
    BY <2>8 DEF vars, metricVars, copyVars, reportVars
  <2> QED
    BY <2>1, <2>2, <2>3, <2>4, <2>5, <2>6, <2>7, <2>8 DEF Next, Setter, RunPlaybook, Ended
<1> QED
  BY <1>1, <1>2, PTL DEF Spec
-----------------------------------------------------------------------------
\* The task runner's copies of the engine's fields, and its and the retry
\* helper's redacted keywords, agree with the engine after every setter
\* (engine.go:158-174, 1024-1155), and of a built engine no field is nil.  The
\* channel manager is covered only while both share one.
THEOREM CopiesInStep == Spec => []RunnerInStep
<1>1. Init => RunnerInStep
  BY DEF Init, RunnerInStep, Built
<1>2. TypeOK /\ RunnerInStep /\ [Next]_vars => RunnerInStep'
  <2> SUFFICES ASSUME TypeOK, RunnerInStep, [Next]_vars PROVE RunnerInStep'
    OBVIOUS
  <2> USE DEF RunnerInStep, Built
  <2>1. ASSUME NEW f \in Fields, NEW v \in Values, Set(f, v) PROVE RunnerInStep'
    BY <2>1, SetupAssumption DEF Set, Open, TypeOK, metricVars, reportVars
  <2>2. ASSUME NEW k \in Keywords, SetRedactedKeywords(k) PROVE RunnerInStep'
    BY <2>2 DEF SetRedactedKeywords, Open, metricVars, reportVars
  <2>3. ASSUME NEW p \in Policies, SetDefaultChannelPolicy(p) PROVE RunnerInStep'
    BY <2>3 DEF SetDefaultChannelPolicy, Open, metricVars, reportVars
  <2>4. ASSUME NEW p \in Providers, SetMetricsRegistryProvider(p) PROVE RunnerInStep'
    BY <2>4 DEF SetMetricsRegistryProvider, InitMetrics, Open, copyVars, reportVars
  <2>5. CASE Refuse
    BY <2>5 DEF Refuse
  <2>6. CASE Build
    <3>1. \A f \in Fields : engine'[f] # "nil"
      BY <2>6 DEF Build, OrDefault
    <3> QED
      BY <2>6, <3>1 DEF Build, reportVars
  <2>7. ASSUME NEW pb \in Playbooks, LoadFails(pb) \/ VarsRefused(pb) \/ StartFails(pb) \/ Run(pb) PROVE RunnerInStep'
    BY <2>7 DEF LoadFails, VarsRefused, StartFails, Run, Idle, metricVars, copyVars
  <2>8. CASE UNCHANGED vars
    BY <2>8 DEF vars, metricVars, copyVars, reportVars
  <2> QED
    BY <2>1, <2>2, <2>3, <2>4, <2>5, <2>6, <2>7, <2>8 DEF Next, Setter, RunPlaybook, Ended
<1> QED
  BY <1>1, <1>2, TypesKept, PTL DEF Spec
-----------------------------------------------------------------------------
\* Before NewEngine has run to its end, the counter of an option's provider is
\* in its registry, and nobody has used the default provider.
NotBuiltYet ==
  phase = "options" => "default" \notin registries /\ counter \in registries \cup {"nil"}

\* The provider the engine was given last holds its collectors, if it has a
\* registry, and the task runner's counter is one some registry exposes, unless
\* NewEngine found none (engine.go:176-177, 186-195, 1073).
THEOREM CollectorsRegistered == Spec => []CollectorsInStep
<1>1. Init => CollectorsInStep /\ NotBuiltYet
  BY DEF Init, CollectorsInStep, NotBuiltYet, Built
<1>2. CollectorsInStep /\ NotBuiltYet /\ [Next]_vars => CollectorsInStep' /\ NotBuiltYet'
  <2> SUFFICES ASSUME CollectorsInStep, NotBuiltYet, [Next]_vars
               PROVE  CollectorsInStep' /\ NotBuiltYet'
    OBVIOUS
  <2> USE DEF CollectorsInStep, NotBuiltYet, Built
  <2>1. CASE UNCHANGED <<phase, metricVars>>
    BY <2>1 DEF metricVars
  <2>2. ASSUME NEW p \in Providers, SetMetricsRegistryProvider(p) PROVE CollectorsInStep' /\ NotBuiltYet'
    <3>1. p # "default"
      BY SetupAssumption
    <3>2. /\ phase \in {"options", "built"} /\ provider' = p /\ runnerCounter' = runnerCounter
          /\ registries \subseteq registries' /\ ("default" \in registries' => "default" \in registries)
      BY <2>2, <3>1 DEF SetMetricsRegistryProvider, InitMetrics, Open
    <3>3. CASE p \in registries
      BY <2>2, <3>3 DEF SetMetricsRegistryProvider, InitMetrics
    <3>4. CASE p \notin registries
      BY <2>2, <3>2, <3>4 DEF SetMetricsRegistryProvider, InitMetrics
    <3> QED
      BY <3>3, <3>4
  <2>3. CASE Refuse
    BY <2>3 DEF Refuse
  <2>4. CASE Build
    <3>1. "default" \notin NoRegistry
      BY SetupAssumption
    <3>2. "default" \notin registries /\ counter \in registries \cup {"nil"}
      BY <2>4 DEF Build
    <3>3. CASE provider' \in registries
      BY <2>4, <3>3 DEF Build, InitMetrics
    <3>4. CASE provider' \notin registries /\ provider' \in NoRegistry
      BY <2>4, <3>1, <3>2, <3>4 DEF Build, InitMetrics
    <3>5. CASE provider' \notin registries /\ provider' \notin NoRegistry
      BY <2>4, <3>5 DEF Build, InitMetrics
    <3> QED
      BY <3>3, <3>4, <3>5
  <2>5. ASSUME NEW f \in Fields, NEW v \in Values, Set(f, v) PROVE CollectorsInStep' /\ NotBuiltYet'
    BY <2>1, <2>5 DEF Set
  <2>6. ASSUME NEW k \in Keywords, SetRedactedKeywords(k) PROVE CollectorsInStep' /\ NotBuiltYet'
    BY <2>1, <2>6 DEF SetRedactedKeywords
  <2>7. ASSUME NEW p \in Policies, SetDefaultChannelPolicy(p) PROVE CollectorsInStep' /\ NotBuiltYet'
    BY <2>1, <2>7 DEF SetDefaultChannelPolicy
  <2>8. ASSUME NEW pb \in Playbooks, LoadFails(pb) \/ VarsRefused(pb) \/ StartFails(pb) \/ Run(pb)
        PROVE  CollectorsInStep' /\ NotBuiltYet'
    BY <2>1, <2>8 DEF LoadFails, VarsRefused, StartFails, Run, Idle
  <2>9. CASE UNCHANGED vars
    BY <2>1, <2>9 DEF vars
  <2> QED
    BY <2>2, <2>3, <2>4, <2>5, <2>6, <2>7, <2>8, <2>9 DEF Next, Setter, RunPlaybook, Ended
<1> QED
  BY <1>1, <1>2, PTL DEF Spec
-----------------------------------------------------------------------------
\* Nothing of an earlier run is in the report of a valid playbook, nor in the
\* state store once the playbook's variables were loaded (engine.go:329-338, 947):
\* it needs that the engine has a state store, hence the first two theorems.
THEOREM ReportsItsOwn == Spec => []ReportsOwn
<1>1. Init => ReportsOwn
  BY DEF Init, NoReport, ReportsOwn
<1>2. TypeOK /\ RunnerInStep /\ ReportsOwn /\ [Next]_vars => ReportsOwn'
  <2> SUFFICES ASSUME TypeOK, RunnerInStep, ReportsOwn, [Next]_vars PROVE ReportsOwn'
    OBVIOUS
  <2>1. CASE UNCHANGED reportVars
    BY <2>1 DEF reportVars, ReportsOwn
  <2>2. ASSUME Built PROVE Store \in DOMAIN contents
    BY <2>2 DEF RunnerInStep, TypeOK, Store, Stores, Fields
  <2>3. ASSUME NEW pb \in Playbooks, LoadFails(pb) PROVE ReportsOwn'
    BY <2>3 DEF LoadFails, Report, ReportsOwn
  <2>4. ASSUME NEW pb \in Playbooks, StartFails(pb) PROVE ReportsOwn'
    BY <2>2, <2>4 DEF StartFails, Reset, Report, ReportsOwn
  <2>5. ASSUME NEW pb \in Playbooks, VarsRefused(pb) PROVE ReportsOwn'
    BY <2>5 DEF VarsRefused, Report, ReportsOwn
  <2>6. ASSUME NEW pb \in Playbooks, Run(pb) PROVE ReportsOwn'
    BY <2>2, <2>6 DEF Run, Report, ReportsOwn
  <2>7. CASE Setter \/ Refuse \/ Build \/ UNCHANGED vars
    BY <2>1, <2>7 DEF Setter, Refuse, Build, vars, Set, SetRedactedKeywords, SetDefaultChannelPolicy,
                      SetMetricsRegistryProvider
  <2> QED
    BY <2>3, <2>4, <2>5, <2>6, <2>7 DEF Next, RunPlaybook, Ended
<1> QED
  BY <1>1, <1>2, TypesKept, CopiesInStep, PTL DEF Spec
=============================================================================
