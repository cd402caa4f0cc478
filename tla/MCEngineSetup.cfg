SPECIFICATION Spec
CONSTANTS
  custom = custom
  prometheus = prometheus
  unregistered = unregistered
  password = password
  token = token
  fetch = fetch
  parse = parse
  store = store
  Values = {custom}
  Providers = {prometheus, unregistered}
  NoRegistry = {unregistered}
  Keywords <- MCKeywords
  Policies <- MCPolicies
  Playbooks <- MCPlaybooks
INVARIANTS
  RunnerInStep CollectorsInStep ReportsOwn
