SPECIFICATION Spec
CONSTANTS
  a = a
  b = b
  c = c
  x = x
  Tasks = {a, b, c}
  Strangers = {x}
  Playbooks <- SmallPlaybooks
INVARIANTS
  TypeOK CycleFound ValidatedBuilds CountersMatchSignals WiringBalanced
