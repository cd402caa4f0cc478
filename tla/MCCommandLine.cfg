SPECIFICATION Spec
CONSTANTS
  BusSize = 2
  MaxEvents = 3
  MaxSignals = 3
INVARIANTS
  SignalNamed CrashExplained EventsAccounted
PROPERTY
  ExitsAfterSignal
