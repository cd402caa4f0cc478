------------------------- MODULE CommandLineProperties -------------------------
(* What the gxo process promises.                                          *)
EXTENDS CommandLine, FiniteSets

\* Types, and where the goroutines can be relative to one another.
TypeOK ==
  /\ args \in Args /\ proc \in {"running", "exited", "killed", "panicked"}
  /\ pc \in {"flags", "engine", "read", "listen", "notify", "run", "code", "await", "closeSignals",
             "stopSignals", "cancelRun", "closeBus", "exit"}
  /\ code \in {-1, 0, 1, 2, 124, 130, 143} /\ result \in {"none"} \cup Results
  /\ registered \in BOOLEAN /\ sigClosed \in BOOLEAN /\ cancelled \in BOOLEAN
  /\ busClosed \in BOOLEAN /\ interrupted \in BOOLEAN
  /\ sigChan \in Seq(Signals) /\ sent \in Seq(Signals) /\ queue \in Seq(Events)
  /\ handler \in {"none", "waiting", "storing", "cancelling", "done"}
  /\ sig \in {"none"} \cup Signals /\ received \in {"none"} \cup Signals
  /\ listener \in {"none", "listening", "stopped"}
  /\ counted \in Nat /\ dropped \in Nat /\ emitted \in [Events -> Nat]

\* A run that a signal cancelled exits with the code of the first signal sent,
\* whatever comes after it, and no run has such a code without a signal
\* (main.go:247-250, 268-271): the handler stores the signal before it cancels.
\* A signal stored after a cancelled run returned, but before line 269 reads it,
\* names the code too.
SignalNamed ==
  /\ code \in {130, 143} => sent # <<>> /\ code = ExitCode("canceled", sent[1])
  /\ code # -1 /\ result = "canceled" /\ interrupted => sent # <<>> /\ code = ExitCode("canceled", sent[1])

\* Once the engine exists one signal never crashes the process: the deferred
\* close of sigChan can meet a second one only, and nothing is emitted on a
\* closed bus (main.go:181, 235-236, 255).
CrashExplained == proc = "panicked" /\ pc # "engine" => Len(sent) >= 2

\* The places of the bus in which there is a secret read.
Secrets(bus) == {i \in 1..Len(bus) : bus[i] = "secret"}

\* Every secret read is counted, dropped by a full bus, or still in the bus
\* (channel_bus.go:55, metrics_listener.go:57).
EventsAccounted == emitted["secret"] = counted + dropped + Cardinality(Secrets(queue))

\* After a signal the process ends as soon as the run has returned; without one
\* it never does: wg.Wait comes before the cancelRun the handler waits for
\* (main.go:228, 255).
ExitsAfterSignal == (sent # <<>> /\ result # "none") ~> proc # "running"
=============================================================================
