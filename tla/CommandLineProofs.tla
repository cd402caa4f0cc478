--------------------------- MODULE CommandLineProofs ---------------------------
(* The exit code, the crashes and the counted secrets of the gxo process,  *)
(* proved for every size of the bus, any number of events and any number   *)
(* of signals.                                                             *)
EXTENDS CommandLineProperties, SequenceTheorems, FiniteSetTheorems, TLAPS

Starting == {"flags", "engine", "read", "listen", "notify"}
Running == {"run", "code", "await"}
Closing == {"closeSignals", "stopSignals", "cancelRun"}

\* What each state of the signal handler says of the signals sent so far: the
\* first one is in sigChan, then in sig, then in receivedSignal, and only after
\* that is runCtx done (main.go:241-255).
HandlerInv ==
  /\ sent \in Seq(Signals)
  /\ handler \in {"none", "waiting", "storing", "cancelling", "done"}
  /\ handler = "none" => ~registered /\ sent = <<>> /\ sigChan = <<>> /\ received = "none" /\ ~cancelled
  /\ handler = "waiting" =>
       /\ received = "none" /\ ~cancelled
       /\ IF sent = <<>> THEN sigChan = <<>> ELSE sigChan = <<sent[1]>>
  /\ handler = "storing" => sent # <<>> /\ sig = sent[1] /\ received = "none" /\ ~cancelled
  /\ handler = "cancelling" => sent # <<>> /\ received = sent[1] /\ ~cancelled
  /\ handler = "done" => sent # <<>> /\ received = sent[1]
  /\ interrupted => cancelled

\* Where the main goroutine is while the handler lives, sigChan is closed, the
\* bus is closed, a result or an exit code is known.
MainInv ==
  /\ pc \in Starting => handler = "none"
  /\ pc \in Running => handler # "none"
  /\ pc \in Closing \/ sigClosed => handler = "done"
  /\ proc = "running" /\ busClosed => pc = "exit"
  /\ pc \in Starting \cup {"run"} => result = "none"
  /\ proc = "running" /\ pc \in Starting \cup {"run", "code"} => code = -1

\* The two properties, and what they rest on.
IInv == HandlerInv /\ MainInv /\ SignalNamed /\ CrashExplained

-----------------------------------------------------------------------------
\* A signal added to a sequence leaves the first one first.
LEMMA AppendFacts ==
  ASSUME NEW q \in Seq(Signals), NEW s \in Signals
  PROVE  /\ Append(q, s) \in Seq(Signals) /\ Append(q, s) # <<>> /\ Len(Append(q, s)) = Len(q) + 1
         /\ q = <<>> => Append(q, s) = <<s>> /\ Append(q, s)[1] = s
         /\ q # <<>> => Append(q, s)[1] = q[1] /\ Len(q) >= 1
<1>1. /\ Append(q, s) \in Seq(Signals) /\ Append(q, s) # <<>> /\ Len(Append(q, s)) = Len(q) + 1
      /\ \A i \in 1 .. Len(q) : Append(q, s)[i] = q[i]
      /\ Append(q, s)[Len(q) + 1] = s
  BY AppendProperties
<1>2. q = <<>> => Append(q, s) = <<s>> /\ Append(q, s)[1] = s
  OBVIOUS
<1>3. q # <<>> => Len(q) >= 1
  BY EmptySeq
<1> QED
  BY <1>1, <1>2, <1>3

\* sigChan never holds more than one signal.
LEMMA SingleFacts ==
  ASSUME NEW s
  PROVE  <<s>> # <<>> /\ Head(<<s>>) = s /\ Tail(<<s>>) = <<>> /\ <<s>>[1] = s
  OBVIOUS

LEMMA InitInv == Init => IInv
  BY DEF Init, IInv, HandlerInv, MainInv, SignalNamed, CrashExplained, Starting, Running, Closing

\* What the main goroutine does: only DetermineExitCode and RunReturns touch the
\* outcome, only StartHandler and CancelRun what the handler's states speak of.
LEMMA MainInvariant == ASSUME IInv, Main PROVE IInv'
<1> USE DEF IInv, MainInv, SignalNamed, CrashExplained, Starting, Running, Closing, At, signalVars, busVars
<1>1. CASE Validate \/ ParseFlags \/ ReadPlaybook
  BY <1>1 DEF HandlerInv, Validate, ParseFlags, ReadPlaybook, Return, Goto
<1>2. CASE MakeEngine
  BY <1>2 DEF HandlerInv, MakeEngine, Return, Goto, mainVars
<1>3. CASE StartListener
  BY <1>3 DEF HandlerInv, StartListener, Goto
<1>4. CASE StartHandler
  BY <1>4 DEF HandlerInv, StartHandler, Goto
<1>5. CASE DetermineExitCode
  BY <1>5 DEF HandlerInv, DetermineExitCode, ExitCode, Return
<1>6. CASE AwaitHandler
  BY <1>6 DEF HandlerInv, AwaitHandler, Goto
<1>7. CASE CloseSignals
  BY <1>7 DEF HandlerInv, CloseSignals, Goto
<1>8. CASE StopSignals
  BY <1>8 DEF HandlerInv, StopSignals, Goto
<1>9. CASE CancelRun
  BY <1>9 DEF HandlerInv, CancelRun, Goto
<1>10. CASE CloseBus
  BY <1>10 DEF HandlerInv, CloseBus, Goto
<1>11. CASE Exit
  BY <1>11 DEF HandlerInv, Exit, mainVars
<1> QED
  BY <1>1, <1>2, <1>3, <1>4, <1>5, <1>6, <1>7, <1>8, <1>9, <1>10, <1>11 DEF Main

\* What the handler does: a signal moves on from sigChan to receivedSignal.
LEMMA HandlerInvariant == ASSUME IInv, Handler PROVE IInv'
<1> USE DEF IInv, MainInv, SignalNamed, CrashExplained, Starting, Running, Closing, Step, mainVars, busVars
<1>1. CASE Wake
  <2>1. sent # <<>> /\ sigChan = <<sent[1]>>
    BY <1>1 DEF HandlerInv, Wake
  <2>2. handler' = "storing" /\ sig' = sent[1]
    BY <1>1, <2>1, SingleFacts DEF Wake
  <2> QED
    BY <1>1, <2>1, <2>2 DEF HandlerInv, Wake
<1>2. CASE StoreSignal
  BY <1>2 DEF HandlerInv, StoreSignal
<1>3. CASE CancelOnSignal
  BY <1>3 DEF HandlerInv, CancelOnSignal
<1> QED
  BY <1>1, <1>2, <1>3 DEF Handler

\* What the run does: the bus is open while it lasts, so nothing panics.
LEMMA RunInvariant == ASSUME IInv, Run PROVE IInv'
<1> USE DEF IInv, MainInv, SignalNamed, CrashExplained, Starting, Running, Closing, At, signalVars
<1>1. CASE RunReturns
  BY <1>1 DEF HandlerInv, RunReturns, busVars
<1>2. ASSUME NEW event \in Events, Emit(event) PROVE IInv'
  <2>1. ~busClosed
    BY <1>2 DEF Emit
  <2> QED
    BY <1>2, <2>1 DEF HandlerInv, Emit, mainVars
<1> QED
  BY <1>1, <1>2 DEF Run

\* What a signal does: the first one never meets a closed channel, since sigChan
\* is closed only after the handler ended, which takes a signal.
LEMMA SignalInvariant == ASSUME IInv, NEW s \in Signals, Signal(s) PROVE IInv'
<1> USE DEF mainVars, busVars
<1>1. CASE ~registered
  <2>1. proc' = "killed" /\ UNCHANGED <<pc, code, result, interrupted, registered, sigChan, sigClosed, handler,
                                        sig, received, cancelled, sent, busClosed>>
    BY <1>1 DEF Signal
  <2> QED
    BY <2>1 DEF IInv, HandlerInv, MainInv, SignalNamed, CrashExplained
<1>2. CASE registered
  <2>1. sent \in Seq(Signals) /\ sent' = Append(sent, s)
    BY <1>2 DEF Signal, IInv, HandlerInv
  <2>2. /\ sent' \in Seq(Signals) /\ sent' # <<>> /\ Len(sent') = Len(sent) + 1
        /\ sent = <<>> => sent' = <<s>> /\ sent'[1] = s
        /\ sent # <<>> => sent'[1] = sent[1] /\ Len(sent) >= 1
    BY <2>1, AppendFacts
  <2>3. UNCHANGED <<pc, code, result, interrupted, registered, sigClosed, handler, sig, received, cancelled, busClosed>>
    BY DEF Signal
  <2>4. sigClosed => sent # <<>>
    BY DEF IInv, HandlerInv, MainInv
  <2>5. HandlerInv'
    <3>1. handler # "none"
      BY <1>2 DEF IInv, HandlerInv
    <3>2. ASSUME handler = "waiting" PROVE sigChan' = <<sent'[1]>>
      <4>1. ~sigClosed /\ sigChan' = IF sigChan = <<>> THEN <<s>> ELSE sigChan
        BY <1>2, <3>2 DEF Signal, IInv, MainInv
      <4>2. CASE sent = <<>>
        BY <3>2, <4>1, <4>2, <2>2 DEF IInv, HandlerInv
      <4>3. CASE sent # <<>>
        BY <3>2, <4>1, <4>3, <2>2, SingleFacts DEF IInv, HandlerInv
      <4> QED
        BY <4>2, <4>3
    <3> QED
      BY <2>2, <2>3, <3>1, <3>2 DEF IInv, HandlerInv
  <2>6. MainInv'
    BY <1>2, <2>3 DEF Signal, IInv, MainInv
  <2>7. SignalNamed'
    BY <2>2, <2>3 DEF IInv, SignalNamed
  <2>8. CrashExplained'
    BY <1>2, <2>2, <2>3, <2>4 DEF Signal, CrashExplained
  <2> QED
    BY <2>5, <2>6, <2>7, <2>8 DEF IInv
<1> QED
  BY <1>1, <1>2
-----------------------------------------------------------------------------
\* The invariant: the first signal travels from sigChan to receivedSignal before
\* runCtx is done, and each deferred call meets a handler that has ended.
THEOREM Inductive == Spec => []IInv
<1>1. IInv /\ [Next]_vars => IInv'
  <2> SUFFICES ASSUME IInv, [Next]_vars PROVE IInv'
    OBVIOUS
  <2>1. CASE Listener
    BY <2>1 DEF Listener, TakeEvent, StopListening, mainVars, signalVars, IInv, HandlerInv, MainInv,
                SignalNamed, CrashExplained
  <2>2. CASE UNCHANGED vars
    BY <2>2 DEF vars, mainVars, signalVars, busVars, IInv, HandlerInv, MainInv, SignalNamed, CrashExplained
  <2> QED
    BY <2>1, <2>2, MainInvariant, HandlerInvariant, RunInvariant, SignalInvariant DEF Next, Ended
<1> QED
  BY <1>1, InitInv, PTL DEF Spec

\* The exit code of a run that was cancelled by a signal is that of the first
\* signal, and no other run exits with such a code (main.go:247-250, 268-271).
THEOREM FirstSignalNamed == Spec => []SignalNamed
  BY Inductive, PTL DEF IInv

\* Once the engine exists it takes two signals to crash the process: nothing is
\* emitted on a closed bus, and sigChan is closed after a signal was handled
\* (main.go:181, 235-236, 255).
THEOREM OneSignalNeverCrashes == Spec => []CrashExplained
  BY Inductive, PTL DEF IInv
-----------------------------------------------------------------------------
(* The event bus.                                                          *)

\* The counters and the bus have their types.
BusInv ==
  /\ queue \in Seq(Events) /\ counted \in Nat /\ dropped \in Nat
  /\ emitted \in [Events -> Nat]

\* What the secrets in the bus are, as a number.
LEMMA SecretsFinite ==
  ASSUME NEW q \in Seq(Events)
  PROVE  IsFiniteSet(Secrets(q)) /\ Cardinality(Secrets(q)) \in Nat
<1>1. IsFiniteSet(1..Len(q)) /\ Secrets(q) \subseteq 1..Len(q)
  BY LenProperties, FS_Interval DEF Secrets
<1> QED
  BY <1>1, FS_Subset, FS_CardinalityType

\* Emit puts an event behind those in the bus.
LEMMA SecretsAppend ==
  ASSUME NEW q \in Seq(Events), NEW e \in Events
  PROVE  Cardinality(Secrets(Append(q, e))) = Cardinality(Secrets(q)) + (IF e = "secret" THEN 1 ELSE 0)
<1>1. /\ Len(Append(q, e)) = Len(q) + 1 /\ Len(q) \in Nat
      /\ \A i \in 1..Len(q) : Append(q, e)[i] = q[i]
      /\ Append(q, e)[Len(q) + 1] = e
  BY AppendProperties, LenProperties
<1>2. 1..(Len(q) + 1) = 1..Len(q) \cup {Len(q) + 1} /\ Len(q) + 1 \notin 1..Len(q)
  BY <1>1
<1>3. CASE e = "secret"
  <2>1. Secrets(Append(q, e)) = Secrets(q) \cup {Len(q) + 1} /\ Len(q) + 1 \notin Secrets(q)
    BY <1>1, <1>2, <1>3 DEF Secrets
  <2> QED
    BY <1>3, <2>1, SecretsFinite, FS_AddElement
<1>4. CASE e # "secret"
  <2>1. Secrets(Append(q, e)) = Secrets(q)
    BY <1>1, <1>2, <1>4 DEF Secrets
  <2> QED
    BY <1>4, <2>1, SecretsFinite
<1> QED
  BY <1>3, <1>4

\* The listener takes the first event; the others move up by one place.
LEMMA SecretsTail ==
  ASSUME NEW q \in Seq(Events), q # <<>>
  PROVE  Cardinality(Secrets(q)) = Cardinality(Secrets(Tail(q))) + (IF Head(q) = "secret" THEN 1 ELSE 0)
<1>1. /\ Tail(q) \in Seq(Events) /\ Len(Tail(q)) = Len(q) - 1
      /\ \A i \in 1..Len(Tail(q)) : Tail(q)[i] = q[i + 1]
  BY HeadTailProperties
<1>2. Len(q) \in Nat \ {0} /\ Head(q) = q[1]
  BY EmptySeq
<1> DEFINE S == Secrets(Tail(q))
           T == Secrets(q) \ {1}
           up == [i \in S |-> i + 1]
<1>3. S \subseteq Nat /\ \A i \in S : i + 1 \in T
  BY <1>1, <1>2 DEF Secrets
<1>4. \A j \in T : j - 1 \in S /\ (j - 1) + 1 = j
  BY <1>1, <1>2 DEF Secrets
<1>5. up \in Bijection(S, T)
  <2> HIDE DEF S, T
  <2>1. up \in [S -> T]
    BY <1>3
  <2>2. \A i, k \in S : up[i] = up[k] => i = k
    BY <1>3
  <2>3. \A j \in T : \E i \in S : up[i] = j
    BY <1>4
  <2> QED
    BY <2>1, <2>2, <2>3 DEF Bijection, Injection, Surjection, IsInjective
<1>6. Cardinality(T) = Cardinality(S)
  BY <1>1, <1>5, SecretsFinite, FS_Bijection DEF ExistsBijection
<1>7. 1 \in Secrets(q) <=> Head(q) = "secret"
  BY <1>2 DEF Secrets
<1> HIDE DEF S, T, up
<1>8. Cardinality(T) = IF Head(q) = "secret" THEN Cardinality(Secrets(q)) - 1 ELSE Cardinality(Secrets(q))
  BY <1>7, SecretsFinite, FS_RemoveElement DEF T
<1>9. Cardinality(Secrets(q)) \in Nat /\ Cardinality(Secrets(Tail(q))) \in Nat
  BY <1>1, SecretsFinite
<1> QED
  BY <1>6, <1>8, <1>9 DEF S

\* Only Emit and TakeEvent touch the bus and the counters.
LEMMA BusUntouched ==
  ASSUME Next
  PROVE  \/ TakeEvent \/ (\E event \in Events : Emit(event))
         \/ UNCHANGED <<queue, counted, dropped, emitted>>
<1>1. CASE Main
  BY <1>1 DEF Main, Validate, ParseFlags, MakeEngine, ReadPlaybook, StartListener, StartHandler,
              DetermineExitCode, AwaitHandler, CloseSignals, StopSignals, CancelRun, CloseBus, Exit, busVars
<1>2. CASE Handler \/ RunReturns \/ StopListening \/ Ended
  BY <1>2 DEF Handler, Wake, StoreSignal, CancelOnSignal, RunReturns, StopListening, Ended, vars, busVars
<1>3. ASSUME NEW s \in Signals, Signal(s)
      PROVE  UNCHANGED <<queue, counted, dropped, emitted>>
  BY <1>3 DEF Signal, busVars
<1> QED
  BY <1>1, <1>2, <1>3 DEF Next, Run, Listener

\* One event more in the bus, one less, or none touched.
LEMMA BusStep ==
  ASSUME BusInv, EventsAccounted, [Next]_vars
  PROVE  BusInv' /\ EventsAccounted'
<1>1. CASE TakeEvent
  <2>1. queue # <<>> /\ queue' = Tail(queue) /\ UNCHANGED <<dropped, emitted>>
    BY <1>1 DEF TakeEvent
  <2>2. queue' \in Seq(Events)
    BY <2>1, HeadTailProperties DEF BusInv
  <2>3. Cardinality(Secrets(queue)) = Cardinality(Secrets(queue')) + (IF Head(queue) = "secret" THEN 1 ELSE 0)
    BY <2>1, SecretsTail DEF BusInv
  <2>4. PICK n \in Nat : n = Cardinality(Secrets(queue'))
    BY <2>2, SecretsFinite
  <2>5. counted' = counted + (IF Head(queue) = "secret" THEN 1 ELSE 0)
    BY <1>1 DEF TakeEvent
  <2>6. BusInv'
    BY <2>1, <2>2, <2>5 DEF BusInv
  <2>7. emitted["secret"] = counted' + dropped + n
    BY <2>3, <2>4, <2>5 DEF BusInv, EventsAccounted
  <2> QED
    BY <2>1, <2>4, <2>6, <2>7 DEF EventsAccounted, Secrets
<1>2. ASSUME NEW event \in Events, Emit(event)
      PROVE  BusInv' /\ EventsAccounted'
  <2>1. PICK n \in Nat : n = Cardinality(Secrets(queue))
    BY SecretsFinite DEF BusInv
  <2>2. emitted["secret"] = counted + dropped + n
    BY <2>1 DEF EventsAccounted
  <2>3. CASE busClosed
    BY <1>2, <2>3 DEF Emit, BusInv, EventsAccounted, Secrets
  <2>4. CASE ~busClosed
    <3>1. emitted' = [emitted EXCEPT ![event] = @ + 1] /\ counted' = counted
      BY <1>2, <2>4 DEF Emit
    <3>2. emitted'["secret"] = emitted["secret"] + (IF event = "secret" THEN 1 ELSE 0)
      BY <3>1 DEF BusInv, Events
    <3>3. emitted' \in [Events -> Nat]
      BY <3>1 DEF BusInv
    <3>4. CASE Len(queue) < BusSize
      <4>1. queue' = Append(queue, event) /\ dropped' = dropped
        BY <1>2, <2>4, <3>4 DEF Emit
      <4>2. queue' \in Seq(Events)
        BY <4>1, AppendProperties DEF BusInv
      <4>3. Cardinality(Secrets(queue')) = n + (IF event = "secret" THEN 1 ELSE 0)
        BY <2>1, <4>1, SecretsAppend DEF BusInv
      <4>4. emitted'["secret"] = counted' + dropped' + Cardinality(Secrets(queue'))
        BY <2>2, <3>1, <3>2, <4>1, <4>3 DEF BusInv
      <4> QED
        BY <3>1, <3>3, <4>1, <4>2, <4>4 DEF BusInv, EventsAccounted, Secrets
    <3>5. CASE ~(Len(queue) < BusSize)
      <4>1. queue' = queue /\ dropped' = dropped + (IF event = "secret" THEN 1 ELSE 0)
        BY <1>2, <2>4, <3>5 DEF Emit
      <4>2. emitted'["secret"] = counted' + dropped' + n
        BY <2>2, <3>1, <3>2, <4>1 DEF BusInv
      <4> QED
        BY <2>1, <3>1, <3>3, <4>1, <4>2 DEF BusInv, EventsAccounted, Secrets
    <3> QED
      BY <3>4, <3>5
  <2> QED
    BY <2>3, <2>4
<1>3. CASE UNCHANGED <<queue, counted, dropped, emitted>>
  BY <1>3 DEF BusInv, EventsAccounted, Secrets
<1> QED
  BY <1>1, <1>2, <1>3, BusUntouched DEF vars, busVars

\* Every secret read during a run is counted by the listener, was dropped by a full
\* bus, or is left in it (channel_bus.go:55, metrics_listener.go:57), whenever the
\* listener stops.
THEOREM SecretsAccounted == Spec => []EventsAccounted
<1>1. Init => BusInv /\ EventsAccounted
  <2> SUFFICES ASSUME Init PROVE BusInv /\ EventsAccounted
    OBVIOUS
  <2>1. queue \in Seq(Events) /\ Secrets(queue) = {} /\ Cardinality({}) = 0
    BY EmptySeq, FS_EmptySet DEF Init, Secrets
  <2> QED
    BY <2>1 DEF Init, BusInv, EventsAccounted, Events
<1>2. BusInv /\ EventsAccounted /\ [Next]_vars => BusInv' /\ EventsAccounted'
  BY BusStep
<1> QED
  BY <1>1, <1>2, PTL DEF Spec
=============================================================================
