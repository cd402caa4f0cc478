------------------------------ MODULE CommandLine ------------------------------
(***************************************************************************)
(* The gxo process (cmd/gxo/main.go) with what runs beside its main        *)
(* goroutine: the signal handler, the listener that counts the secrets     *)
(* read from the event bus (internal/events) and the engine's run, which   *)
(* emits events while it lasts and returns at a moment of its choice.      *)
(***************************************************************************)
EXTENDS Integers, Sequences

CONSTANTS
  BusSize,    \* capacity of the event bus (256 in the code)
  MaxEvents,  \* bound: events the run emits
  MaxSignals  \* bound: signals sent to the process

ASSUME CommandLineAssumption ==
  BusSize \in Nat \ {0} /\ MaxEvents \in Nat /\ MaxSignals \in Nat

Signals == {"INT", "TERM"}
Events == {"secret", "other"}
Results == {"completed", "failed", "error", "expired", "canceled"}
Args == [command : {"version", "validate", "run"}, flags : {"help", "bad", "version", "ok"},
         readable : BOOLEAN, valid : BOOLEAN]

VARIABLES
  args,       \* the command line, and the playbook it names
  proc,       \* the process: "running", "exited", "killed" or "panicked"
  pc,         \* where the main goroutine is
  code,       \* the exit code, -1 before it is known
  result,     \* what RunPlaybook returned, "none" before
  registered, \* sigChan receives the process's signals
  sigChan, sigClosed, \* its buffer, of capacity 1, and whether it is closed
  handler,    \* the signal handler: "none", "waiting", "storing", "cancelling" or "done"
  sig, received, \* its local sig, and receivedSignal
  cancelled,  \* runCtx is done
  queue, busClosed, \* the event bus
  listener,   \* the listener: "none", "listening" or "stopped"
  counted,    \* gxo_secrets_accessed_total
  sent, interrupted, emitted, dropped
              \* history: signals sent to sigChan, the run returned after runCtx
              \* was done, events emitted, secret events dropped

mainVars   == <<pc, code, result, interrupted>>
signalVars == <<registered, sigChan, sigClosed, handler, sig, received, cancelled, sent>>
busVars    == <<queue, busClosed, listener, counted, emitted, dropped>>
vars == <<args, proc, mainVars, signalVars, busVars>>

Init ==
  /\ args \in Args
  /\ proc = "running" /\ pc = "flags" /\ code = -1 /\ result = "none" /\ interrupted = FALSE
  /\ registered = FALSE /\ sigChan = <<>> /\ sigClosed = FALSE /\ sent = <<>>
  /\ handler = "none" /\ sig = "none" /\ received = "none" /\ cancelled = FALSE
  /\ queue = <<>> /\ busClosed = FALSE /\ listener = "none"
  /\ counted = 0 /\ emitted = [e \in Events |-> 0] /\ dropped = 0
-----------------------------------------------------------------------------
(* The main goroutine up to the run.                                       *)

At(here) == proc = "running" /\ pc = here
Goto(there) == pc' = there /\ UNCHANGED <<code, result, interrupted>>
Return(c, there) == pc' = there /\ code' = c /\ UNCHANGED <<result, interrupted>>

Validate ==
  /\ At("flags") /\ args.command = "validate"
  /\ Return(CASE args.flags = "help" -> 0
              [] args.flags \in {"bad", "version"} -> 2
              [] OTHER -> IF args.readable /\ args.valid THEN 0 ELSE 1, "exit")
  /\ UNCHANGED <<args, proc, signalVars, busVars>>

ParseFlags ==
  /\ At("flags") /\ args.command # "validate"
  /\ IF args.command = "version" \/ args.flags \in {"help", "version"} THEN Return(0, "exit")
     ELSE IF args.flags = "bad" THEN Return(2, "exit") ELSE Goto("engine")
  /\ UNCHANGED <<args, proc, signalVars, busVars>>

\* NewEngine returns the engine or an error, or panics: the deferred Close runs,
\* then the runtime ends the process.  EngineSetup has the whole of NewEngine.
MakeEngine ==
  /\ At("engine")
  /\ \/ Goto("read") /\ UNCHANGED <<proc, busClosed>>
     \/ Return(1, "closeBus") /\ UNCHANGED <<proc, busClosed>>
     \/ proc' = "panicked" /\ busClosed' = TRUE /\ UNCHANGED mainVars
  /\ UNCHANGED <<args, signalVars, queue, listener, counted, emitted, dropped>>

ReadPlaybook ==
  /\ At("read")
  /\ IF args.readable THEN Goto("listen") ELSE Return(1, "closeBus")
  /\ UNCHANGED <<args, proc, signalVars, busVars>>

StartListener ==
  /\ At("listen")
  /\ listener' = "listening" /\ Goto("notify")
  /\ UNCHANGED <<args, proc, signalVars, queue, busClosed, counted, emitted, dropped>>

StartHandler ==
  /\ At("notify")
  /\ registered' = TRUE /\ handler' = "waiting" /\ Goto("run")
  /\ UNCHANGED <<args, proc, sigChan, sigClosed, sig, received, cancelled, sent, busVars>>
-----------------------------------------------------------------------------
(* RunPlaybook: its workers have ended when it returns.                    *)

Emit(event) ==
  /\ At("run") /\ (args.valid \/ event = "other")
  /\ emitted["secret"] + emitted["other"] < MaxEvents
  /\ IF busClosed THEN proc' = "panicked" /\ UNCHANGED <<queue, emitted, dropped>>
     ELSE /\ IF Len(queue) < BusSize THEN queue' = Append(queue, event) /\ UNCHANGED dropped
             ELSE dropped' = dropped + (IF event = "secret" THEN 1 ELSE 0) /\ UNCHANGED queue
          /\ emitted' = [emitted EXCEPT ![event] = @ + 1]
          /\ UNCHANGED proc
  /\ UNCHANGED <<args, mainVars, signalVars, busClosed, listener, counted>>

RunReturns ==
  /\ At("run")
  /\ result' \in IF args.valid THEN Results ELSE {"error"}
  /\ interrupted' = cancelled /\ pc' = "code" /\ UNCHANGED code
  /\ UNCHANGED <<args, proc, signalVars, busVars>>

ExitCode(r, s) ==
  CASE r = "completed" -> 0
    [] r = "canceled" /\ s = "INT" -> 130
    [] r = "canceled" /\ s = "TERM" -> 143
    [] r = "expired" -> 124
    [] OTHER -> 1

DetermineExitCode ==
  /\ At("code")
  /\ Return(ExitCode(result, received), "await")
  /\ UNCHANGED <<args, proc, signalVars, busVars>>
-----------------------------------------------------------------------------
(* The deferred calls, last first.                                         *)

\* Defect: the handler is not waited for.
AwaitNobody ==
  /\ At("await") /\ Goto("closeSignals")
  /\ UNCHANGED <<args, proc, signalVars, busVars>>

AwaitHandler ==
  /\ At("await") /\ handler = "done"
  /\ Goto("closeSignals")
  /\ UNCHANGED <<args, proc, signalVars, busVars>>

CloseSignals ==
  /\ At("closeSignals")
  /\ sigClosed' = TRUE /\ Goto("stopSignals")
  /\ UNCHANGED <<args, proc, registered, sigChan, handler, sig, received, cancelled, sent, busVars>>

StopSignals ==
  /\ At("stopSignals")
  /\ registered' = FALSE /\ Goto("cancelRun")
  /\ UNCHANGED <<args, proc, sigChan, sigClosed, handler, sig, received, cancelled, sent, busVars>>

CancelRun ==
  /\ At("cancelRun")
  /\ cancelled' = TRUE /\ Goto("closeBus")
  /\ UNCHANGED <<args, proc, registered, sigChan, sigClosed, handler, sig, received, sent, busVars>>

CloseBus ==
  /\ At("closeBus")
  /\ busClosed' = TRUE /\ Goto("exit")
  /\ UNCHANGED <<args, proc, signalVars, queue, listener, counted, emitted, dropped>>

Exit ==
  /\ At("exit")
  /\ proc' = "exited"
  /\ UNCHANGED <<args, mainVars, signalVars, busVars>>
-----------------------------------------------------------------------------
(* The signal handler.                                                     *)

Step(here) == proc = "running" /\ handler = here

\* Defect: the run is cancelled before the signal is stored.
WakeCancelling ==
  /\ Step("waiting") /\ sigChan # <<>>
  /\ sig' = Head(sigChan) /\ sigChan' = Tail(sigChan)
  /\ handler' = "storing" /\ cancelled' = TRUE
  /\ UNCHANGED <<args, proc, mainVars, registered, sigClosed, received, sent, busVars>>

\* Nothing cancels runCtx while the handler waits: main does so after wg.Wait.
Wake ==
  /\ Step("waiting") /\ (sigChan # <<>> \/ cancelled)
  /\ IF sigChan # <<>> THEN handler' = "storing" /\ sig' = Head(sigChan) /\ sigChan' = Tail(sigChan)
     ELSE handler' = "done" /\ UNCHANGED <<sig, sigChan>>
  /\ UNCHANGED <<args, proc, mainVars, registered, sigClosed, received, cancelled, sent, busVars>>

StoreSignal ==
  /\ Step("storing")
  /\ received' = sig /\ handler' = "cancelling"
  /\ UNCHANGED <<args, proc, mainVars, registered, sigChan, sigClosed, sig, cancelled, sent, busVars>>

\* Defect: the handler ends at the second signal.
CancelOnSecond ==
  /\ Step("cancelling")
  /\ cancelled' = TRUE /\ handler' = IF sigChan # <<>> THEN "done" ELSE "cancelling"
  /\ UNCHANGED <<args, proc, mainVars, registered, sigChan, sigClosed, sig, received, sent, busVars>>

CancelOnSignal ==
  /\ Step("cancelling")
  /\ cancelled' = TRUE /\ handler' = "done"
  /\ UNCHANGED <<args, proc, mainVars, registered, sigChan, sigClosed, sig, received, sent, busVars>>

\* os/signal: what it does with a signal depends on whether it is registered.
Signal(s) ==
  /\ proc = "running" /\ Len(sent) < MaxSignals
  /\ IF ~registered THEN proc' = "killed" /\ UNCHANGED <<sigChan, sent>>
     ELSE /\ sent' = Append(sent, s)
          /\ IF sigClosed THEN proc' = "panicked" /\ UNCHANGED sigChan
             ELSE /\ sigChan' = IF sigChan = <<>> THEN <<s>> ELSE sigChan
                  /\ UNCHANGED proc
  /\ UNCHANGED <<args, mainVars, registered, sigClosed, handler, sig, received, cancelled, busVars>>
-----------------------------------------------------------------------------
(* The listener; with the context done it may still take an event.         *)

\* Defect: every event counts.
TakeAny ==
  /\ proc = "running" /\ listener = "listening" /\ queue # <<>>
  /\ queue' = Tail(queue) /\ counted' = counted + 1
  /\ UNCHANGED <<args, proc, mainVars, signalVars, busClosed, listener, emitted, dropped>>

TakeEvent ==
  /\ proc = "running" /\ listener = "listening" /\ queue # <<>>
  /\ queue' = Tail(queue) /\ counted' = counted + (IF Head(queue) = "secret" THEN 1 ELSE 0)
  /\ UNCHANGED <<args, proc, mainVars, signalVars, busClosed, listener, emitted, dropped>>

StopListening ==
  /\ proc = "running" /\ listener = "listening"
  /\ cancelled \/ (busClosed /\ queue = <<>>)
  /\ listener' = "stopped"
  /\ UNCHANGED <<args, proc, mainVars, signalVars, queue, busClosed, counted, emitted, dropped>>
-----------------------------------------------------------------------------
Main ==
  \/ Validate \/ ParseFlags \/ MakeEngine \/ ReadPlaybook \/ StartListener \/ StartHandler
  \/ DetermineExitCode \/ AwaitHandler \/ CloseSignals \/ StopSignals \/ CancelRun \/ CloseBus \/ Exit
Handler == Wake \/ StoreSignal \/ CancelOnSignal
Run == RunReturns \/ (\E event \in Events : Emit(event))
Listener == TakeEvent \/ StopListening
Ended == proc # "running" /\ UNCHANGED vars

Next == Main \/ Handler \/ Run \/ Listener \/ (\E s \in Signals : Signal(s)) \/ Ended

\* The goroutines are scheduled; when the run returns is up to the playbook.
Fairness == WF_vars(Main) /\ WF_vars(Handler) /\ WF_vars(Listener)

Spec == Init /\ [][Next]_vars /\ Fairness
=============================================================================
