-------------------------- MODULE TaskAttemptsProofs --------------------------
(* What ExecuteTask registers, where record errors go and how long        *)
(* retry.Do waits, proved for any number of iterations and attempts, any   *)
(* settings of the task, any capacities and any width of a Duration.       *)
EXTENDS TaskAttemptsProperties, FiniteSetTheorems, TLAPS

\* The loop has started the iterations before next, waits for all it started
\* unless it broke off with an error, and none is left when the result is
\* registered (task_runner.go:239-297).
LoopInv ==
  /\ \A i \in Items : pc[i] = "idle" <=> ~(i \in Todo /\ i < next)
  /\ \A i \in Items : pc[i] = "cut" => CtxDone
  /\ tpc = "start" => next = 1
  /\ tpc \in {"wait", "register"} => next \notin Todo \/ firstErr # "none"
  /\ tpc \in {"register", "done"} => Live = {}

\* As long as there is no error, whatever ended succeeded and left a summary.
ResultInv ==
  /\ firstErr = "none" => \A i \in Items : pc[i] = "ended" => err[i] = "none" /\ summary # 0
  /\ summary # 0 => pc[summary] = "ended"
  /\ registered # -1 =>
       tpc = "done" /\ firstErr = "none" /\ registered = summary /\ next \notin Todo

\* A wait is followed by another attempt, a report by no more than MaxReports.
RetryInv ==
  \A i \in Items :
    /\ pc[i] = "delay" => attempt[i] < task.attempts
    /\ pc[i] = "report" => reports[i] < MaxReports

IInv == TypeOK /\ LoopInv /\ ResultInv /\ RetryInv
-----------------------------------------------------------------------------
(* Delays.                                                                 *)

\* A task's settings are those of a definition the configuration allows.
LEMMA Settings ==
  ASSUME task \in Tasks
  PROVE  /\ task.attempts \in Nat \ {0} /\ task.maxDelay \in Nat /\ task.delay \in Nat
         /\ task.factor \in Int /\ task.jitter \in Int
         /\ GetRetryDelay \in Nat \ {0} /\ GetRetryBackoffFactor \in Nat \ {0}
         /\ GetRetryJitter \in 0..Half /\ MaxInt \in Nat /\ Half \in Nat \ {0}
<1>1. task \in Configured
  BY AttemptsAssumption
<1>2. /\ task.attempts \in Nat \ {0} /\ task.maxDelay \in Nat /\ task.delay \in Nat
      /\ task.factor \in Int /\ task.jitter \in Int
  BY <1>1 DEF Configured
<1> QED
  BY <1>2, AttemptsAssumption DEF GetRetryDelay, GetRetryBackoffFactor, GetRetryJitter

\* The conversion to a Duration gives one whatever it is given.
LEMMA DurationRange ==
  ASSUME MaxInt \in Nat, NEW x, NEW d \in Duration(x)
  PROVE  d \in -(MaxInt + 1)..MaxInt
BY DEF Duration

\* Additions wrap within a Duration, and change nothing that fits.
LEMMA WrapFacts ==
  ASSUME MaxInt \in Nat, NEW x \in Int
  PROVE  /\ Wrap(x) \in -(MaxInt + 1)..MaxInt
         /\ x \in -(MaxInt + 1)..MaxInt => Wrap(x) = x
<1>1. /\ (x + MaxInt + 1) % (2 * (MaxInt + 1)) \in 0..(2 * (MaxInt + 1) - 1)
      /\ x + MaxInt + 1 \in 0..(2 * (MaxInt + 1) - 1) =>
           (x + MaxInt + 1) % (2 * (MaxInt + 1)) = x + MaxInt + 1
  BY SMT
<1> QED
  BY <1>1 DEF Wrap

\* What jitter makes of a Duration is a Duration.
LEMMA JitteredRange ==
  ASSUME MaxInt \in Nat, NEW b \in -(MaxInt + 1)..MaxInt, NEW d \in Jittered(b)
  PROVE  d \in -(MaxInt + 1)..MaxInt
<1>1. CASE Shares = {}
  BY <1>1 DEF Jittered
<1>2. CASE Shares # {}
  <2>1. PICK share \in Shares : \E amount \in Duration(Truncate(b * share)) : d = AtLeastZero(Wrap(b + amount))
    BY <1>2 DEF Jittered
  <2>2. PICK amount \in Duration(Truncate(b * share)) : d = AtLeastZero(Wrap(b + amount))
    BY <2>1
  <2>3. amount \in Int /\ b + amount \in Int
    BY DurationRange
  <2>4. Wrap(b + amount) \in -(MaxInt + 1)..MaxInt
    BY <2>3, WrapFacts
  <2> QED
    BY <2>2, <2>4 DEF AtLeastZero
<1> QED
  BY <1>1, <1>2

\* A delay is a Duration and respects max_delay, on either side of an overflow.
LEMMA DelayRange ==
  ASSUME task \in Tasks, NEW n, NEW d \in Delays(n)
  PROVE  /\ d \in -(MaxInt + 1)..MaxInt
         /\ task.maxDelay > 0 => d <= task.maxDelay
<1>1. PICK b \in Duration(Backoff(n)) : \E e \in Jittered(b) : d = Capped(e)
  BY DEF Delays
<1>2. PICK e \in Jittered(b) : d = Capped(e)
  BY <1>1
<1>3. MaxInt \in Nat /\ task.maxDelay \in Nat
  BY Settings
<1>4. b \in -(MaxInt + 1)..MaxInt
  BY <1>3, DurationRange
<1>5. e \in -(MaxInt + 1)..MaxInt
  BY <1>3, <1>4, JitteredRange
<1> QED
  BY <1>2, <1>3, <1>5 DEF Capped

\* The one fact about exponentiation the proofs need and the prover does not know.
PowersAreNatural == \A f, n \in Nat : f^n \in Nat

Base(n) == GetRetryDelay * GetRetryBackoffFactor^(n - 1)

\* A share of at most the whole, truncated, is at most the base either way.
LEMMA ShareOfBase ==
  ASSUME NEW h \in Nat \ {0}, NEW b \in Nat, NEW s \in -h..h, Half = h
  PROVE  Truncate(b * s) \in -b..b
<1>1. b * s \in Int /\ b * s <= b * h /\ -(b * s) <= b * h
  <2>1. b * (h - s) >= 0 /\ b * (h + s) >= 0
    BY SMT
  <2> QED
    BY <2>1, SMT
<1>2. \A y \in Nat : y <= b * h => y \div h \in 0..b
  BY SMT
<1> QED
  BY <1>1, <1>2 DEF Truncate

\* As long as twice the backoff is a Duration nothing overflows: the delay is the
\* backoff and its share of jitter, cut at max_delay.
LEMMA DelayExact ==
  ASSUME task \in Tasks, PowersAreNatural, NEW n \in Nat \ {0}, NEW d \in Delays(n), 2 * Base(n) <= MaxInt
  PROVE  \E share \in Shares \cup {0} : d = Capped(Base(n) + Truncate(Base(n) * share))
<1> DEFINE b == Base(n)
<1>1. /\ GetRetryDelay \in Nat \ {0} /\ GetRetryBackoffFactor \in Nat \ {0}
      /\ GetRetryJitter \in 0..Half /\ MaxInt \in Nat /\ Half \in Nat \ {0}
  BY Settings
<1>2. b \in Nat
  <2>1. n - 1 \in Nat
    OBVIOUS
  <2> QED
    BY <1>1, <2>1 DEF Base, PowersAreNatural
<1>3. Backoff(n) = b /\ Duration(b) = {b}
  BY <1>1, <1>2 DEF Backoff, Base, Duration
<1> HIDE DEF b
<1>4. PICK e \in Jittered(b) : d = Capped(e)
  BY <1>3 DEF Delays
<1>5. CASE Shares = {}
  <2>1. e = b
    BY <1>4, <1>5 DEF Jittered
  <2>2. Truncate(b * 0) = 0
    BY <1>1, <1>2 DEF Truncate
  <2> QED
    BY <1>2, <1>4, <2>1, <2>2 DEF b
<1>6. CASE Shares # {}
  <2>1. PICK share \in Shares : \E amount \in Duration(Truncate(b * share)) : e = AtLeastZero(Wrap(b + amount))
    BY <1>4, <1>6 DEF Jittered
  <2>2. share \in -Half..Half
    BY <1>1, <2>1 DEF Shares
  <2>3. Truncate(b * share) \in -b..b
    BY <1>1, <1>2, <2>2, ShareOfBase
  <2>4. 2 * b <= MaxInt
    BY DEF b
  <2>5. Duration(Truncate(b * share)) = {Truncate(b * share)}
    BY <1>1, <1>2, <2>3, <2>4 DEF Duration
  <2>6. e = AtLeastZero(Wrap(b + Truncate(b * share)))
    BY <2>1, <2>5
  <2>7. b + Truncate(b * share) \in 0..MaxInt
    BY <1>1, <1>2, <2>3, <2>4
  <2>8. e = b + Truncate(b * share)
    BY <1>1, <2>6, <2>7, WrapFacts DEF AtLeastZero
  <2> QED
    BY <1>4, <2>1, <2>8 DEF b
<1> QED
  BY <1>5, <1>6
-----------------------------------------------------------------------------
(* One step.                                                               *)

\* The actions one by one.
LEMMA SplitNext ==
  ASSUME Next
  PROVE  \/ Begin \/ Spawn \/ BreakLoop \/ LoopEnd \/ WaitAll \/ Register
         \/ \E i \in Items :
              \/ Birth(i) \/ Prepare(i) \/ Check(i) \/ Succeed(i) \/ Fail(i) \/ DelayOver(i)
              \/ DelayCancelled(i) \/ Report(i) \/ SendReport(i) \/ AbandonReport(i)
              \/ Flush(i) \/ Flushed(i) \/ Merge(i)
         \/ Expire \/ Cancel \/ UNCHANGED vars
BY DEF Next, Task, Instance, Attempt, Reporting, Ended

\* retry.Do gives up: what it leaves behind.
LEMMA GiveUpFacts ==
  ASSUME TypeOK, CtxDone, NEW i \in Items, GiveUp(i)
  PROVE  /\ pc' = [pc EXCEPT ![i] = "flush"] /\ wait' = [wait EXCEPT ![i] = 0]
         /\ \E e \in Errors : err' = [err EXCEPT ![i] = e]
<1>1. ctx \in Errors
  BY DEF TypeOK, CtxDone, Errors, CtxErrors
<1>2. err[i] # "none" => Redacted(err[i]) \subseteq Errors
  BY DEF TypeOK, Redacted, Errors
<1> QED
  BY <1>1, <1>2 DEF GiveUp

\* Perform failed: it was the last attempt, or there is a wait before the next.
LEMMA FailedFacts ==
  ASSUME TypeOK, NEW i \in Items, NEW e \in Errors, Failed(i, e)
  PROVE  /\ \E r \in Errors : err' = [err EXCEPT ![i] = r]
         /\ \/ pc' = [pc EXCEPT ![i] = "flush"] /\ wait' = wait
            \/ /\ pc' = [pc EXCEPT ![i] = "delay"] /\ attempt[i] < task.attempts
               /\ \E d \in Delays(attempt[i]) : wait' = [wait EXCEPT ![i] = d]
<1>1. Redacted(e) \subseteq Errors
  BY DEF Redacted, Errors
<1>2. attempt[i] \in 1..task.attempts /\ task.attempts \in Nat
  BY Settings DEF TypeOK
<1> QED
  BY <1>1, <1>2 DEF Failed

\* The types, with what the retries and the iterations bound.
LEMMA TypeStep ==
  ASSUME IInv, Next
  PROVE  TypeOK'
<1> USE DEF IInv
<1>0. /\ task.attempts \in Nat \ {0} /\ MaxInt \in Nat /\ Iterations \in Nat \ {0}
      /\ ErrCap \in Nat \ {0} /\ AggCap \in Nat \ {0} /\ MaxReports \in Nat
  BY Settings, AttemptsAssumption DEF TypeOK
<1>1. CASE Begin \/ BreakLoop \/ LoopEnd \/ WaitAll \/ Register \/ Expire \/ Cancel
  <2>1. ctx # "live" => ctx \in Errors
    BY DEF TypeOK, Errors
  <2>2. summary \in -1..Iterations
    BY <1>0 DEF TypeOK
  <2>3. CASE Begin \/ BreakLoop
    BY <2>1, <2>3
       DEF TypeOK, Begin, Stop, BreakLoop, FirstErr, Errors, CtxDone, taskVars, instVars, errVars
  <2>4. CASE LoopEnd \/ WaitAll \/ Register
    <3>1. 0 \in 0..AggCap /\ lost + agg \in Nat
      BY <1>0 DEF TypeOK
    <3> QED
      BY <2>2, <2>4, <3>1 DEF TypeOK, LoopEnd, WaitAll, Register, taskVars, instVars, errVars
  <2>5. CASE Expire \/ Cancel
    BY <2>5 DEF TypeOK, Expire, Cancel, CtxErrors, taskVars, instVars, errVars
  <2> QED
    BY <1>1, <2>3, <2>4, <2>5
<1>7. CASE Spawn
  <2>1. next + 1 \in 1..(Iterations + 1)
    BY <1>0, <1>7 DEF Spawn, Todo, Items
  <2> QED
    BY <1>7, <2>1 DEF TypeOK, Spawn, taskVars, instVars, errVars
<1>2. ASSUME NEW i \in Items, Birth(i) \/ Prepare(i) \/ Succeed(i) \/ DelayOver(i) \/ Merge(i)
      PROVE  TypeOK'
  <2>1. pc[i] = "delay" => attempt[i] + 1 \in 1..task.attempts
    <3>1. attempt[i] \in 1..task.attempts
      BY DEF TypeOK
    <3> QED
      BY <1>0, <3>1 DEF RetryInv
  <2>2. i \in 0..Iterations /\ 0 \in -(MaxInt + 1)..MaxInt
    BY <1>0 DEF Items
  <2>3. CASE Birth(i) \/ Prepare(i) \/ Succeed(i)
    BY <2>3 DEF TypeOK, Birth, Prepare, Succeed, Errors, taskVars, instVars, errVars
  <2>4. CASE DelayOver(i)
    BY <2>1, <2>2, <2>4 DEF TypeOK, DelayOver, taskVars, instVars, errVars
  <2>5. CASE Merge(i)
    BY <2>2, <2>5 DEF TypeOK, Merge, FirstErr, taskVars, instVars, errVars
  <2> QED
    BY <1>2, <2>3, <2>4, <2>5
<1>3. ASSUME NEW i \in Items, Report(i) \/ SendReport(i) \/ Flush(i) \/ Flushed(i)
      PROVE  TypeOK'
  BY <1>0, <1>3 DEF TypeOK, RetryInv, Report, SendReport, Flush, Flushed, taskVars, instVars, errVars
<1>4. ASSUME NEW i \in Items, Check(i) \/ DelayCancelled(i)
      PROVE  TypeOK'
  <2>1. CASE UNCHANGED <<err, wait>> /\ pc' = [pc EXCEPT ![i] = "perform"]
    BY <1>4, <2>1 DEF TypeOK, Check, DelayCancelled, taskVars, errVars
  <2>2. CASE GiveUp(i) /\ CtxDone
    <3>1. 0 \in -(MaxInt + 1)..MaxInt
      BY <1>0
    <3> QED
      BY <1>4, <2>2, <3>1, GiveUpFacts DEF TypeOK, Check, DelayCancelled, taskVars, errVars
  <2> QED
    BY <1>4, <2>1, <2>2 DEF Check, DelayCancelled
<1>5. ASSUME NEW i \in Items, Fail(i) \/ AbandonReport(i)
      PROVE  TypeOK'
  <2>1. PICK e \in Errors : Failed(i, e)
    BY <1>5 DEF Fail, AbandonReport, Errors, CtxErrors, CtxDone, TypeOK
  <2>2. \A d \in Delays(attempt[i]) : d \in -(MaxInt + 1)..MaxInt
    BY DelayRange DEF TypeOK
  <2>3. wait' \in [Items -> -(MaxInt + 1)..MaxInt]
    BY <2>1, <2>2, FailedFacts DEF TypeOK
  <2> QED
    BY <1>5, <2>1, <2>3, FailedFacts DEF TypeOK, Fail, AbandonReport, taskVars, errVars
<1>6. CASE UNCHANGED vars
  BY <1>6 DEF TypeOK, vars, taskVars, instVars, errVars
<1> QED
  BY <1>1, <1>2, <1>3, <1>4, <1>5, <1>6, <1>7, SplitNext

\* Outside the loop an iteration that runs goes from one state of Live to another,
\* to "cut" or to "ended"; next, tpc and the task stay.
LEMMA InstanceMoves ==
  ASSUME TypeOK, NEW i \in Items,
         \/ Birth(i) \/ Prepare(i) \/ Check(i) \/ Succeed(i) \/ Fail(i) \/ DelayOver(i)
         \/ DelayCancelled(i) \/ Report(i) \/ SendReport(i) \/ AbandonReport(i)
         \/ Flush(i) \/ Flushed(i) \/ Merge(i)
  PROVE  /\ i \in Live /\ UNCHANGED <<task, ctx, tpc, next, registered>>
         /\ \E to : pc' = [pc EXCEPT ![i] = to] /\ to # "idle" /\ (to = "cut" => CtxDone)
<1>1. CASE Birth(i) \/ Prepare(i) \/ Succeed(i) \/ DelayOver(i) \/ Merge(i)
  BY <1>1 DEF TypeOK, Live, Birth, Prepare, Succeed, DelayOver, Merge, taskVars
<1>2. CASE Report(i) \/ SendReport(i) \/ Flush(i) \/ Flushed(i)
  <2>1. CASE Flush(i)
    <3>1. pc' = [pc EXCEPT ![i] = "flush"]
      BY <2>1 DEF Flush, TypeOK, instVars
    <3> QED
      BY <2>1, <3>1 DEF Flush, Live, taskVars
  <2> QED
    BY <1>2, <2>1 DEF TypeOK, Live, Report, SendReport, Flushed, taskVars
<1>3. CASE Check(i) \/ DelayCancelled(i)
  BY <1>3 DEF TypeOK, Live, Check, DelayCancelled, GiveUp, taskVars
<1>4. CASE Fail(i) \/ AbandonReport(i)
  <2>1. \E e : Failed(i, e)
    BY <1>4 DEF Fail, AbandonReport
  <2> QED
    BY <1>4, <2>1 DEF TypeOK, Live, Fail, AbandonReport, Failed, taskVars
<1> QED
  BY <1>1, <1>2, <1>3, <1>4


\* Who is idle, cut or under way at each stage of ExecuteTask.
LEMMA LoopStep ==
  ASSUME IInv, Next
  PROVE  LoopInv'
<1> USE DEF IInv
<1>0. Iterations \in Nat \ {0} /\ next \in 1..(Iterations + 1)
  BY AttemptsAssumption DEF TypeOK
<1>1. CASE Begin
  <2>1. Live = {}
    <3>1. \A i \in Items : pc[i] = "idle"
      BY <1>1 DEF LoopInv, Begin, Items
    <3> QED
      BY <3>1 DEF Live
  <2>2. Live' = {} /\ Todo' = Todo
    BY <1>1, <2>1 DEF Begin, Live, instVars, Todo, Looped
  <2> QED
    BY <1>1, <2>2 DEF LoopInv, Begin, Stop, instVars, CtxDone
<1>2. CASE Spawn
  <2>1. next \in Items /\ Todo' = Todo
    BY <1>0, <1>2 DEF Spawn, Todo, Items, Looped
  <2>2. \A i \in Items : i < next' <=> i < next \/ i = next
    BY <1>0, <1>2 DEF Spawn, Items
  <2>3. \A i \in Items : pc'[i] = IF i = next THEN (IF Looped THEN "born" ELSE "prepare") ELSE pc[i]
    BY <1>2, <2>1 DEF Spawn, TypeOK
  <2>4. ctx' = ctx /\ tpc' = "loop" /\ next \in Todo
    BY <1>2 DEF Spawn
  <2> QED
    BY <2>1, <2>2, <2>3, <2>4 DEF LoopInv, CtxDone
<1>3. CASE BreakLoop \/ LoopEnd \/ WaitAll \/ Register
  <2>1. Live' = Live /\ Todo' = Todo
    BY <1>3 DEF BreakLoop, LoopEnd, WaitAll, Register, Live, Todo, Looped, instVars
  <2>2. CtxDone' = CtxDone
    BY <1>3 DEF BreakLoop, LoopEnd, WaitAll, Register, CtxDone
  <2>3. BreakLoop => firstErr' # "none"
    BY DEF BreakLoop, FirstErr, CtxDone, TypeOK, CtxErrors
  <2> QED
    BY <1>3, <2>1, <2>2, <2>3 DEF LoopInv, BreakLoop, LoopEnd, WaitAll, Register, instVars
<1>4. CASE Expire \/ Cancel
  <2>1. Live' = Live /\ Todo' = Todo /\ CtxDone'
    BY <1>4 DEF Expire, Cancel, Live, Todo, Looped, instVars, CtxDone
  <2> QED
    BY <1>4, <2>1 DEF LoopInv, Expire, Cancel, taskVars, instVars
<1>5. CASE UNCHANGED vars
  BY <1>5 DEF LoopInv, vars, taskVars, instVars, CtxDone, Todo, Looped, Live
<1>6. ASSUME NEW i \in Items,
             \/ Birth(i) \/ Prepare(i) \/ Check(i) \/ Succeed(i) \/ Fail(i) \/ DelayOver(i)
             \/ DelayCancelled(i) \/ Report(i) \/ SendReport(i) \/ AbandonReport(i)
             \/ Flush(i) \/ Flushed(i) \/ Merge(i)
      PROVE  LoopInv'
  <2>1. /\ i \in Live /\ UNCHANGED <<task, ctx, tpc, next, registered>>
        /\ \E to : pc' = [pc EXCEPT ![i] = to] /\ to # "idle" /\ (to = "cut" => CtxDone)
    BY <1>6, InstanceMoves
  <2>2. tpc \notin {"register", "done"} /\ pc[i] # "idle" /\ Todo' = Todo /\ CtxDone' = CtxDone
    BY <2>1 DEF LoopInv, Live, Todo, Looped, CtxDone
  <2>3. firstErr # "none" => firstErr' # "none"
    BY <1>6 DEF Birth, Prepare, Check, Succeed, Fail, DelayOver, DelayCancelled, Report, SendReport,
                AbandonReport, Flush, Flushed, Merge, FirstErr, taskVars
  <2>4. \A j \in Items : (pc'[j] = "idle" <=> pc[j] = "idle") /\ (pc'[j] = "cut" => CtxDone)
    BY <2>1, <2>2 DEF LoopInv, TypeOK
  <2> QED
    BY <2>1, <2>2, <2>3, <2>4 DEF LoopInv
<1> QED
  BY <1>1, <1>2, <1>3, <1>4, <1>5, <1>6, SplitNext

\* What ended without an error, and what the summary is of.
LEMMA ResultStep ==
  ASSUME IInv, Next
  PROVE  ResultInv'
<1> USE DEF IInv
<1>1. CASE Begin
  <2>1. \A i \in Items : pc[i] = "idle"
    BY <1>1 DEF LoopInv, Begin, Items
  <2>2. summary = 0
    BY <2>1, AttemptsAssumption DEF ResultInv, TypeOK, Items
  <2> QED
    BY <1>1, <2>1, <2>2 DEF ResultInv, Begin, Stop, instVars
<1>2. CASE Spawn
  <2>1. next \in Items /\ pc[next] = "idle"
    BY <1>2, AttemptsAssumption DEF LoopInv, Spawn, Todo, Items, TypeOK
  <2>2. \A i : i \in Items /\ pc[i] = "ended" <=> i \in Items /\ pc'[i] = "ended"
    BY <1>2, <2>1 DEF Spawn, TypeOK
  <2>3. summary # 0 => summary \in Items
    BY AttemptsAssumption DEF TypeOK, Items
  <2> QED
    BY <1>2, <2>2, <2>3 DEF ResultInv, Spawn
<1>3. CASE BreakLoop \/ LoopEnd \/ WaitAll
  <2>1. BreakLoop => firstErr' # "none"
    BY DEF BreakLoop, FirstErr, CtxDone, TypeOK, CtxErrors
  <2> QED
    BY <1>3, <2>1 DEF ResultInv, BreakLoop, LoopEnd, WaitAll, instVars
<1>4. CASE Register
  BY <1>4 DEF ResultInv, LoopInv, Register, instVars, Todo, Looped
<1>5. CASE Expire \/ Cancel \/ UNCHANGED vars
  BY <1>5 DEF ResultInv, Expire, Cancel, vars, taskVars, instVars, Todo, Looped
<1>6. ASSUME NEW i \in Items,
             \/ Birth(i) \/ Prepare(i) \/ Check(i) \/ Succeed(i) \/ Fail(i) \/ DelayOver(i)
             \/ DelayCancelled(i) \/ Report(i) \/ SendReport(i) \/ AbandonReport(i)
             \/ Flush(i) \/ Flushed(i) \/ Merge(i)
      PROVE  ResultInv'
  <2>1. /\ i \in Live /\ UNCHANGED <<task, ctx, tpc, next, registered>>
        /\ \E to : pc' = [pc EXCEPT ![i] = to] /\ to # "idle" /\ (to = "cut" => CtxDone)
    BY <1>6, InstanceMoves
  <2>2. registered = -1 /\ registered' = -1 /\ pc[i] # "ended"
    BY <2>1 DEF LoopInv, ResultInv, Live
  <2>3. \A j \in Items \ {i} : pc'[j] = pc[j] /\ err'[j] = err[j]
    <3>1. \E e : err' = [err EXCEPT ![i] = e] \/ err' = err
      BY <1>6 DEF Birth, Prepare, Check, Succeed, Fail, DelayOver, DelayCancelled, GiveUp, Failed,
                  Report, SendReport, AbandonReport, Flush, Flushed, Merge, instVars
    <3> QED
      BY <2>1, <3>1 DEF TypeOK
  <2>4. summary # 0 => summary \in Items \ {i}
    BY <2>2, AttemptsAssumption DEF ResultInv, TypeOK, Items
  <2>5. CASE Merge(i)
    <3>1. pc'[i] = "ended" /\ err' = err /\ 0 \notin Items
      BY <2>5 DEF Merge, TypeOK, Items
    <3>2. CASE err[i] = "none"
      BY <2>2, <2>3, <2>4, <2>5, <3>1, <3>2 DEF ResultInv, Merge
    <3>3. CASE err[i] # "none"
      <4>1. firstErr' # "none" /\ summary' = summary
        BY <2>5, <3>3 DEF Merge, FirstErr
      <4> QED
        BY <2>2, <2>3, <2>4, <4>1 DEF ResultInv
    <3> QED
      BY <3>2, <3>3
  <2>6. CASE ~Merge(i)
    <3>1. UNCHANGED <<firstErr, summary>>
      BY <1>6, <2>6 DEF Birth, Prepare, Check, Succeed, Fail, DelayOver, DelayCancelled,
                  Report, SendReport, AbandonReport, Flush, Flushed, taskVars
    <3>2. pc'[i] # "ended"
      BY <1>6, <2>6 DEF TypeOK, Birth, Prepare, Check, Succeed, Fail, DelayOver, DelayCancelled, GiveUp,
                  Failed, Report, SendReport, AbandonReport, Flush, Flushed, instVars
    <3> QED
      BY <2>2, <2>3, <2>4, <3>1, <3>2 DEF ResultInv
  <2> QED
    BY <2>5, <2>6
<1> QED
  BY <1>1, <1>2, <1>3, <1>4, <1>5, <1>6, SplitNext

\* Attempts and reports left where one more of them follows.
LEMMA RetryStep ==
  ASSUME IInv, Next
  PROVE  RetryInv'
<1> USE DEF IInv
<1>1. CASE Begin \/ BreakLoop \/ LoopEnd \/ WaitAll \/ Register \/ Expire \/ Cancel \/ UNCHANGED vars
  BY <1>1 DEF RetryInv, Begin, BreakLoop, LoopEnd, WaitAll, Register, Expire, Cancel,
              vars, taskVars, instVars, errVars
<1>2. CASE Spawn
  <2>1. \A i \in Items : pc'[i] \in {"delay", "report"} => pc[i] = pc'[i]
    BY <1>2 DEF Spawn, TypeOK
  <2> QED
    BY <1>2, <2>1 DEF RetryInv, Spawn, errVars
<1>3. ASSUME NEW i \in Items, Birth(i) \/ Prepare(i) \/ Succeed(i) \/ Flushed(i) \/ Merge(i)
      PROVE  RetryInv'
  <2>1. \A j \in Items : pc'[j] \in {"delay", "report"} => pc[j] = pc'[j]
    BY <1>3 DEF Birth, Prepare, Succeed, Flushed, Merge, TypeOK
  <2> QED
    BY <1>3, <2>1 DEF RetryInv, Birth, Prepare, Succeed, Flushed, Merge, errVars
<1>4. ASSUME NEW i \in Items, Check(i) \/ DelayCancelled(i)
      PROVE  RetryInv'
  <2>1. \A j \in Items : pc'[j] \in {"delay", "report"} => pc[j] = pc'[j]
    BY <1>4 DEF Check, DelayCancelled, GiveUp, TypeOK
  <2> QED
    BY <1>4, <2>1 DEF RetryInv, Check, DelayCancelled, errVars
<1>5. ASSUME NEW i \in Items, DelayOver(i) \/ SendReport(i)
      PROVE  RetryInv'
  <2>1. \A j \in Items \ {i} : pc'[j] = pc[j] /\ attempt'[j] = attempt[j] /\ reports'[j] = reports[j]
    BY <1>5 DEF DelayOver, SendReport, TypeOK, errVars
  <2>2. pc'[i] \notin {"delay", "report"} /\ task' = task
    BY <1>5 DEF DelayOver, SendReport, TypeOK
  <2> QED
    BY <2>1, <2>2 DEF RetryInv
<1>6. ASSUME NEW i \in Items, Report(i) \/ Flush(i)
      PROVE  RetryInv'
  BY <1>6 DEF RetryInv, Report, Flush, TypeOK, instVars, errVars
<1>7. ASSUME NEW i \in Items, Fail(i) \/ AbandonReport(i)
      PROVE  RetryInv'
  <2>1. PICK e \in Errors : Failed(i, e)
    BY <1>7 DEF Fail, AbandonReport, Errors, CtxErrors, CtxDone, TypeOK
  <2>2. \/ pc' = [pc EXCEPT ![i] = "flush"]
        \/ pc' = [pc EXCEPT ![i] = "delay"] /\ attempt[i] < task.attempts
    BY <2>1, FailedFacts
  <2>3. /\ \A j \in Items \ {i} : pc'[j] = pc[j]
        /\ pc'[i] = "flush" \/ (pc'[i] = "delay" /\ attempt[i] < task.attempts)
    BY <2>2 DEF TypeOK
  <2>4. UNCHANGED <<task, attempt, reports>>
    BY <1>7 DEF Fail, AbandonReport, errVars
  <2> QED
    BY <2>3, <2>4 DEF RetryInv
<1> QED
  BY <1>1, <1>2, <1>3, <1>4, <1>5, <1>6, <1>7, SplitNext

\* The first state.
LEMMA InitInv == Init => IInv
<1> SUFFICES ASSUME Init PROVE IInv
  OBVIOUS
<1>1. task.attempts \in Nat \ {0} /\ MaxInt \in Nat
  BY Settings DEF Init
<1>2. TypeOK
  <2>1. 0 \in -(MaxInt + 1)..MaxInt /\ 1 \in 1..task.attempts /\ 1 \in 1..(Iterations + 1)
    BY <1>1, AttemptsAssumption
  <2>2. /\ 0 \in 0..ErrCap /\ 0 \in 0..AggCap /\ 0 \in 0..MaxReports /\ 0 \in 0..Iterations
        /\ -1 \in -1..Iterations
    BY AttemptsAssumption
  <2> QED
    BY <2>1, <2>2 DEF Init, TypeOK
<1>3. Live = {}
  BY DEF Init, Live
<1>4. \A i \in Items : ~(i < 1)
  BY AttemptsAssumption DEF Items
<1> QED
  BY <1>2, <1>3, <1>4 DEF IInv, Init, LoopInv, ResultInv, RetryInv

\* The invariant holds in every reachable state.
LEMMA Inductive == Spec => []IInv
<1>1. IInv /\ [Next]_vars => IInv'
  <2>1. CASE Next
    BY <2>1, TypeStep, LoopStep, ResultStep, RetryStep DEF IInv
  <2>2. IInv /\ UNCHANGED vars => IInv'
    BY DEF IInv, TypeOK, LoopInv, ResultInv, RetryInv, vars, taskVars, instVars, errVars,
                CtxDone, Todo, Looped, Live
  <2> QED
    BY <2>1, <2>2
<1> QED
  BY <1>1, InitInv, PTL DEF Spec
-----------------------------------------------------------------------------
\* The variables keep their types, no attempt is made beyond the configured
\* number, a wait is a Duration, and the error channels never exceed their
\* capacities (task_runner.go, retry.go).
THEOREM TypesKept == Spec => []TypeOK
<1>1. IInv => TypeOK
  BY DEF IInv
<1> QED
  BY <1>1, Inductive, PTL

\* ExecuteTask stores a result under the task's variable only when every iteration
\* that ran succeeded and the others were cut by the context (task_runner.go:248,
\* 264, 297), for any loop, parallelism and policy; which summaries a result
\* should hold is not part of it.
THEOREM RegistersOnlySuccess == Spec => []RegisteredSound
<1>1. IInv => RegisteredSound
  <2> SUFFICES ASSUME IInv, registered # -1
               PROVE  RegisteredSound
    BY DEF RegisteredSound
  <2>1. /\ tpc = "done" /\ firstErr = "none" /\ registered = summary /\ next \notin Todo /\ Live = {}
        /\ next \in 1..(Iterations + 1) /\ summary \in 0..Iterations /\ Iterations \in Nat \ {0}
    BY AttemptsAssumption DEF IInv, ResultInv, LoopInv, TypeOK
  <2>2. \A i \in Todo : i \in Items /\ i < next
    BY <2>1 DEF Todo, Items
  <2>3. \A i \in Todo : pc[i] \in {"cut", "ended"}
    BY <2>1, <2>2 DEF IInv, LoopInv, Live
  <2>4. \A i \in Todo : pc[i] = "ended" => err[i] = "none" /\ summary # 0
    BY <2>1, <2>2 DEF IInv, ResultInv
  <2>5. \A i \in Todo : pc[i] = "cut" => CtxDone
    BY <2>2 DEF IInv, LoopInv
  <2> QED
    BY <2>1, <2>3, <2>4, <2>5 DEF RegisteredSound, IInv, ResultInv
<1> QED
  BY <1>1, Inductive, PTL
-----------------------------------------------------------------------------
(* Record errors.                                                          *)

\* Counts that are bounded have finitely many numbered reports.
LEMMA NumberedFinite ==
  ASSUME NEW B \in Nat, NEW f \in [Items -> 0..B]
  PROVE  IsFiniteSet(Numbered(f)) /\ Cardinality(Numbered(f)) \in Nat
<1>1. IsFiniteSet(Items \X (1..B))
  <2>1. IsFiniteSet(1..Iterations) /\ IsFiniteSet(1..B)
    BY AttemptsAssumption, FS_Interval
  <2> QED
    BY <2>1, FS_Product DEF Items
<1>2. Numbered(f) \subseteq Items \X (1..B)
  BY DEF Numbered
<1> QED
  BY <1>1, <1>2, FS_Subset, FS_CardinalityType

\* One report more is one numbered report more.
LEMMA OneMore ==
  ASSUME NEW B \in Nat, NEW f \in [Items -> 0..B], NEW i \in Items
  PROVE  Cardinality(Numbered([f EXCEPT ![i] = @ + 1])) = Cardinality(Numbered(f)) + 1
<1> DEFINE g == [f EXCEPT ![i] = @ + 1]
           new == <<i, f[i] + 1>>
<1>1. /\ g[i] = f[i] + 1 /\ f[i] \in Nat
      /\ \A j \in Items \ {i} : g[j] = f[j]
  OBVIOUS
<1> HIDE DEF g
<1>2. \A x : x \in Numbered(f) <=> \E j \in Items : \E n \in 1..f[j] : x = <<j, n>>
  BY DEF Numbered
<1>3. \A x : x \in Numbered(g) <=> \E j \in Items : \E n \in 1..g[j] : x = <<j, n>>
  BY DEF Numbered
<1>4. 1..g[i] = 1..f[i] \cup {f[i] + 1}
  BY <1>1
<1>5. Numbered(g) = Numbered(f) \cup {new}
  BY <1>1, <1>2, <1>3, <1>4
<1>6. new \notin Numbered(f)
  BY <1>1, <1>2
<1> QED
  BY <1>5, <1>6, NumberedFinite, FS_AddElement DEF g

\* One report less, likewise.
LEMMA OneLess ==
  ASSUME NEW B \in Nat, NEW f \in [Items -> 0..B], NEW i \in Items, f[i] > 0
  PROVE  Cardinality(Numbered(f)) = Cardinality(Numbered([f EXCEPT ![i] = @ - 1])) + 1
<1> DEFINE g == [f EXCEPT ![i] = @ - 1]
<1>1. g \in [Items -> 0..B] /\ f = [g EXCEPT ![i] = @ + 1]
  <2>1. f[i] \in 0..B /\ f[i] - 1 \in 0..B /\ (f[i] - 1) + 1 = f[i]
    OBVIOUS
  <2>2. g \in [Items -> 0..B] /\ g[i] = f[i] - 1 /\ \A j \in Items \ {i} : g[j] = f[j]
    BY <2>1
  <2> QED
    BY <2>1, <2>2
<1> HIDE DEF g
<1>2. Cardinality(Numbered(f)) = Cardinality(Numbered(g)) + 1
  BY <1>1, OneMore
<1> QED
  BY <1>1, <1>2, NumberedFinite DEF g

\* A report moves from moduleErrChan to aggregatedErrChan, or is lost with the
\* context done or at the end of the task; nothing else touches one.
LEMMA ReportStep ==
  ASSUME IInv, ReportsAccounted, [Next]_vars
  PROVE  ReportsAccounted'
<1> USE DEF IInv
<1>1. /\ ErrCap \in Nat /\ MaxReports \in Nat /\ agg \in Nat /\ lost \in Nat
      /\ errs \in [Items -> 0..ErrCap] /\ reports \in [Items -> 0..MaxReports]
  BY AttemptsAssumption DEF TypeOK
<1>2. CtxDone => CtxDone'
  BY SplitNext DEF vars, Begin, Spawn, BreakLoop, LoopEnd, WaitAll, Register, Birth, Prepare, Check, Succeed,
        Fail, DelayOver, DelayCancelled, Report, SendReport, AbandonReport, Flush, Flushed, Merge, Expire,
        Cancel, CtxDone
<1>3. tpc = "done" => tpc' = "done"
  BY SplitNext, InstanceMoves DEF vars, taskVars, Begin, Spawn, BreakLoop, LoopEnd, WaitAll, Register, Expire, Cancel
<1>4. ASSUME NEW i \in Items, SendReport(i)
      PROVE  ReportsAccounted'
  <2>1. /\ Cardinality(Numbered(errs')) = Cardinality(Numbered(errs)) + 1
        /\ Cardinality(Numbered(reports')) = Cardinality(Numbered(reports)) + 1
    BY <1>1, <1>4, OneMore DEF SendReport
  <2>2. PICK e \in Nat : e = Cardinality(Numbered(errs))
    BY <1>1, NumberedFinite
  <2>3. Cardinality(Numbered(reports')) = (e + 1) + agg + lost
    <3>1. Cardinality(Numbered(reports)) = e + agg + lost
      BY <2>2 DEF ReportsAccounted
    <3> QED
      BY <1>1, <2>1, <2>2, <3>1
  <2>4. Cardinality(Numbered(reports')) = Cardinality(Numbered(errs')) + agg' + lost'
    BY <1>4, <2>1, <2>2, <2>3 DEF SendReport
  <2>5. lost' > 0 => CtxDone' \/ tpc' = "done"
    BY <1>2, <1>4 DEF SendReport, ReportsAccounted, taskVars
  <2> QED
    BY <2>4, <2>5 DEF ReportsAccounted, Numbered
<1>5. ASSUME NEW i \in Items, Flush(i)
      PROVE  ReportsAccounted'
  <2>1. Cardinality(Numbered(errs)) = Cardinality(Numbered(errs')) + 1
    BY <1>1, <1>5, OneLess DEF Flush
  <2>2. errs' \in [Items -> 0..ErrCap]
    BY <1>1, <1>5 DEF Flush
  <2>3. PICK e \in Nat : e = Cardinality(Numbered(errs'))
    BY <1>1, <2>2, NumberedFinite
  <2>4. Cardinality(Numbered(reports')) = (e + 1) + agg + lost
    BY <1>5, <2>1, <2>3 DEF Flush, ReportsAccounted
  <2>5. Cardinality(Numbered(reports')) = e + agg' + lost' /\ (lost' > 0 => CtxDone' \/ tpc' = "done")
    <3>1. CASE agg' = agg + 1 /\ lost' = lost
      BY <1>1, <1>2, <1>5, <2>3, <2>4, <3>1 DEF ReportsAccounted, Flush, taskVars
    <3>2. CASE lost' = lost + 1 /\ agg' = agg /\ CtxDone
      BY <1>1, <1>2, <2>3, <2>4, <3>2
    <3> QED
      BY <1>5, <3>1, <3>2 DEF Flush
  <2> QED
    BY <2>3, <2>5 DEF ReportsAccounted, Numbered
<1>6. CASE Register
  <2>1. /\ agg' = 0 /\ lost' = lost + agg /\ tpc' = "done"
        /\ Numbered(errs)' = Numbered(errs) /\ Numbered(reports)' = Numbered(reports)
    BY <1>6 DEF Register, Numbered
  <2>2. PICK e \in Nat : e = Cardinality(Numbered(errs))
    BY <1>1, NumberedFinite
  <2>3. Cardinality(Numbered(reports)) = e + agg + lost
    BY <2>2 DEF ReportsAccounted
  <2> QED
    BY <1>1, <2>1, <2>2, <2>3 DEF ReportsAccounted
<1>7. CASE UNCHANGED errVars
  BY <1>2, <1>7, <1>3 DEF errVars, ReportsAccounted, Numbered
<1>8. \/ UNCHANGED errVars
      \/ Register
      \/ \E i \in Items : SendReport(i) \/ Flush(i)
  BY SplitNext DEF vars, Begin, Spawn, BreakLoop, LoopEnd, WaitAll, Birth, Prepare, Check, Succeed,
        Fail, DelayOver, DelayCancelled, Report, AbandonReport, Flushed, Merge, Expire, Cancel
<1> QED
  BY <1>4, <1>5, <1>6, <1>7, <1>8

\* While the task runs, every record error is in one of the two channels or was
\* given up with the context done (task_runner.go:459-477), for any capacities
\* and any interleaving of the iterations; the end of the task loses the rest.
THEOREM ReportsKept == Spec => []ReportsAccounted
<1>1. Init => ReportsAccounted
  <2> SUFFICES ASSUME Init PROVE ReportsAccounted
    OBVIOUS
  <2>1. reports = errs /\ 0 \in 0..ErrCap /\ errs \in [Items -> 0..ErrCap] /\ ErrCap \in Nat
    BY AttemptsAssumption DEF Init
  <2> QED
    BY <2>1, NumberedFinite DEF Init, ReportsAccounted
<1>2. IInv /\ ReportsAccounted /\ [Next]_vars => ReportsAccounted'
  BY ReportStep
<1> QED
  BY <1>1, <1>2, Inductive, PTL DEF Spec
-----------------------------------------------------------------------------
\* A step that starts a wait takes one of the Delays of the attempt, others keep
\* the wait and what it was computed from.
LEMMA WaitStep ==
  ASSUME PowersAreNatural, IInv, IInv', WaitInRange, [Next]_vars
  PROVE  WaitInRange'
<1> USE DEF IInv
<1>1. task' = task
  BY SplitNext DEF vars, Begin, Spawn, BreakLoop, LoopEnd, WaitAll, Register, Birth, Prepare, Check, Succeed,
        Fail, DelayOver, DelayCancelled, Report, SendReport, AbandonReport, Flush, Flushed, Merge, Expire, Cancel
<1>2. ASSUME NEW i \in Items, pc'[i] = "delay"
      PROVE  /\ attempt'[i] = attempt[i]
             /\ \/ pc[i] = "delay" /\ wait'[i] = wait[i]
                \/ wait'[i] \in Delays(attempt[i])
  <2>1. CASE UNCHANGED instVars
    BY <1>2, <2>1 DEF instVars
  <2>2. CASE Spawn
    BY <1>2, <2>2 DEF Spawn, TypeOK
  <2>3. ASSUME NEW j \in Items, Birth(j) \/ Prepare(j) \/ Succeed(j) \/ Flushed(j) \/ Merge(j)
        PROVE  pc[i] = "delay" /\ wait'[i] = wait[i] /\ attempt'[i] = attempt[i]
    BY <1>2, <2>3 DEF Birth, Prepare, Succeed, Flushed, Merge, TypeOK
  <2>4. ASSUME NEW j \in Items, Check(j) \/ DelayCancelled(j)
        PROVE  pc[i] = "delay" /\ wait'[i] = wait[i] /\ attempt'[i] = attempt[i]
    BY <1>2, <2>4 DEF Check, DelayCancelled, GiveUp, TypeOK
  <2>5. ASSUME NEW j \in Items, DelayOver(j) \/ Report(j) \/ SendReport(j)
        PROVE  pc[i] = "delay" /\ wait'[i] = wait[i] /\ attempt'[i] = attempt[i]
    BY <1>2, <2>5 DEF DelayOver, Report, SendReport, TypeOK
  <2>6. ASSUME NEW j \in Items, Fail(j) \/ AbandonReport(j)
        PROVE  /\ attempt'[i] = attempt[i]
               /\ \/ pc[i] = "delay" /\ wait'[i] = wait[i]
                  \/ wait'[i] \in Delays(attempt[i])
    <3>1. PICK e \in Errors : Failed(j, e)
      BY <2>6 DEF Fail, AbandonReport, Errors, CtxErrors, CtxDone, TypeOK
    <3>2. attempt' = attempt
      BY <2>6 DEF Fail, AbandonReport
    <3> QED
      BY <1>2, <3>1, <3>2, FailedFacts DEF TypeOK
  <2>7. (\E j \in Items : Flush(j)) \/ Begin \/ BreakLoop \/ LoopEnd \/ WaitAll \/ Register \/ Expire \/ Cancel
          \/ UNCHANGED vars => UNCHANGED instVars
    BY DEF Flush, Begin, BreakLoop, LoopEnd, WaitAll, Register, Expire, Cancel, vars
  <2> QED
    BY <2>1, <2>2, <2>3, <2>4, <2>5, <2>6, <2>7, SplitNext
<1>3. ASSUME NEW i \in Items, pc'[i] = "delay"
      PROVE  /\ task.maxDelay > 0 => wait'[i] <= task.maxDelay
             /\ 2 * Base(attempt[i]) <= MaxInt =>
                  \E share \in Shares \cup {0} :
                    wait'[i] = Capped(Base(attempt[i]) + Truncate(Base(attempt[i]) * share))
  <2>1. attempt[i] \in Nat \ {0} /\ task \in Tasks
    BY Settings DEF TypeOK
  <2>2. CASE pc[i] = "delay" /\ wait'[i] = wait[i]
    BY <2>2 DEF WaitInRange, Base
  <2>3. CASE wait'[i] \in Delays(attempt[i])
    BY <2>1, <2>3, DelayRange, DelayExact
  <2> QED
    BY <1>2, <1>3, <2>2, <2>3
<1>4. /\ GetRetryDelay' = GetRetryDelay /\ GetRetryBackoffFactor' = GetRetryBackoffFactor
      /\ Shares' = Shares
  BY <1>1 DEF GetRetryDelay, GetRetryBackoffFactor, Shares, GetRetryJitter
<1> QED
  BY <1>1, <1>2, <1>3, <1>4 DEF WaitInRange, Base, Capped

\* retry.Do never waits longer than max_delay, overflow or not, and while twice the
\* backoff is a Duration it waits the backoff up to the jitter (retry.go:99-125),
\* for any attempt, factor and jitter.
THEOREM WaitsInRange ==
  ASSUME PowersAreNatural
  PROVE  Spec => []WaitInRange
<1>1. Init => WaitInRange
  BY DEF Init, WaitInRange
<1>2. IInv /\ IInv' /\ WaitInRange /\ [Next]_vars => WaitInRange'
  BY WaitStep
<1> QED
  BY <1>1, <1>2, Inductive, PTL DEF Spec
=============================================================================
