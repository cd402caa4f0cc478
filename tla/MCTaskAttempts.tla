---------------------------- MODULE MCTaskAttempts ----------------------------
(* Loops of three iterations, two or one at a time, and tasks without a    *)
(* loop.  Delays start at 9 and grow by 4: the third attempt's backoff is  *)
(* past the largest Duration, 31.                                          *)
EXTENDS TaskAttemptsProperties

Plain == [when |-> FALSE, loop |-> "none", parallel |-> 0, timeout |-> 0, attempts |-> 1, delay |-> 0,
          maxDelay |-> 0, factor |-> -1, jitter |-> -1, onError |-> TRUE]
Retried == [Plain EXCEPT !.attempts = 3, !.delay = 9, !.factor = 4, !.jitter = 2, !.timeout = 1]

MCTasks == {
  Plain,
  [Retried EXCEPT !.maxDelay = 12], [Retried EXCEPT !.jitter = -1, !.when = TRUE],
  [Retried EXCEPT !.onError = FALSE, !.delay = 0],
  [Plain EXCEPT !.loop = "bad"], [Plain EXCEPT !.loop = "empty"],
  [Retried EXCEPT !.loop = "items", !.attempts = 2],
  [Plain EXCEPT !.loop = "items", !.parallel = 2, !.attempts = 2, !.timeout = 1] }
=============================================================================
