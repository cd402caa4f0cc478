---------------------------- MODULE PlaybookRun ----------------------------
(***************************************************************************)
(* What a call of Engine.RunPlaybook promises about the tasks of a         *)
(* playbook, with no goroutine, queue, counter or timer in sight: tasks    *)
(* start after what they depend on, end once, and the call returns nil     *)
(* only when all of them ended well.                                       *)
(***************************************************************************)
CONSTANTS Tasks, StateDeps, StreamDeps

VARIABLES
  status,  \* the status of each task
  result   \* what RunPlaybook returned: "running", "nil" or "error"

vars == <<status, result>>

Ended == {"Completed", "Skipped"}

Init ==
  /\ status = [t \in Tasks |-> "Pending"]
  /\ result = "running"

\* A task starts when what it reads state from ended well and what it streams
\* from has started; nothing starts once the call has chosen its result.
Start(t) ==
  /\ result = "running" /\ status[t] = "Pending"
  /\ \A p \in StateDeps[t] : status[p] \in Ended
  /\ \A p \in StreamDeps[t] : status[p] # "Pending"
  /\ status' = [status EXCEPT ![t] = "Running"]
  /\ UNCHANGED result

\* A running task ends, possibly after the call gave up waiting for it.
End(t, s) ==
  /\ status[t] = "Running"
  /\ status' = [status EXCEPT ![t] = s]
  /\ UNCHANGED result

Decide(r) ==
  /\ result = "running"
  /\ r = "nil" => \A t \in Tasks : status[t] \in Ended
  /\ result' = r
  /\ UNCHANGED status

Next ==
  \/ \E t \in Tasks : Start(t)
  \/ \E t \in Tasks, s \in Ended \cup {"Failed"} : End(t, s)
  \/ \E r \in {"nil", "error"} : Decide(r)

Spec == Init /\ [][Next]_vars
=============================================================================
