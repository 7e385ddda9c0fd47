---------------------------- MODULE FuturePromise ----------------------------
(***************************************************************************)
(* What an executor of this package promises about the futures it returns, *)
(* whatever threads, queues and delegates it uses to keep the promise.     *)
(*                                                                         *)
(* A future is created pending and settles once.  Behind it, the callable  *)
(* is attempted: one attempt at a time, never again once somebody asked to *)
(* cancel, never behind a future that has settled.  A future settles with  *)
(* the outcome of its latest attempt, or as cancelled, and it is cancelled *)
(* only when somebody asked for it and no attempt goes on.                 *)
(***************************************************************************)
CONSTANT Futures

VARIABLES status,   \* of each future, as its client sees it
          attempt,  \* what the latest attempt behind it came to
          stopped   \* somebody has called cancel() on it

promise == <<status, attempt, stopped>>

Outcomes == {"result", "error"}
Settled == Outcomes \cup {"cancelled"}

Init ==
  /\ status = [f \in Futures |-> "unborn"]
  /\ attempt = [f \in Futures |-> "none"]
  /\ stopped = [f \in Futures |-> FALSE]

Create(f) ==
  /\ status[f] = "unborn"
  /\ status' = [status EXCEPT ![f] = "pending"]
  /\ UNCHANGED <<attempt, stopped>>

\* An attempt that was cancelled is not followed by another.
Begin(f) ==
  /\ status[f] = "pending"
  /\ ~stopped[f]
  /\ attempt[f] \in {"none"} \cup Outcomes
  /\ attempt' = [attempt EXCEPT ![f] = "live"]
  /\ UNCHANGED <<status, stopped>>

End(f) ==
  /\ attempt[f] = "live"
  /\ \E o \in Settled : attempt' = [attempt EXCEPT ![f] = o]
  /\ UNCHANGED <<status, stopped>>

Stop(f) ==
  /\ status[f] = "pending"
  /\ stopped' = [stopped EXCEPT ![f] = TRUE]
  /\ UNCHANGED <<status, attempt>>

Settle(f) ==
  /\ status[f] = "pending"
  /\ attempt[f] \in Outcomes
  /\ status' = [status EXCEPT ![f] = attempt[f]]
  /\ UNCHANGED <<attempt, stopped>>

Cancel(f) ==
  /\ status[f] = "pending"
  /\ stopped[f]
  /\ attempt[f] # "live"
  /\ status' = [status EXCEPT ![f] = "cancelled"]
  /\ UNCHANGED <<attempt, stopped>>

Next ==
  \E f \in Futures :
    \/ Create(f) \/ Begin(f) \/ End(f)
    \/ Stop(f) \/ Settle(f) \/ Cancel(f)

Spec == Init /\ [][Next]_promise
==============================================================================
