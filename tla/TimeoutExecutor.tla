--------------------------- MODULE TimeoutExecutor ---------------------------
(***************************************************************************)
(* TimeoutExecutor (more_executors/_impl/timeout.py): a thread of its own  *)
(* cancels each future that is not done by its deadline.  The futures are  *)
(* those of FutureChain.  A TimeoutExecutor makes MapFutures with the      *)
(* identity for a function; here they have any functions and may be        *)
(* FlatMapFutures, which have all the behaviours of those and more.        *)
(*                                                                         *)
(* Time is what is left: of each deadline, and of the thread's sleep.      *)
(***************************************************************************)
EXTENDS FutureChain, Integers, FiniteSetsExt

CONSTANTS
  Timeouts,  \* the timeouts submit_timeout may be given
  Foreign,   \* the futures whose delegate somebody else may cancel
  Forever    \* a sleep without an end

ASSUME TimeoutAssumption ==
  /\ IsFiniteSet(Futures)
  /\ Timeouts # {} /\ Timeouts \subseteq Nat
  /\ Foreign \subseteq Futures
  /\ Forever \notin Nat

VARIABLES
  placing,  \* progress of the submit() that makes f: one at a time
  jobs,     \* executor._jobs, by future
  left,     \* deadline - monotonic() of the job of each future; -1 is overdue
  thread,   \* program counter of the job thread
  overdue,  \* a local of the job thread: what it has yet to cancel
  tried,    \* the futures it has called cancel() on
  sleep,    \* wait_time, counted down
  event,    \* is executor._jobs_write set?
  shut      \* progress of shutdown()

worker == <<thread, overdue, tried, sleep>>
vars == <<chain, placing, jobs, left, worker, event, shut>>

Lefts == {-1} \cup UNION {0..t : t \in Timeouts}

TypeOK ==
  /\ ChainTypeOK
  /\ placing \in [Futures -> {"none", "built", "hooked", "listed", "returned"}]
  /\ jobs \subseteq Futures /\ left \in [Futures -> Lefts]
  /\ thread \in {"top", "scan", "cancel", "cancelling", "waiting", "clear", "exited"}
  /\ overdue \subseteq Futures /\ tried \subseteq Futures
  /\ sleep \in (Lefts \ {-1}) \cup {Forever}
  /\ event \in BOOLEAN
  /\ shut \in {"open", "flagged", "waiting", "returned"}

Init ==
  /\ ChainInit
  /\ placing = [f \in Futures |-> "none"]
  /\ jobs = {} /\ left = [f \in Futures |-> -1]
  /\ thread = "top" /\ overdue = {} /\ tried = {} /\ sleep = Forever
  /\ event = FALSE
  /\ shut = "open"

-----------------------------------------------------------------------------
(* submit_timeout(), under the lock of the ShutdownHelper *)

Placing == \E f \in Futures : placing[f] \in {"built", "hooked", "listed"}

Submit(f) ==
  /\ ~Placing
  /\ shut = "open"
  /\ Create(f)
  /\ placing' = [placing EXCEPT ![f] = "built"]
  /\ UNCHANGED <<jobs, left, worker, event, shut>>

\* future.add_done_callback(self._on_future_done)
HookCallback(f) ==
  /\ placing[f] = "built"
  /\ AddCallback(f)
  /\ placing' = [placing EXCEPT ![f] = "hooked"]
  /\ UNCHANGED <<jobs, left, worker, event, shut>>

AppendJob(f) ==
  /\ placing[f] = "hooked"
  /\ \E t \in Timeouts : left' = [left EXCEPT ![f] = t]
  /\ jobs' = jobs \cup {f}
  /\ placing' = [placing EXCEPT ![f] = "listed"]
  /\ UNCHANGED <<chain, worker, event, shut>>

SubmitWakeForgotten(f) ==
  /\ placing[f] = "listed"
  /\ placing' = [placing EXCEPT ![f] = "returned"]
  /\ UNCHANGED <<chain, jobs, left, worker, event, shut>>
SubmitWake(f) ==
  /\ placing[f] = "listed"
  /\ event' = TRUE
  /\ placing' = [placing EXCEPT ![f] = "returned"]
  /\ UNCHANGED <<chain, jobs, left, worker, shut>>

-----------------------------------------------------------------------------
(* The futures *)

Resolve(f) == Attach(f) \/ Unlink(f) \/ Settle(f) \/ Flatten(f) \/ CancelCommit(f)

OnFutureDone(f) ==
  /\ RunCallback(f)
  /\ event' = TRUE
  /\ UNCHANGED <<placing, jobs, left, worker, shut>>

Tick ==
  /\ left' = [f \in Futures |-> Max({left[f] - 1, -1})]
  /\ sleep' = IF sleep \in {Forever, 0} THEN sleep ELSE sleep - 1
  /\ <<left, sleep>>' # <<left, sleep>>
  /\ UNCHANGED <<chain, placing, jobs, thread, overdue, tried, event, shut>>

-----------------------------------------------------------------------------
(* The job thread *)

IsShutdown == shut # "open"

CheckShutdown ==
  /\ thread = "top"
  /\ thread' = IF IsShutdown THEN "exited" ELSE "scan"
  /\ UNCHANGED <<chain, placing, jobs, left, overdue, tried, sleep, event, shut>>

KeptUntilDone == {f \in jobs : Pending(f)}
Kept == {f \in jobs : Pending(f) /\ left[f] >= 0}

\* _partition_jobs, under _jobs_lock.
PartitionJobs ==
  /\ thread = "scan"
  /\ overdue' = {f \in jobs : Pending(f) /\ left[f] < 0}
  /\ jobs' = Kept
  /\ left' = [f \in Futures |-> IF f \in jobs' THEN left[f] ELSE -1]
  /\ thread' = "cancel"
  /\ UNCHANGED <<chain, placing, tried, sleep, event, shut>>

\* _do_cancel: the future has become done, or does not let itself be cancelled.
CancelOverdueFails(f) ==
  /\ thread = "cancel" /\ f \in overdue
  /\ CancelFails(f)
  /\ overdue' = overdue \ {f} /\ tried' = tried \cup {f}
  /\ UNCHANGED <<chain, placing, jobs, left, thread, sleep, event, shut>>

CancelOverdue(f) ==
  /\ thread = "cancel" /\ f \in overdue
  /\ CancelDelegate(f)
  /\ tried' = tried \cup {f}
  /\ thread' = "cancelling"
  /\ UNCHANGED <<placing, jobs, left, overdue, sleep, event, shut>>

CancelReturns(f) ==
  /\ thread = "cancelling" /\ f \in overdue \cap tried
  /\ ~holding[f] /\ hook[f] # "due"
  /\ overdue' = overdue \ {f}
  /\ thread' = "cancel"
  /\ UNCHANGED <<chain, placing, jobs, left, tried, sleep, event, shut>>

\* pending is the very list that executor._jobs names by now, so it has what
\* submit() appended since.
WaitTimeUnbounded == IF jobs = {} THEN Forever ELSE Min({left[f] : f \in jobs})
WaitTimeOfLast == IF jobs = {} THEN Forever ELSE Max({0, Max({left[f] : f \in jobs})})
WaitTime == IF jobs = {} THEN Forever ELSE Max({0, Min({left[f] : f \in jobs})})

SetWaitTime ==
  /\ thread = "cancel" /\ overdue = {}
  /\ sleep' = WaitTime
  /\ thread' = "waiting"
  /\ UNCHANGED <<chain, placing, jobs, left, overdue, tried, event, shut>>

WaitReturns ==
  /\ thread = "waiting"
  /\ event \/ sleep = 0
  /\ thread' = "clear" /\ sleep' = Forever
  /\ UNCHANGED <<chain, placing, jobs, left, overdue, tried, event, shut>>

ClearEvent ==
  /\ thread = "clear"
  /\ event' = FALSE
  /\ thread' = "top"
  /\ UNCHANGED <<chain, placing, jobs, left, overdue, tried, sleep, shut>>

-----------------------------------------------------------------------------
(* shutdown() *)

Shutdown ==
  /\ shut = "open" /\ ~Placing
  /\ shut' = "flagged"
  /\ UNCHANGED <<chain, placing, jobs, left, worker, event>>

ShutdownWake ==
  /\ shut = "flagged"
  /\ event' = TRUE
  /\ shut' = "waiting"
  /\ UNCHANGED <<chain, placing, jobs, left, worker>>

\* The delegate's shutdown(wait=True) waits for its futures, then the job
\* thread is joined.
ShutdownReturns ==
  /\ shut = "waiting"
  /\ \A f \in Futures : turn[f] = "first" => dstate[f] # "live"
  /\ thread = "exited"
  /\ shut' = "returned"
  /\ UNCHANGED <<chain, placing, jobs, left, worker, event>>

-----------------------------------------------------------------------------

JobThread ==
  \/ CheckShutdown \/ PartitionJobs \/ SetWaitTime \/ WaitReturns \/ ClearEvent
  \/ \E f \in Futures : CancelOverdueFails(f) \/ CancelOverdue(f) \/ CancelReturns(f)

\* What is under way for f: its submit(), _delegate_resolved, cancel(), callback.
UnderWay(f) ==
  \/ HookCallback(f) \/ AppendJob(f) \/ SubmitWake(f)
  \/ Resolve(f) /\ UNCHANGED <<placing, jobs, left, worker, event, shut>>
  \/ OnFutureDone(f)

FromOutside(f) ==
  /\ \/ DelegateFinish(f)
     \/ f \in Foreign /\ DelegateCancelledElsewhere(f)
     \/ placing[f] = "returned" /\ CancelDelegate(f)
  /\ UNCHANGED <<placing, jobs, left, worker, event, shut>>

Next ==
  \/ JobThread \/ Tick
  \/ Shutdown \/ ShutdownWake \/ ShutdownReturns
  \/ \E f \in Futures : Submit(f) \/ UnderWay(f) \/ FromOutside(f)

Spec == Init /\ [][Next]_vars

\* Threads run, and time passes; what is under way for a future ends after a few
\* steps.  Nothing obliges a delegate to finish.
FairSpec ==
  /\ Spec
  /\ WF_vars(JobThread) /\ WF_vars(Tick)
  /\ WF_vars(\E f \in Futures : UnderWay(f))

-----------------------------------------------------------------------------
(* Correctness *)

\* The assertion of _delegate_resolved (map.py:52) never fails: it runs for the
\* delegate that is linked, whatever cancels and completes in the meantime.
ResolveFindsDelegate ==
  \A f \in Futures : step[f] = "unlink" => link[f] = turn[f]

\* The job thread never sleeps past the deadline of a pending future, nor on
\* the job of a future that is done, unless somebody is about to wake it
\* (timeout.py:136-173): no wake up is lost between wait() and clear().
NoOversleep ==
  thread = "waiting" /\ ~event =>
    /\ shut \in {"open", "flagged"}
    /\ \A f \in jobs :
         \/ placing[f] = "listed" \/ hook[f] = "due"
         \/ Pending(f) /\ sleep \in 0..Max({0, left[f]})

\* Each pending future that was listed waits for its deadline, is about to be
\* cancelled, or was asked to, one of the three and once: "only a single attempt
\* is made to cancel any future" (timeout.py:35-36).
JobsAreExact ==
  \A f \in Futures :
    /\ f \in jobs => f \notin overdue \cup tried
    /\ Pending(f) /\ placing[f] \in {"listed", "returned"} => f \in jobs \cup overdue \cup tried

\* A future that settles nowhere has lost its delegate to somebody else's
\* cancel(): every other pending one has its delegate linked, its function
\* running, or _delegate_resolved on the way (map.py:25-83, flat_map.py:13-29).
OnlyCancelledAreLost ==
  \A f \in Futures : Pending(f) =>
    \/ step[f] # "done"
    \/ dstate[f] = "cancelled"

\* fn is never called for a future that was cancelled, or is being cancelled
\* (map.py:59-75): cancel() returns True only when the function will not run.
CancelledIsNotMapped ==
  [][\A f \in Futures : step[f] # "map" /\ step'[f] = "map" => Pending(f) /\ ~holding[f]]_vars

\* "if the future hasn't completed approximately within timeout seconds of its
\* creation, an attempt will be made to cancel the future" (timeout.py:31-33), as
\* long as the executor is not shut down: none stays on the list, or on its way
\* from there to cancel(), for ever.  A future is listed once, so that the moments
\* at which none is waiting say it of each.
Awaits(f) == Pending(f) /\ f \in jobs \cup overdue /\ f \notin tried
OverdueIsTried == []<>(IsShutdown \/ \A f \in Futures : ~Awaits(f))
==============================================================================
