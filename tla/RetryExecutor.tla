---------------------------- MODULE RetryExecutor ----------------------------
(***************************************************************************)
(* RetryExecutor (more_executors/_impl/retry.py) above a delegate executor *)
(* whose submit() does not block: a pool, or another layer above a pool.   *)
(*                                                                         *)
(* Threads that take part, each with its program counter:                  *)
(*   - clients in submit(), at most one at a time (placing);               *)
(*   - one client at a time in cancel() of each future (canc[f]);          *)
(*   - whoever finishes a delegate future and runs its callback (cb[f][n]); *)
(*   - the submit thread (sub);                                            *)
(*   - one client in shutdown() (shut).                                    *)
(* An action is one critical section, or one access to shared state made   *)
(* outside of any lock.  Two locks matter: the future's _me_lock, which    *)
(* cancel() keeps across several actions, and the executor's _lock, which  *)
(* is never kept across two.                                               *)
(***************************************************************************)
EXTENDS Integers, FiniteSets, Functions

CONSTANTS
  Futures,        \* the futures clients may ask for
  MaxAttempts,    \* bound: a policy gives up at this attempt
  Sleeps,         \* what a policy may answer as sleep_time
  MaxCancels,     \* bound: calls of cancel() on all futures together
  RetryResults,   \* may a policy ask to retry after a result?
  ForeignCancel,  \* may somebody else cancel a delegate future?
  MayShutdown,    \* may a client call shutdown()?
  NoJob,          \* the submit thread holds no job
  Nobody          \* no client is inside submit()

ASSUME BoundsAssumption ==
  /\ MaxAttempts \in Nat \ {0}
  /\ MaxCancels \in Nat
  /\ Sleeps # {} /\ Sleeps \subseteq Nat

ASSUME SwitchAssumption == {RetryResults, ForeignCancel, MayShutdown} \subseteq BOOLEAN

\* The n-th delegate future of f is written f, n throughout.
Numbers == 1..MaxAttempts

\* A job without a delegate future waits for its time; one with a delegate
\* future runs.  The delegate future of a running job, and the old_delegate
\* of a waiting one, is <<fut, attempt>>.
Job == [fut : Futures, attempt : 0..MaxAttempts, running : BOOLEAN,
        when : Nat, stop : BOOLEAN]

ASSUME NoneAssumption == NoJob \notin Job /\ Nobody \notin Futures

VARIABLES
  state,    \* state of each RetryFuture
  jobs,     \* executor._jobs
  tries,    \* number of delegate futures made for each future
  link,     \* future.delegate_future, 0 for None
  dstate,   \* state of each delegate future
  cb,       \* progress of _delegate_callback on each delegate future
  sub,      \* program counter of the submit thread
  sel,      \* the job the submit thread has picked
  event,    \* is _submit_event set?
  now,      \* monotonic()
  canc,     \* program counter of cancel() on each future
  target,   \* the delegate future cancel() has found
  cancels,  \* calls of cancel() made on each future
  placing,  \* the future in submit(), which holds the lock of ensure_alive()
  shut      \* progress of shutdown()

futures == <<state, link>>
delegates == <<tries, dstate, cb>>
thread == <<sub, sel>>
cancelling == <<canc, target, cancels>>
vars == <<futures, delegates, thread, cancelling, jobs, event, now, placing,
          shut>>

Outcomes == {"result", "error"}
Settled == Outcomes \cup {"cancelled"}

TypeOK ==
  /\ state \in [Futures -> {"unborn", "pending"} \cup Settled]
  /\ jobs \subseteq Job
  /\ tries \in [Futures -> 0..MaxAttempts]
  /\ link \in [Futures -> 0..MaxAttempts]
  /\ dstate \in [Futures -> [Numbers -> {"none", "live"} \cup Settled]]
  /\ cb \in [Futures -> [Numbers -> {"none", "armed", "find", "retry", "rewake",
                                      "final", "pop", "done"}]]
  /\ sub \in {"top", "scan", "picked", "copy", "submitted", "incallback",
              "waiting", "clear", "exited", "dead"}
  /\ sel \in Job \cup {NoJob}
  /\ event \in BOOLEAN
  /\ now \in Nat
  /\ canc \in [Futures -> {"idle", "delegate", "commit", "refused", "orphan"}]
  /\ target \in [Futures -> 0..MaxAttempts]
  /\ cancels \in [Futures -> Nat]
  /\ placing \in Futures \cup {Nobody}
  /\ shut \in {"open", "flagged", "woken", "closing", "joining", "returned"}

Init ==
  /\ state = [f \in Futures |-> "unborn"]
  /\ jobs = {}
  /\ tries = [f \in Futures |-> 0]
  /\ link = [f \in Futures |-> 0]
  /\ dstate = [f \in Futures |-> [n \in Numbers |-> "none"]]
  /\ cb = [f \in Futures |-> [n \in Numbers |-> "none"]]
  /\ sub = "top"
  /\ sel = NoJob
  /\ event = FALSE
  /\ now = 0
  /\ canc = [f \in Futures |-> "idle"]
  /\ target = [f \in Futures |-> 0]
  /\ cancels = [f \in Futures |-> 0]
  /\ placing = Nobody
  /\ shut = "open"

-----------------------------------------------------------------------------
(* Helpers *)

\* cancel() keeps the future's _me_lock from its search to its return.
\* Everyone else takes and releases it within one action.
Unlocked(f) == canc[f] \notin {"delegate", "commit", "refused"}

NewJob(f) ==
  [fut |-> f, attempt |-> 0, running |-> FALSE, when |-> now, stop |-> FALSE]

\* The job _submit_now appends in place of j.
StartedJob(j) == [j EXCEPT !.attempt = @ + 1, !.running = TRUE, !.when = 0]

\* The job _retry appends in place of j.
RetriedJobStopLost(j, sleep) ==
  [j EXCEPT !.running = FALSE, !.when = now + sleep, !.stop = FALSE]
RetriedJob(j, sleep) == [j EXCEPT !.running = FALSE, !.when = now + sleep]

\* _pop_job: no harm if the job has gone.
Popped(j) == jobs \ {j}

\* _get_next_job: any job that can be handled now, or else one with the
\* earliest time.  The order of the list decides between several.
NextJobs ==
  LET idle == {j \in jobs : ~j.running}
      ready == {j \in idle : j.stop \/ j.when <= now}
  IN  IF ready # {} THEN ready
      ELSE {j \in idle : \A k \in idle : j.when <= k.when}

\* What the policy may decide of an attempt that ended in outcome o.
MayRetryOnceMore(j, o) ==
  /\ ~j.stop
  /\ o = "error" \/ RetryResults
MayRetry(j, o) ==
  /\ ~j.stop
  /\ j.attempt < MaxAttempts
  /\ o = "error" \/ RetryResults

\* The delegate has been told to shut down, and accepts nothing more.
DelegateClosed == shut \in {"closing", "joining", "returned"}

-----------------------------------------------------------------------------
(* submit() *)

\* Everything submit_retry does under ensure_alive() but for the wake up.
Submit(f) ==
  /\ placing = Nobody
  /\ shut = "open"
  /\ state[f] = "unborn"
  /\ state' = [state EXCEPT ![f] = "pending"]
  /\ jobs' = jobs \cup {NewJob(f)}
  /\ placing' = f
  /\ UNCHANGED <<link, delegates, thread, cancelling, event, now, shut>>

SubmitWakeForgotten ==
  /\ placing # Nobody
  /\ placing' = Nobody
  /\ UNCHANGED <<futures, delegates, thread, cancelling, jobs, event,
                 now, shut>>
SubmitWake ==
  /\ placing # Nobody
  /\ event' = TRUE
  /\ placing' = Nobody
  /\ UNCHANGED <<futures, delegates, thread, cancelling, jobs, now, shut>>

-----------------------------------------------------------------------------
(* cancel() of a pending future; of a settled one it changes nothing *)

CancelsLeft == FoldFunction(+, 0, cancels) < MaxCancels

CallCancel(f) ==
  /\ state[f] = "pending"
  /\ Unlocked(f)
  /\ CancelsLeft
  /\ cancels' = [cancels EXCEPT ![f] = @ + 1]
  /\ UNCHANGED <<futures, delegates, thread, event, now, placing, shut>>

\* A job is found, and it waits: the cancel succeeds at once.
CancelWaiting(f) ==
  \E j \in jobs :
    /\ j.fut = f /\ ~j.running
    /\ CallCancel(f)
    /\ jobs' = jobs \ {j}
    /\ canc' = [canc EXCEPT ![f] = "commit"]
    /\ UNCHANGED target

\* A job is found, and it runs: no more retries, and the delegate is asked.
CancelRunningPops(f) ==
  \E j \in jobs :
    /\ j.fut = f /\ j.running
    /\ CallCancel(f)
    /\ jobs' = jobs \ {j}
    /\ canc' = [canc EXCEPT ![f] = "delegate"]
    /\ target' = [target EXCEPT ![f] = j.attempt]
CancelRunning(f) ==
  \E j \in jobs :
    /\ j.fut = f /\ j.running
    /\ CallCancel(f)
    /\ jobs' = (jobs \ {j}) \cup {[j EXCEPT !.stop = TRUE]}
    /\ canc' = [canc EXCEPT ![f] = "delegate"]
    /\ target' = [target EXCEPT ![f] = j.attempt]

\* No job is found: the assertion fails, and cancel() raises.
CancelOrphan(f) ==
  /\ \A j \in jobs : j.fut # f
  /\ CallCancel(f)
  /\ canc' = [canc EXCEPT ![f] = "orphan"]
  /\ UNCHANGED <<target, jobs>>

\* The delegate future lets itself be cancelled, or was cancelled before.
\* If the callback is attached it runs inside the call, finds that the
\* delegate future was cancelled, and returns.
CancelDelegate(f) ==
  LET n == target[f] IN
  /\ canc[f] = "delegate"
  /\ dstate[f][n] \in {"live", "cancelled"}
  /\ dstate' = [dstate EXCEPT ![f][n] = "cancelled"]
  /\ cb' = [cb EXCEPT ![f][n] = IF @ = "armed" THEN "done" ELSE @]
  /\ link' = [link EXCEPT ![f] = 0]
  /\ canc' = [canc EXCEPT ![f] = "commit"]
  /\ target' = [target EXCEPT ![f] = 0]
  /\ UNCHANGED <<state, tries, thread, cancels, jobs, event, now,
                 placing, shut>>

\* The delegate future cannot be cancelled: it runs, or it is done.
CancelDelegateFailsIgnored(f) ==
  /\ canc[f] = "delegate"
  /\ dstate[f][target[f]] # "cancelled"
  /\ canc' = [canc EXCEPT ![f] = "commit"]
  /\ target' = [target EXCEPT ![f] = 0]
  /\ UNCHANGED <<futures, delegates, thread, cancels, jobs, event, now,
                 placing, shut>>
CancelDelegateFailsUnlinks(f) ==
  /\ canc[f] = "delegate"
  /\ dstate[f][target[f]] # "cancelled"
  /\ link' = [link EXCEPT ![f] = 0]
  /\ canc' = [canc EXCEPT ![f] = "refused"]
  /\ target' = [target EXCEPT ![f] = 0]
  /\ UNCHANGED <<state, delegates, thread, cancels, jobs, event, now, placing,
                 shut>>
CancelDelegateFails(f) ==
  /\ canc[f] = "delegate"
  /\ dstate[f][target[f]] # "cancelled"
  /\ canc' = [canc EXCEPT ![f] = "refused"]
  /\ target' = [target EXCEPT ![f] = 0]
  /\ UNCHANGED <<futures, delegates, thread, cancels, jobs, event, now,
                 placing, shut>>

CancelReturnsFalse(f) ==
  /\ canc[f] = "refused"
  /\ event' = TRUE
  /\ canc' = [canc EXCEPT ![f] = "idle"]
  /\ UNCHANGED <<futures, delegates, thread, target, cancels, jobs, now,
                 placing, shut>>

CancelReturnsTrue(f) ==
  /\ canc[f] = "commit"
  /\ state' = [state EXCEPT ![f] = "cancelled"]
  /\ canc' = [canc EXCEPT ![f] = "idle"]
  /\ UNCHANGED <<link, delegates, thread, target, cancels, jobs, event,
                 now, placing, shut>>

-----------------------------------------------------------------------------
(* Delegate futures, as the package uses them *)

DelegateFinish(f, n) ==
  /\ dstate[f][n] = "live"
  /\ \E o \in Outcomes : dstate' = [dstate EXCEPT ![f][n] = o]
  /\ cb' = [cb EXCEPT ![f][n] = IF @ = "armed" THEN "find" ELSE @]
  /\ UNCHANGED <<futures, tries, thread, cancelling, jobs, event, now,
                 placing, shut>>

\* Neither the client's cancel() nor the callable ended it: a timeout of a
\* lower layer, or a shutdown with cancel_futures.
DelegateCancelledElsewhere(f, n) ==
  /\ ForeignCancel
  /\ dstate[f][n] = "live"
  /\ dstate' = [dstate EXCEPT ![f][n] = "cancelled"]
  /\ cb' = [cb EXCEPT ![f][n] = IF @ = "armed" THEN "find" ELSE @]
  /\ UNCHANGED <<futures, tries, thread, cancelling, jobs, event, now,
                 placing, shut>>

-----------------------------------------------------------------------------
(* _delegate_callback *)

\* The search, and what follows from what it finds: stop_retry is read here,
\* and the policy asked.  Nothing is done for a cancelled delegate future.
CallbackFind(f, n) ==
  \E j \in jobs :
    /\ cb[f][n] = "find"
    /\ j.fut = f /\ j.attempt = n /\ j.running
    /\ \/ /\ dstate[f][n] = "cancelled"
          /\ cb' = [cb EXCEPT ![f][n] = "done"]
       \/ /\ MayRetry(j, dstate[f][n])
          /\ dstate[f][n] # "cancelled"
          /\ cb' = [cb EXCEPT ![f][n] = "retry"]
       \/ /\ dstate[f][n] # "cancelled"
          /\ cb' = [cb EXCEPT ![f][n] = "final"]
    /\ UNCHANGED <<futures, tries, dstate, thread, cancelling, jobs, event,
                   now, placing, shut>>

\* _retry, under _lock.
CallbackRetryKeepsJob(f, n) ==
  \E j \in jobs, sleep \in Sleeps :
    /\ cb[f][n] = "retry"
    /\ j.fut = f /\ j.attempt = n /\ j.running
    /\ jobs' = jobs \cup {RetriedJob(j, sleep)}
    /\ cb' = [cb EXCEPT ![f][n] = "rewake"]
    /\ UNCHANGED <<futures, tries, dstate, thread, cancelling, event, now,
                   placing, shut>>
CallbackRetry(f, n) ==
  \E j \in jobs, sleep \in Sleeps :
    /\ cb[f][n] = "retry"
    /\ j.fut = f /\ j.attempt = n /\ j.running
    /\ jobs' = Popped(j) \cup {RetriedJob(j, sleep)}
    /\ cb' = [cb EXCEPT ![f][n] = "rewake"]
    /\ UNCHANGED <<futures, tries, dstate, thread, cancelling, event, now,
                   placing, shut>>

CallbackWakeForgotten(f, n) ==
  /\ cb[f][n] = "rewake"
  /\ cb' = [cb EXCEPT ![f][n] = "done"]
  /\ UNCHANGED <<futures, tries, dstate, thread, cancelling, jobs, event,
                 now, placing, shut>>
CallbackWake(f, n) ==
  /\ cb[f][n] = "rewake"
  /\ event' = TRUE
  /\ cb' = [cb EXCEPT ![f][n] = "done"]
  /\ UNCHANGED <<futures, tries, dstate, thread, cancelling, jobs, now,
                 placing, shut>>

\* copy_future: set_result or set_exception waits for the future's lock.
CallbackSettle(f, n) ==
  /\ cb[f][n] = "final"
  /\ Unlocked(f)
  /\ state[f] = "pending"
  /\ state' = [state EXCEPT ![f] = dstate[f][n]]
  /\ link' = [link EXCEPT ![f] = 0]
  /\ cb' = [cb EXCEPT ![f][n] = "pop"]
  /\ UNCHANGED <<tries, dstate, thread, cancelling, jobs, event, now,
                 placing, shut>>

CallbackPop(f, n) ==
  /\ cb[f][n] = "pop"
  /\ jobs' = {j \in jobs : ~(j.fut = f /\ j.attempt = n /\ j.running)}
  /\ cb' = [cb EXCEPT ![f][n] = "done"]
  /\ UNCHANGED <<futures, tries, dstate, thread, cancelling, event, now,
                 placing, shut>>

-----------------------------------------------------------------------------
(* _submit_loop, on the submit thread *)

CheckShutdown ==
  /\ sub = "top"
  /\ sub' = IF shut = "open" THEN "scan" ELSE "exited"
  /\ UNCHANGED <<futures, delegates, sel, cancelling, jobs, event, now,
                 placing, shut>>

ScanPicks ==
  /\ sub = "scan"
  /\ sel' \in NextJobs
  /\ sub' = "picked"
  /\ UNCHANGED <<futures, delegates, cancelling, jobs, event, now,
                 placing, shut>>

ScanFindsNothing ==
  /\ sub = "scan"
  /\ NextJobs = {}
  /\ sub' = "waiting"
  /\ UNCHANGED <<futures, delegates, sel, cancelling, jobs, event, now,
                 placing, shut>>

\* The picked job was told to stop: pop it, then hand over its old outcome.
DiscardJobOnly ==
  /\ sub = "picked"
  /\ sel.stop
  /\ jobs' = Popped(sel)
  /\ sub' = "top"
  /\ sel' = NoJob
  /\ UNCHANGED <<futures, delegates, cancelling, event, now, placing,
                 shut>>
DiscardJob ==
  /\ sub = "picked"
  /\ sel.stop
  /\ jobs' = Popped(sel)
  /\ sub' = "copy"
  /\ UNCHANGED <<futures, delegates, sel, cancelling, event, now,
                 placing, shut>>

CopyOutcome ==
  /\ sub = "copy"
  /\ Unlocked(sel.fut)
  /\ state[sel.fut] = "pending"
  /\ state' = [state EXCEPT ![sel.fut] = dstate[sel.fut][sel.attempt]]
  /\ link' = [link EXCEPT ![sel.fut] = 0]
  /\ sub' = "top"
  /\ sel' = NoJob
  /\ UNCHANGED <<delegates, cancelling, jobs, event, now, placing, shut>>

\* The future was cancelled meanwhile: __terminate_via clears the delegate and
\* InvalidStateError follows.  copy_exception tolerates that; set_result does
\* not, which ends the thread.
CopyMeetsCancelled ==
  /\ sub = "copy"
  /\ Unlocked(sel.fut)
  /\ state[sel.fut] # "pending"
  /\ link' = [link EXCEPT ![sel.fut] = 0]
  /\ sub' = IF dstate[sel.fut][sel.attempt] = "error" THEN "top" ELSE "dead"
  /\ sel' = NoJob
  /\ UNCHANGED <<state, delegates, cancelling, jobs, event, now, placing,
                 shut>>

Ready == sub = "picked" /\ ~sel.stop /\ sel.when <= now

StartAttempt(f, n) ==
  /\ tries' = [tries EXCEPT ![f] = n]
  /\ link' = [link EXCEPT ![f] = n]
  /\ dstate' = [dstate EXCEPT ![f][n] = "live"]
  /\ jobs' = Popped(sel) \cup {StartedJob(sel)}
  /\ sub' = "submitted"
  /\ UNCHANGED <<state, cb, sel, cancelling, event, now, placing, shut>>

\* _submit_now, up to the release of both locks.
SubmitNowUnchecked ==
  /\ Ready
  /\ ~DelegateClosed
  /\ Unlocked(sel.fut)
  /\ StartAttempt(sel.fut, sel.attempt + 1)
SubmitNow ==
  /\ Ready
  /\ ~DelegateClosed
  /\ Unlocked(sel.fut)
  /\ state[sel.fut] = "pending"
  /\ StartAttempt(sel.fut, sel.attempt + 1)

\* The future was cancelled since the scan: not submitted.
SubmitNowStale ==
  /\ Ready
  /\ Unlocked(sel.fut)
  /\ state[sel.fut] # "pending"
  /\ jobs' = Popped(sel)
  /\ sub' = "top"
  /\ sel' = NoJob
  /\ UNCHANGED <<futures, delegates, cancelling, event, now, placing,
                 shut>>

\* The delegate refuses: the job has been popped, RuntimeError ends the loop.
SubmitNowRefused ==
  /\ Ready
  /\ DelegateClosed
  /\ Unlocked(sel.fut)
  /\ state[sel.fut] = "pending"
  /\ jobs' = Popped(sel)
  /\ sub' = "exited"
  /\ sel' = NoJob
  /\ UNCHANGED <<futures, delegates, cancelling, event, now, placing,
                 shut>>

\* add_done_callback: deferred, followed by the thread's wake up of itself...
AttachCallback ==
  LET f == sel.fut  n == sel.attempt + 1 IN
  /\ sub = "submitted"
  /\ dstate[f][n] = "live"
  /\ cb' = [cb EXCEPT ![f][n] = "armed"]
  /\ event' = TRUE
  /\ sub' = "top"
  /\ sel' = NoJob
  /\ UNCHANGED <<futures, tries, dstate, cancelling, jobs, now, placing,
                 shut>>

\* ... or run on this very thread, if the delegate future is done already.
RunCallback ==
  LET f == sel.fut  n == sel.attempt + 1 IN
  /\ sub = "submitted"
  /\ dstate[f][n] # "live"
  /\ cb' = [cb EXCEPT ![f][n] = "find"]
  /\ sub' = "incallback"
  /\ UNCHANGED <<futures, tries, dstate, sel, cancelling, jobs, event,
                 now, placing, shut>>

AfterCallback ==
  /\ sub = "incallback"
  /\ cb[sel.fut][sel.attempt + 1] = "done"
  /\ event' = TRUE
  /\ sub' = "top"
  /\ sel' = NoJob
  /\ UNCHANGED <<futures, delegates, cancelling, jobs, now, placing, shut>>

\* Not due yet: sleep until sel.when, or until somebody sets the event.
SleepUntilDue ==
  /\ sub = "picked"
  /\ ~sel.stop
  /\ sel.when > now
  /\ sub' = "waiting"
  /\ UNCHANGED <<futures, delegates, sel, cancelling, jobs, event, now,
                 placing, shut>>

TimerFired == sel # NoJob /\ sel.when <= now

WaitReturns ==
  /\ sub = "waiting"
  /\ event \/ TimerFired
  /\ sub' = "clear"
  /\ sel' = NoJob
  /\ UNCHANGED <<futures, delegates, cancelling, jobs, event, now,
                 placing, shut>>

ClearEvent ==
  /\ sub = "clear"
  /\ event' = FALSE
  /\ sub' = "top"
  /\ UNCHANGED <<futures, delegates, sel, cancelling, jobs, now, placing,
                 shut>>

-----------------------------------------------------------------------------
(* shutdown() *)

\* ShutdownHelper.__call__, which waits for a submit() in progress.
Shutdown ==
  /\ MayShutdown
  /\ shut = "open"
  /\ placing = Nobody
  /\ shut' = "flagged"
  /\ UNCHANGED <<futures, delegates, thread, cancelling, jobs, event,
                 now, placing>>

ShutdownWakeForgotten ==
  /\ shut = "flagged"
  /\ shut' = "woken"
  /\ UNCHANGED <<futures, delegates, thread, cancelling, jobs, event,
                 now, placing>>
ShutdownWake ==
  /\ shut = "flagged"
  /\ event' = TRUE
  /\ shut' = "woken"
  /\ UNCHANGED <<futures, delegates, thread, cancelling, jobs, now,
                 placing>>

\* delegate.shutdown(wait): with wait=False, shutdown() does not wait at all.
ShutdownDelegate ==
  /\ shut = "woken"
  /\ \E wait \in BOOLEAN : shut' = IF wait THEN "closing" ELSE "returned"
  /\ UNCHANGED <<futures, delegates, thread, cancelling, jobs, event,
                 now, placing>>

\* A callback is run by a worker of the delegate unless the submit thread
\* found the delegate future done.
WorkerBusy(f, n) ==
  \/ dstate[f][n] = "live"
  \/ /\ cb[f][n] \in {"find", "retry", "rewake", "final", "pop"}
     /\ ~(sub = "incallback" /\ sel.fut = f /\ sel.attempt + 1 = n)

DelegateShutdownReturns ==
  /\ shut = "closing"
  /\ \A f \in Futures, n \in Numbers : ~WorkerBusy(f, n)
  /\ shut' = "joining"
  /\ UNCHANGED <<futures, delegates, thread, cancelling, jobs, event,
                 now, placing>>

JoinSubmitThread ==
  /\ shut = "joining"
  /\ sub \in {"exited", "dead"}
  /\ shut' = "returned"
  /\ UNCHANGED <<futures, delegates, thread, cancelling, jobs, event,
                 now, placing>>

-----------------------------------------------------------------------------

\* Time passes; it need not once no job waits for its time.
Tick ==
  /\ \E j \in jobs : ~j.running /\ j.when > now
  /\ now' = now + 1
  /\ UNCHANGED <<futures, delegates, thread, cancelling, jobs, event,
                 placing, shut>>

CancelStep(f) ==
  \/ CancelDelegate(f) \/ CancelDelegateFails(f)
  \/ CancelReturnsFalse(f) \/ CancelReturnsTrue(f)

CallbackStep(f, n) ==
  \/ CallbackFind(f, n) \/ CallbackRetry(f, n) \/ CallbackWake(f, n)
  \/ CallbackSettle(f, n) \/ CallbackPop(f, n)

SubmitThread ==
  \/ CheckShutdown \/ ScanPicks \/ ScanFindsNothing
  \/ DiscardJob \/ CopyOutcome \/ CopyMeetsCancelled
  \/ SubmitNow \/ SubmitNowStale \/ SubmitNowRefused
  \/ AttachCallback \/ RunCallback \/ AfterCallback
  \/ SleepUntilDue \/ WaitReturns \/ ClearEvent

ShutdownStep ==
  \/ ShutdownWake \/ ShutdownDelegate
  \/ DelegateShutdownReturns \/ JoinSubmitThread

Next ==
  \/ \E f \in Futures :
       \/ Submit(f)
       \/ CancelWaiting(f) \/ CancelRunning(f) \/ CancelOrphan(f)
       \/ CancelStep(f)
  \/ \E f \in Futures, n \in Numbers :
       DelegateFinish(f, n) \/ DelegateCancelledElsewhere(f, n) \/ CallbackStep(f, n)
  \/ SubmitWake \/ SubmitThread
  \/ Shutdown \/ ShutdownStep
  \/ Tick

Spec == Init /\ [][Next]_vars

\* Threads are scheduled, callables return, and the clock runs.
Fairness ==
  /\ WF_vars(SubmitThread) /\ WF_vars(SubmitWake)
  /\ WF_vars(ShutdownStep) /\ WF_vars(Tick)
  /\ \A f \in Futures : WF_vars(CancelStep(f))
  /\ \A f \in Futures, n \in Numbers :
       WF_vars(DelegateFinish(f, n)) /\ WF_vars(CallbackStep(f, n))

FairSpec == Spec /\ Fairness

-----------------------------------------------------------------------------
(* Safety *)

\* The list holds at most one job of a future, and a job with a delegate
\* future is the job of the latest one.  The searches of _cancel and
\* _delegate_callback take the first match and rely on this.
OneJobPerFuture ==
  /\ \A j, k \in jobs : j.fut = k.fut => j = k
  /\ \A j \in jobs : j.attempt = tries[j.fut]

\* The assertion of _delegate_callback (retry.py:430-433) and more: until it
\* has popped it, a callback finds the running job of its delegate future.
\* A future is pending for as long as a callback may still resolve it, so
\* copy_future never runs into InvalidStateError there (retry.py:449).
CallbackFindsJob ==
  \A f \in Futures, n \in Numbers :
    /\ cb[f][n] \in {"find", "retry", "final", "pop"} =>
         \E j \in jobs : j.fut = f /\ j.attempt = n /\ j.running
    /\ cb[f][n] \in {"retry", "final"} => state[f] = "pending"

\* Nothing goes on behind a future that has settled: no delegate future of
\* it is live.  cancel() may settle it between any two steps of the submit
\* thread, which must notice (retry.py:305-316).
SettledMeansIdle ==
  \A f \in Futures, n \in Numbers :
    state[f] \in Settled => dstate[f][n] # "live"

\* At most one attempt of a future goes on at any time, and running() asks
\* that one (retry.py:127-137), not an earlier one.
OneAttemptAtATime ==
  \A f \in Futures, n \in Numbers :
    dstate[f][n] = "live" => n = tries[f] /\ n = link[f]

\* Somebody is about to set the event.
WakeComing ==
  \/ placing # Nobody
  \/ shut = "flagged"
  \/ \E f \in Futures, n \in Numbers : cb[f][n] = "rewake"

\* No lost wake up (_submit_wait, retry.py:538-540): a submit thread that
\* nobody is about to wake sleeps no longer than the earliest waiting job
\* allows, and does not sleep over a job to discard or a shutdown.
NoOversleep ==
  sub = "waiting" /\ ~event /\ ~WakeComing =>
    /\ shut = "open"
    /\ \A j \in jobs :
         ~j.running => ~j.stop /\ sel # NoJob /\ sel.when <= j.when

\* No future is forgotten: until the delegate is told to shut down, whoever is to
\* settle a pending future still knows of it.  Jobs move between the list,
\* the submit thread and cancel() under two different locks.
PendingIsAccountedFor ==
  ~DelegateClosed =>
    \A f \in Futures :
      state[f] = "pending" =>
        \/ \E j \in jobs : j.fut = f
        \/ sub = "copy" /\ sel.fut = f
        \/ canc[f] = "commit"

\* "Attempting to cancel a future prevents any more retries, regardless of
\* whether the cancel succeeds" (retry.py:186-187), however the call races
\* with the callback and with the submit thread.
NoRetryAfterCancel ==
  [][\A f \in Futures : cancels[f] > 0 => tries'[f] = tries[f]]_vars

\* Every future keeps the promise of FuturePromise, its latest delegate
\* future being the attempt.
LatestAttempt ==
  [f \in Futures |-> IF tries[f] = 0 THEN "none" ELSE dstate[f][tries[f]]]

Promise ==
  INSTANCE FuturePromise WITH
    status <- state,
    attempt <- LatestAttempt,
    stopped <- [f \in Futures |-> cancels[f] > 0]

KeepsPromise == Promise!Spec

-----------------------------------------------------------------------------
(* Liveness *)

\* Every future settles, unless the executor is shut down first or its
\* delegate future is cancelled behind its back (retry.py:435-438).
FuturesSettle ==
  \A f \in Futures :
    state[f] = "pending" ~>
      \/ state[f] \in Settled
      \/ shut # "open"
      \/ LatestAttempt[f] = "cancelled"

\* shutdown() returns: the threads it joins are not left asleep, and do not
\* wait for one another (retry.py:241-250).
ShutdownReturns == shut = "flagged" ~> shut = "returned"

-----------------------------------------------------------------------------
(* What the comments of the code claim and the code does not do *)

\* "This shouldn't be possible" (retry.py:395-400): no call of cancel() finds
\* its pending future without a job.
CancelFindsJob == \A f \in Futures : canc[f] # "orphan"

\* Settling a future that its client may have cancelled is tolerated
\* (common.py:118-127): the submit thread survives it.
SubmitThreadSurvives == sub # "dead"

\* "the callback attached to delegate_future was expected to take care of
\* that" (retry.py:407-409): once the callback of a delegate future has
\* returned, the job of a settled future is gone from the list.
CallbackTakesJobAway ==
  \A j \in jobs :
    state[j.fut] \in Settled /\ j.running => cb[j.fut][j.attempt] # "done"
==============================================================================
