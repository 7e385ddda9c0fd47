----------------------------- MODULE PollExecutor -----------------------------
(***************************************************************************)
(* PollExecutor (more_executors/_impl/poll.py): when the delegate future   *)
(* of a PollFuture is done, a descriptor of the future is put on a list,   *)
(* and a thread calls the poll function with the descriptors on the list,  *)
(* until the poll function settles the future.                             *)
(*                                                                         *)
(* Two kinds of locks, and who holds them: the executor's _lock is held    *)
(* between the two halves of _register_poll (resolve[f] = "listed"), the   *)
(* _me_lock of a future while its cancel() is at work (canc[f] # "idle").  *)
(***************************************************************************)
CONSTANTS
  Futures,
  Foreign,      \* the futures whose delegate somebody else may cancel
  HasCancelFn   \* is there a cancel function?

ASSUME FuturesAssumption == Foreign \subseteq Futures
ASSUME CancelFnAssumption == HasCancelFn \in BOOLEAN

VARIABLES
  state,    \* of each PollFuture
  dstate,   \* of its delegate future
  linked,   \* is future._delegate set?
  resolve,  \* progress of _delegate_resolved
  clear,    \* progress of the callback _clear_executor
  canc,     \* program counter of cancel()
  polled,   \* executor._poll_descriptors, by future
  thread,   \* program counter of the poll thread
  batch,    \* descriptors, a local of the poll thread: the latest it has taken
  failing,  \* the descriptors that a poll function that raised has yet to fail
  yielding, \* the future a descriptor is settling: a set of one, or none
  event,    \* is executor._poll_event set?
  shut      \* progress of shutdown()

futures == <<state, dstate, linked, resolve, clear, canc>>
poller == <<thread, batch, failing, yielding>>
vars == <<futures, polled, poller, event, shut>>

Outcomes == {"result", "error"}
Settled == Outcomes \cup {"cancelled"}

TypeOK ==
  /\ state \in [Futures -> {"unborn", "pending"} \cup Settled]
  /\ dstate \in [Futures -> {"none", "live"} \cup Settled]
  /\ linked \in [Futures -> BOOLEAN]
  /\ resolve \in [Futures -> {"none", "armed", "due", "append", "listed", "done"}]
  /\ clear \in [Futures -> {"none", "armed", "due", "done"}]
  /\ canc \in [Futures -> {"idle", "asking", "commit"}]
  /\ polled \subseteq Futures /\ batch \subseteq Futures
  /\ failing \subseteq batch /\ yielding \in {{}} \cup {{f} : f \in batch}
  /\ thread \in {"top", "copy", "poll", "failing", "waiting", "clear", "exited"}
  /\ event \in BOOLEAN
  /\ shut \in {"open", "flagged", "waiting", "returned"}

Init ==
  /\ state = [f \in Futures |-> "unborn"]
  /\ dstate = [f \in Futures |-> "none"]
  /\ linked = [f \in Futures |-> FALSE]
  /\ resolve = [f \in Futures |-> "none"]
  /\ clear = [f \in Futures |-> "none"]
  /\ canc = [f \in Futures |-> "idle"]
  /\ polled = {}
  /\ thread = "top" /\ batch = {} /\ failing = {} /\ yielding = {}
  /\ event = FALSE
  /\ shut = "open"

-----------------------------------------------------------------------------

Pending(f) == state[f] = "pending"
Unlocked(f) == canc[f] = "idle"
LockFree == \A f \in Futures : resolve[f] # "listed"

\* The client has the future: submit() has returned.
Returned(f) == clear[f] # "none"
Placing == \E f \in Futures : state[f] # "unborn" /\ ~Returned(f)

\* f becomes s, unless it is done; then its callbacks are due.
Becomes(f, s) ==
  /\ Unlocked(f) \/ s = "cancelled"
  /\ state' = [state EXCEPT ![f] = IF @ = "pending" THEN s ELSE @]
  /\ clear' = [clear EXCEPT ![f] = IF @ = "armed" /\ Pending(f) THEN "due" ELSE @]

-----------------------------------------------------------------------------
(* submit(), under the lock of the ShutdownHelper *)

Submit(f) ==
  /\ shut = "open" /\ ~Placing
  /\ state[f] = "unborn"
  /\ state' = [state EXCEPT ![f] = "pending"]
  /\ dstate' = [dstate EXCEPT ![f] = "live"]
  /\ linked' = [linked EXCEPT ![f] = TRUE]
  /\ UNCHANGED <<resolve, clear, canc, polled, poller, event, shut>>

\* The callback runs at once when the delegate is done already.
AttachResolve(f) ==
  /\ state[f] # "unborn" /\ resolve[f] = "none"
  /\ resolve' = [resolve EXCEPT ![f] = IF dstate[f] = "live" THEN "armed" ELSE "due"]
  /\ UNCHANGED <<state, dstate, linked, clear, canc, polled, poller, event, shut>>

\* _clear_executor, too, may find the future done.
AttachClearBlindly(f) ==
  /\ resolve[f] # "none" /\ clear[f] = "none"
  /\ clear' = [clear EXCEPT ![f] = "armed"]
  /\ UNCHANGED <<state, dstate, linked, resolve, canc, polled, poller, event, shut>>
AttachClear(f) ==
  /\ resolve[f] # "none" /\ clear[f] = "none"
  /\ clear' = [clear EXCEPT ![f] = IF Pending(f) THEN "armed" ELSE "due"]
  /\ UNCHANGED <<state, dstate, linked, resolve, canc, polled, poller, event, shut>>

-----------------------------------------------------------------------------
(* The delegate future, and _delegate_resolved *)

\* It ends as s, and runs its callbacks.
End(f, s) ==
  /\ dstate[f] = "live"
  /\ dstate' = [dstate EXCEPT ![f] = s]
  /\ resolve' = [resolve EXCEPT ![f] = IF @ = "armed" THEN "due" ELSE @]
  /\ UNCHANGED <<state, linked, clear, canc, polled, poller, event, shut>>

DelegateFinish(f) == \E s \in Outcomes : End(f, s)

DelegateCancelledElsewhere(f) == f \in Foreign /\ End(f, "cancelled")

\* An exception is copied; after a cancelled delegate nothing follows.
ResolveFailure(f) ==
  /\ resolve[f] = "due" /\ dstate[f] \in {"error", "cancelled"}
  /\ IF dstate[f] = "error" THEN Becomes(f, "error") ELSE UNCHANGED <<state, clear>>
  /\ resolve' = [resolve EXCEPT ![f] = "done"]
  /\ UNCHANGED <<dstate, linked, canc, polled, poller, event, shut>>

\* _register_poll: the descriptor is listed and then, with the _lock still held,
\* the delegate cleared.
Register(f) ==
  /\ resolve[f] = "due" /\ dstate[f] = "result"
  /\ LockFree
  /\ polled' = polled \cup {f}
  /\ resolve' = [resolve EXCEPT ![f] = "listed"]
  /\ UNCHANGED <<state, dstate, linked, clear, canc, poller, event, shut>>

ClearDelegateSilently(f) ==
  /\ resolve[f] = "listed"
  /\ Unlocked(f)
  /\ linked' = [linked EXCEPT ![f] = FALSE]
  /\ resolve' = [resolve EXCEPT ![f] = "done"]
  /\ UNCHANGED <<state, dstate, clear, canc, polled, poller, event, shut>>
ClearDelegate(f) ==
  /\ resolve[f] = "listed"
  /\ Unlocked(f)
  /\ linked' = [linked EXCEPT ![f] = FALSE]
  /\ event' = TRUE
  /\ resolve' = [resolve EXCEPT ![f] = "done"]
  /\ UNCHANGED <<state, dstate, clear, canc, polled, poller, shut>>

\* _clear_executor calls _deregister_poll.
DeregisterAll(f) ==
  /\ clear[f] = "due"
  /\ LockFree
  /\ polled' = {}
  /\ clear' = [clear EXCEPT ![f] = "done"]
  /\ UNCHANGED <<state, dstate, linked, resolve, canc, poller, event, shut>>
Deregister(f) ==
  /\ clear[f] = "due"
  /\ LockFree
  /\ polled' = polled \ {f}
  /\ clear' = [clear EXCEPT ![f] = "done"]
  /\ UNCHANGED <<state, dstate, linked, resolve, canc, poller, event, shut>>

-----------------------------------------------------------------------------
(* cancel() of a future that submit() has returned, under its _me_lock.  A   *)
(* delegate that is running or done, or a cancel function that says no or     *)
(* raises, ends it without a change.                                          *)

CancelDelegate(f) ==
  /\ Returned(f) /\ Pending(f) /\ Unlocked(f)
  /\ linked[f] /\ dstate[f] \in {"live", "cancelled"}
  /\ dstate' = [dstate EXCEPT ![f] = "cancelled"]
  /\ resolve' = [resolve EXCEPT ![f] = IF @ = "armed" THEN "done" ELSE @]
  /\ canc' = [canc EXCEPT ![f] = "commit"]
  /\ UNCHANGED <<state, linked, clear, polled, poller, event, shut>>

\* _run_cancel_fn reads the list of descriptors without the _lock.
CancelPolled(f) ==
  /\ Returned(f) /\ Pending(f) /\ Unlocked(f)
  /\ ~linked[f]
  /\ canc' = [canc EXCEPT ![f] = IF HasCancelFn /\ f \in polled THEN "asking" ELSE "commit"]
  /\ UNCHANGED <<state, dstate, linked, resolve, clear, polled, poller, event, shut>>

CancelFnReturns(f) ==
  /\ canc[f] = "asking"
  /\ \E next \in {"commit", "idle"} : canc' = [canc EXCEPT ![f] = next]
  /\ UNCHANGED <<state, dstate, linked, resolve, clear, polled, poller, event, shut>>

CancelCommit(f) ==
  /\ canc[f] = "commit"
  /\ Becomes(f, "cancelled")
  /\ canc' = [canc EXCEPT ![f] = "idle"]
  /\ UNCHANGED <<dstate, linked, resolve, polled, poller, event, shut>>

-----------------------------------------------------------------------------
(* The poll thread *)

IsShutdown == shut # "open"

CheckShutdown ==
  /\ thread = "top"
  /\ thread' = IF IsShutdown THEN "exited" ELSE "copy"
  /\ UNCHANGED <<futures, polled, batch, failing, yielding, event, shut>>

CopyDescriptors ==
  /\ thread = "copy"
  /\ LockFree
  /\ batch' = polled
  /\ thread' = "poll"
  /\ UNCHANGED <<futures, polled, failing, yielding, event, shut>>

\* The poll function calls yield_result or yield_exception of a descriptor, and
\* waits for the _me_lock of the future.
PollYields(f) ==
  /\ thread = "poll" /\ yielding = {}
  /\ f \in batch
  /\ yielding' = {f}
  /\ UNCHANGED <<futures, polled, thread, batch, failing, event, shut>>

\* Nothing changes when the future is done by now.  The callbacks that are due are
\* under way from here on, though it is this thread that runs them.
Settle(f) ==
  /\ f \in yielding
  /\ \E o \in IF thread = "failing" THEN {"error"} ELSE Outcomes : Becomes(f, o)
  /\ yielding' = {}
  /\ UNCHANGED <<dstate, linked, resolve, canc, polled, thread, batch, failing, event, shut>>

\* It raises: what it was about fails, one descriptor after the other.
PollRaisesForAll ==
  /\ thread = "poll" /\ yielding = {}
  /\ failing' = polled
  /\ thread' = "failing"
  /\ UNCHANGED <<futures, polled, batch, yielding, event, shut>>
PollRaises ==
  /\ thread = "poll" /\ yielding = {}
  /\ failing' = batch
  /\ thread' = "failing"
  /\ UNCHANGED <<futures, polled, batch, yielding, event, shut>>

FailDescriptor(f) ==
  /\ thread = "failing" /\ yielding = {}
  /\ f \in failing
  /\ failing' = failing \ {f} /\ yielding' = {f}
  /\ UNCHANGED <<futures, polled, thread, batch, event, shut>>

PollReturns ==
  /\ thread \in {"poll", "failing"} /\ failing = {}
  /\ yielding = {}
  /\ thread' = "waiting"
  /\ UNCHANGED <<futures, polled, batch, failing, yielding, event, shut>>

\* wait(next_sleep) ends in any case: the interval is finite.
WaitReturns ==
  /\ thread = "waiting"
  /\ thread' = "clear"
  /\ UNCHANGED <<futures, polled, batch, failing, yielding, event, shut>>

ClearEvent ==
  /\ thread = "clear"
  /\ event' = FALSE
  /\ thread' = "top"
  /\ UNCHANGED <<futures, polled, batch, failing, yielding, shut>>

-----------------------------------------------------------------------------
(* notify() and shutdown() *)

Notify ==
  /\ event' = TRUE
  /\ UNCHANGED <<futures, polled, poller, shut>>

Shutdown ==
  /\ shut = "open" /\ ~Placing
  /\ shut' = "flagged"
  /\ UNCHANGED <<futures, polled, poller, event>>

ShutdownWake ==
  /\ shut = "flagged"
  /\ event' = TRUE
  /\ shut' = "waiting"
  /\ UNCHANGED <<futures, polled, poller>>

\* The delegate's shutdown(wait=True) waits for its futures, then the poll
\* thread is joined.
ShutdownReturns ==
  /\ shut = "waiting"
  /\ \A f \in Futures : dstate[f] # "live"
  /\ thread = "exited"
  /\ shut' = "returned"
  /\ UNCHANGED <<futures, polled, poller, event>>

-----------------------------------------------------------------------------

PollThread ==
  \/ CheckShutdown \/ CopyDescriptors
  \/ PollRaises \/ PollReturns \/ WaitReturns \/ ClearEvent
  \/ \E f \in Futures : PollYields(f) \/ Settle(f) \/ FailDescriptor(f)

\* What is under way for f: its submit(), _delegate_resolved, cancel(), callback.
UnderWay(f) ==
  \/ AttachResolve(f) \/ AttachClear(f)
  \/ ResolveFailure(f) \/ Register(f) \/ ClearDelegate(f)
  \/ CancelFnReturns(f) \/ CancelCommit(f)
  \/ Deregister(f)

FromOutside(f) ==
  \/ Submit(f) \/ DelegateFinish(f) \/ DelegateCancelledElsewhere(f)
  \/ CancelDelegate(f) \/ CancelPolled(f)

Next ==
  \/ PollThread \/ Notify
  \/ Shutdown \/ ShutdownWake \/ ShutdownReturns
  \/ \E f \in Futures : UnderWay(f) \/ FromOutside(f)

Spec == Init /\ [][Next]_vars

\* Threads run, and what is under way ends after a few steps.  The poll thread gets
\* the _me_lock of a future in the end, though clients may call cancel() again and
\* again.  The poll function returns, or raises, and called again and again it
\* settles the futures it is called with.
FairSpec ==
  /\ Spec
  /\ SF_vars(PollThread) /\ SF_vars(PollReturns \/ PollRaises)
  /\ \A f \in Futures : WF_vars(UnderWay(f)) /\ SF_vars(PollYields(f))

-----------------------------------------------------------------------------
(* Correctness *)

\* The list of descriptors has no future that is done, or only while its callback
\* is on the way: whatever order the delegate, the poll function and submit() run
\* in, a future is registered before it is deregistered (poll.py:31-32, 222-233).
DescriptorsArePending ==
  /\ \A f \in polled : Pending(f) \/ clear[f] \in {"none", "due"}
  /\ \A f \in Futures : resolve[f] = "due" /\ dstate[f] = "result" => Pending(f)

\* A future whose delegate has a result is never cancelled past the cancel
\* function: it is called "if and only if the future is currently in the list of
\* futures being polled" (docs/reference/poll.rst), which _run_cancel_fn reads
\* without a lock (poll.py:235-245).
CancelIsAsked ==
  [][\A f \in Futures :
       canc[f] = "idle" /\ canc'[f] = "commit" /\ HasCancelFn => dstate'[f] = "cancelled"]_vars

\* While the poll thread sleeps, it has shown each listed descriptor to the poll
\* function, unless somebody is about to wake it: a future that was registered
\* late does not wait for the next poll (poll.py:222-227, 299-309).
NoOversleep ==
  thread = "waiting" /\ ~event =>
    /\ shut \in {"open", "flagged"}
    /\ \A f \in polled : f \in batch \/ resolve[f] = "listed"

\* "PollExecutor allows producing futures which should be resolved via a custom
\* poll function" (docs/reference/poll.rst): a future whose delegate has ended is
\* settled in the end, as long as the executor is not shut down and nobody else
\* cancelled the delegate.
PolledFuturesSettle ==
  \A f \in Futures :
    Pending(f) /\ dstate[f] \in Outcomes ~> ~Pending(f) \/ IsShutdown
==============================================================================
