--------------------------- MODULE ThrottleExecutor ---------------------------
(***************************************************************************)
(* ThrottleExecutor (more_executors/_impl/throttle.py) above a delegate    *)
(* executor whose submit() does not block.                                 *)
(*                                                                         *)
(* Threads that take part, each with its program counter:                  *)
(*   - clients in submit(), at most one at a time (placing);               *)
(*   - one client at a time in cancel() of each future (canc[f]);          *)
(*   - whoever finishes a delegate future, and runs the two callbacks on   *)
(*     it: _delegate_future_done (tally[f]) and then _delegate_resolved    *)
(*     (resolve[f]) of the ThrottleFuture;                                 *)
(*   - the submit thread (sub), which runs a callback itself when it finds *)
(*     the delegate future done;                                           *)
(*   - one client in shutdown() (shut).                                    *)
(* An action is one critical section, or one access to shared state made   *)
(* outside of any lock.  cancel() keeps the future's _me_lock from its     *)
(* decision to its return, and the submit thread keeps the executor's      *)
(* _lock while sub = "fill".                                               *)
(***************************************************************************)
EXTENDS Integers, SequencesExt

CONSTANTS
  Futures,        \* the futures clients may ask for
  Counts,         \* what the count may be
  Blocking,       \* the values block may have
  MaxChanges,     \* bound: changes of a dynamic count
  ForeignCancel,  \* may somebody else cancel a delegate future?
  MayShutdown,    \* may a client call shutdown()?
  None            \* the count that means no throttling

ASSUME FuturesAssumption == IsFiniteSet(Futures)
ASSUME CountAssumption == Counts # {} /\ Counts \subseteq Nat \cup {None} /\ None \notin Nat
ASSUME ChangesAssumption == MaxChanges \in Nat
ASSUME SwitchAssumption == Blocking # {} /\ Blocking \cup {ForeignCancel, MayShutdown} \subseteq BOOLEAN

VARIABLES
  state,    \* state of each ThrottleFuture
  dstate,   \* state of the delegate future of each
  linked,   \* is future._delegate set?
  tally,    \* progress of _delegate_future_done on each delegate future
  resolve,  \* progress of _delegate_resolved on each delegate future
  canc,     \* program counter of cancel() on each future
  queue,    \* executor._to_submit
  batch,    \* to_submit, a local of the submit thread: what it has yet to submit
  running,  \* executor._running_count
  sub,      \* program counter of the submit thread
  limit,    \* throttle, a local of the submit thread
  count,    \* what the count is at present
  changes,  \* how often it has changed
  last,     \* executor._last_throttle
  placing,  \* program counter of the client in submit()
  bound,    \* its throttle_val; None between calls
  event,    \* is executor._event set?
  block,    \* executor._block
  shut      \* progress of shutdown()

futures == <<state, linked, canc>>
delegates == <<dstate, tally, resolve>>
counting == <<count, changes>>
client == <<placing, bound>>
vars == <<futures, delegates, counting, client, queue, batch, running, sub,
          limit, last, event, block, shut>>

Outcomes == {"result", "error"}
Settled == Outcomes \cup {"cancelled"}
Limits == Nat \cup {None}

TypeOK ==
  /\ state \in [Futures -> {"unborn", "pending"} \cup Settled]
  /\ dstate \in [Futures -> {"none", "live"} \cup Settled]
  /\ linked \in [Futures -> BOOLEAN]
  /\ tally \in [Futures -> {"none", "armed", "decr", "wake", "done"}]
  /\ resolve \in [Futures -> {"none", "armed", "unlink", "settle", "done"}]
  /\ canc \in [Futures -> {"idle", "callbacks", "commit"}]
  /\ queue \in Seq(Futures) /\ batch \in Seq(Futures)
  /\ running \in Nat
  /\ sub \in {"top", "fill", "start", "tally", "intally", "link", "resolve",
              "inresolve", "waiting", "clear", "exited"}
  /\ limit \in Limits /\ last \in Limits /\ bound \in Limits
  /\ count \in Counts /\ changes \in 0..MaxChanges
  /\ placing \in {"idle", "check", "asleep", "wake"}
  /\ event \in BOOLEAN /\ block \in BOOLEAN
  /\ shut \in {"open", "flagged", "closing", "closed", "joining", "returned"}

Init ==
  /\ state = [f \in Futures |-> "unborn"]
  /\ dstate = [f \in Futures |-> "none"]
  /\ linked = [f \in Futures |-> FALSE]
  /\ tally = [f \in Futures |-> "none"]
  /\ resolve = [f \in Futures |-> "none"]
  /\ canc = [f \in Futures |-> "idle"]
  /\ queue = <<>> /\ batch = <<>>
  /\ running = 0
  /\ sub = "top"
  /\ count \in Counts /\ changes = 0
  /\ limit = count /\ last = count /\ bound = None
  /\ placing = "idle"
  /\ event = FALSE /\ block \in Blocking
  /\ shut = "open"

-----------------------------------------------------------------------------
(* Helpers *)

\* cancel() holds the _me_lock of f.
Unlocked(f) == canc[f] = "idle"

\* The executor's _lock is free.
LockFree == sub # "fill"

\* The future the submit thread is submitting.
Current(f) == batch # <<>> /\ f = Head(batch)

\* The submit thread runs _delegate_resolved of f itself.
ResolvedInline(f) == sub = "inresolve" /\ Current(f)

\* event.set(): a submit() asleep on the event goes to look again.
SetEvent ==
  /\ event' = TRUE
  /\ placing' = IF placing = "asleep" THEN "check" ELSE placing

\* _eval_throttle: a count that cannot be evaluated stays what it was.
EvalThrottle == last' \in {count, last}

Below(n, v) == v # None => n < v

\* The delegate has been told to shut down, and accepts nothing more.
DelegateClosed == shut \notin {"open", "flagged"}

-----------------------------------------------------------------------------
(* submit() *)

CallSubmit ==
  /\ placing = "idle"
  /\ shut = "open"
  /\ \E f \in Futures : state[f] = "unborn"
  /\ EvalThrottle /\ bound' = last'
  /\ placing' = "check"
  /\ UNCHANGED <<futures, delegates, counting, queue, batch, running, sub,
                 limit, event, block, shut>>

\* len(None) comparison: TypeError, and no future.
SubmitRaises ==
  /\ placing = "check"
  /\ block /\ bound = None
  /\ placing' = "idle" /\ bound' = None
  /\ UNCHANGED <<futures, delegates, counting, queue, batch, running,
                 sub, limit, last, event, block, shut>>

SubmitSleeps ==
  /\ placing = "check"
  /\ block /\ bound # None /\ Len(queue) >= bound
  /\ ~event
  /\ placing' = "asleep"
  /\ UNCHANGED <<futures, delegates, counting, bound, queue, batch, running,
                 sub, limit, last, event, block, shut>>

\* The wait of 30 seconds is over.
SubmitTimer ==
  /\ placing = "asleep"
  /\ placing' = "check"
  /\ UNCHANGED <<futures, delegates, counting, bound, queue, batch, running,
                 sub, limit, last, event, block, shut>>

EnqueueTooLate(f) ==
  /\ placing = "check"
  /\ block => bound # None /\ Len(queue) + 1 < bound
  /\ LockFree
  /\ state[f] = "unborn"
  /\ state' = [state EXCEPT ![f] = "pending"]
  /\ queue' = Append(queue, f)
  /\ placing' = "wake"
  /\ UNCHANGED <<linked, canc, delegates, counting, bound, batch, running, sub,
                 limit, last, event, block, shut>>
Enqueue(f) ==
  /\ placing = "check"
  /\ block => bound # None /\ Len(queue) < bound
  /\ LockFree
  /\ state[f] = "unborn"
  /\ state' = [state EXCEPT ![f] = "pending"]
  /\ queue' = Append(queue, f)
  /\ placing' = "wake"
  /\ UNCHANGED <<linked, canc, delegates, counting, bound, batch, running, sub,
                 limit, last, event, block, shut>>

SubmitWake ==
  /\ placing = "wake"
  /\ event' = TRUE
  /\ placing' = "idle" /\ bound' = None
  /\ UNCHANGED <<futures, delegates, counting, queue, batch, running,
                 sub, limit, last, block, shut>>

-----------------------------------------------------------------------------
(* cancel() of a pending future.  When it fails it changes nothing: the job  *)
(* is on its way to the delegate, or the delegate future does not let itself *)
(* be cancelled.                                                             *)

\* _do_cancel finds the job in the queue.
CancelQueuedTallies(f) ==
  /\ state[f] = "pending" /\ Unlocked(f)
  /\ ~linked[f]
  /\ LockFree
  /\ \E i \in 1..Len(queue) : queue[i] = f /\ queue' = RemoveAt(queue, i)
  /\ running' = running - 1
  /\ canc' = [canc EXCEPT ![f] = "commit"]
  /\ UNCHANGED <<state, linked, delegates, counting, client, batch, sub,
                 limit, last, event, block, shut>>
CancelQueuedKeepsJob(f) ==
  /\ state[f] = "pending" /\ Unlocked(f)
  /\ ~linked[f]
  /\ LockFree
  /\ Contains(queue, f)
  /\ canc' = [canc EXCEPT ![f] = "commit"]
  /\ UNCHANGED <<state, linked, delegates, counting, client, queue, batch,
                 running, sub, limit, last, event, block, shut>>
CancelQueued(f) ==
  /\ state[f] = "pending" /\ Unlocked(f)
  /\ ~linked[f]
  /\ LockFree
  /\ \E i \in 1..Len(queue) : queue[i] = f /\ queue' = RemoveAt(queue, i)
  /\ canc' = [canc EXCEPT ![f] = "commit"]
  /\ UNCHANGED <<state, linked, delegates, counting, client, batch, running, sub,
                 limit, last, event, block, shut>>

\* The delegate future lets itself be cancelled, and runs its callbacks
\* inside the call.
CancelDelegate(f) ==
  /\ state[f] = "pending" /\ Unlocked(f)
  /\ linked[f]
  /\ dstate[f] = "live"
  /\ dstate' = [dstate EXCEPT ![f] = "cancelled"]
  /\ tally' = [tally EXCEPT ![f] = "decr"]
  /\ resolve' = [resolve EXCEPT ![f] = IF @ = "armed" THEN "unlink" ELSE @]
  /\ canc' = [canc EXCEPT ![f] = "callbacks"]
  /\ UNCHANGED <<state, linked, counting, client, queue, batch, running, sub,
                 limit, last, event, block, shut>>

\* The delegate future was cancelled before.
CancelAgainUnchecked(f) ==
  /\ state[f] = "pending" /\ Unlocked(f)
  /\ linked[f]
  /\ dstate[f] # "live"
  /\ canc' = [canc EXCEPT ![f] = "commit"]
  /\ UNCHANGED <<state, linked, delegates, counting, client, queue, batch,
                 running, sub, limit, last, event, block, shut>>
CancelAgain(f) ==
  /\ state[f] = "pending" /\ Unlocked(f)
  /\ linked[f]
  /\ dstate[f] = "cancelled"
  /\ canc' = [canc EXCEPT ![f] = "commit"]
  /\ UNCHANGED <<state, linked, delegates, counting, client, queue, batch,
                 running, sub, limit, last, event, block, shut>>

CancelCallbacksReturn(f) ==
  /\ canc[f] = "callbacks"
  /\ tally[f] = "done"
  /\ resolve[f] \in {"none", "done"} \/ ResolvedInline(f)
  /\ canc' = [canc EXCEPT ![f] = "commit"]
  /\ UNCHANGED <<state, linked, delegates, counting, client, queue, batch,
                 running, sub, limit, last, event, block, shut>>

CancelReturnsTrue(f) ==
  /\ canc[f] = "commit"
  /\ state' = [state EXCEPT ![f] = "cancelled"]
  /\ canc' = [canc EXCEPT ![f] = "idle"]
  /\ UNCHANGED <<linked, delegates, counting, client, queue, batch, running,
                 sub, limit, last, event, block, shut>>

-----------------------------------------------------------------------------
(* Delegate futures, as the package uses them, and the callbacks on them *)

\* The delegate future ends by itself: its callbacks, if attached, are due.
DelegateEnds(f, outcome) ==
  /\ dstate[f] = "live"
  /\ dstate' = [dstate EXCEPT ![f] = outcome]
  /\ tally' = [tally EXCEPT ![f] = IF @ = "armed" THEN "decr" ELSE @]
  /\ resolve' = [resolve EXCEPT ![f] = IF @ = "armed" THEN "unlink" ELSE @]
  /\ UNCHANGED <<futures, counting, client, queue, batch, running, sub, limit,
                 last, event, block, shut>>

DelegateFinish(f) == \E o \in Outcomes : DelegateEnds(f, o)

DelegateCancelledElsewhere(f) == ForeignCancel /\ DelegateEnds(f, "cancelled")

\* _delegate_future_done: running_count.decr() and event.set().
TallyDecr(f) ==
  /\ tally[f] = "decr"
  /\ running' = running - 1
  /\ tally' = [tally EXCEPT ![f] = "wake"]
  /\ UNCHANGED <<futures, dstate, resolve, counting, client, queue, batch, sub,
                 limit, last, event, block, shut>>

TallyWakeForgotten(f) ==
  /\ tally[f] = "wake"
  /\ tally' = [tally EXCEPT ![f] = "done"]
  /\ UNCHANGED <<futures, dstate, resolve, counting, client, queue, batch,
                 running, sub, limit, last, event, block, shut>>
TallyWake(f) ==
  /\ tally[f] = "wake"
  /\ SetEvent
  /\ tally' = [tally EXCEPT ![f] = "done"]
  /\ UNCHANGED <<futures, dstate, resolve, counting, bound, queue, batch,
                 running, sub, limit, last, block, shut>>

\* _delegate_resolved clears _delegate, under the future's lock, which the
\* thread in cancel() holds already if it runs this callback itself.  Nothing
\* is done for a cancelled delegate future.
ResolveUnlink(f) ==
  /\ resolve[f] = "unlink"
  /\ IF ResolvedInline(f)
       THEN Unlocked(f)
       ELSE tally[f] = "done" /\ (Unlocked(f) \/ canc[f] = "callbacks")
  /\ linked' = [linked EXCEPT ![f] = FALSE]
  /\ resolve' = [resolve EXCEPT ![f] =
                   IF dstate[f] = "cancelled" THEN "done" ELSE "settle"]
  /\ UNCHANGED <<state, canc, dstate, tally, counting, client, queue, batch,
                 running, sub, limit, last, event, block, shut>>

\* set_result or set_exception, which waits for the future's lock.
ResolveSettle(f) ==
  /\ resolve[f] = "settle"
  /\ Unlocked(f)
  /\ state[f] = "pending"
  /\ state' = [state EXCEPT ![f] = dstate[f]]
  /\ resolve' = [resolve EXCEPT ![f] = "done"]
  /\ UNCHANGED <<linked, canc, dstate, tally, counting, client, queue, batch,
                 running, sub, limit, last, event, block, shut>>

-----------------------------------------------------------------------------
(* _submit_loop, on the submit thread *)

CheckShutdownTooLate ==
  /\ sub = "top"
  /\ shut = "returned"
  /\ sub' = "exited"
  /\ UNCHANGED <<futures, delegates, counting, client, queue, batch, running,
                 limit, last, event, block, shut>>
CheckShutdown ==
  /\ sub = "top"
  /\ shut # "open"
  /\ sub' = "exited"
  /\ UNCHANGED <<futures, delegates, counting, client, queue, batch, running,
                 limit, last, event, block, shut>>

Evaluate ==
  /\ sub = "top"
  /\ shut = "open"
  /\ EvalThrottle /\ limit' = last'
  /\ sub' = "fill"
  /\ UNCHANGED <<futures, delegates, counting, client, queue, batch, running,
                 event, block, shut>>

\* One round of the loop under the lock.
FillOneTooMany ==
  /\ sub = "fill"
  /\ queue # <<>> /\ Below(running - 1, limit)
  /\ queue' = Tail(queue)
  /\ batch' = Append(batch, Head(queue))
  /\ running' = running + 1
  /\ UNCHANGED <<futures, delegates, counting, client, sub, limit, last, event,
                 block, shut>>
FillOneUnlisted ==
  /\ sub = "fill"
  /\ queue # <<>> /\ Below(running, limit)
  /\ queue' = Tail(queue)
  /\ running' = running + 1
  /\ UNCHANGED <<futures, delegates, counting, client, batch, sub, limit, last,
                 event, block, shut>>
FillOne ==
  /\ sub = "fill"
  /\ queue # <<>> /\ Below(running, limit)
  /\ queue' = Tail(queue)
  /\ batch' = Append(batch, Head(queue))
  /\ running' = running + 1
  /\ UNCHANGED <<futures, delegates, counting, client, sub, limit, last, event,
                 block, shut>>

\* The queue is empty, or throttled.
FillDone ==
  /\ sub = "fill"
  /\ queue = <<>> \/ ~Below(running, limit)
  /\ sub' = "start"
  /\ UNCHANGED <<futures, delegates, counting, client, queue, batch, running,
                 limit, last, event, block, shut>>

\* _do_submit submits to the delegate ...
Start(f) ==
  /\ sub = "start"
  /\ Current(f)
  /\ ~DelegateClosed
  /\ dstate' = [dstate EXCEPT ![f] = "live"]
  /\ sub' = "tally"
  /\ UNCHANGED <<futures, tally, resolve, counting, client, queue, batch,
                 running, limit, last, event, block, shut>>

\* (which refuses after its shutdown: RuntimeError ends the loop)
StartRefused ==
  /\ sub = "start"
  /\ batch # <<>>
  /\ DelegateClosed
  /\ sub' = "exited"
  /\ UNCHANGED <<futures, delegates, counting, client, queue, batch, running,
                 limit, last, event, block, shut>>

\* ... attaches _delegate_future_done, or runs it ...
AttachTallyIfLive(f) ==
  /\ sub = "tally"
  /\ Current(f)
  /\ tally' = [tally EXCEPT ![f] = IF dstate[f] = "live" THEN "armed" ELSE "done"]
  /\ sub' = "link"
  /\ UNCHANGED <<futures, dstate, resolve, counting, client, queue, batch,
                 running, limit, last, event, block, shut>>
AttachTally(f) ==
  /\ sub = "tally"
  /\ Current(f)
  /\ IF dstate[f] = "live"
       THEN tally' = [tally EXCEPT ![f] = "armed"] /\ sub' = "link"
       ELSE tally' = [tally EXCEPT ![f] = "decr"] /\ sub' = "intally"
  /\ UNCHANGED <<futures, dstate, resolve, counting, client, queue, batch,
                 running, limit, last, event, block, shut>>

TallyReturns(f) ==
  /\ sub = "intally"
  /\ Current(f)
  /\ tally[f] = "done"
  /\ sub' = "link"
  /\ UNCHANGED <<futures, delegates, counting, client, queue, batch, running,
                 limit, last, event, block, shut>>

\* ... sets _delegate, under the future's lock ...
Link(f) ==
  /\ sub = "link"
  /\ Current(f)
  /\ Unlocked(f)
  /\ linked' = [linked EXCEPT ![f] = TRUE]
  /\ sub' = "resolve"
  /\ UNCHANGED <<state, canc, delegates, counting, client, queue, batch, running,
                 limit, last, event, block, shut>>

\* ... and attaches _delegate_resolved, or runs it.
AttachResolveIfLive(f) ==
  /\ sub = "resolve"
  /\ Current(f)
  /\ resolve' = [resolve EXCEPT ![f] = IF dstate[f] = "live" THEN "armed" ELSE "done"]
  /\ sub' = "start" /\ batch' = Tail(batch)
  /\ UNCHANGED <<futures, dstate, tally, counting, client, queue, running, limit,
                 last, event, block, shut>>
AttachResolve(f) ==
  /\ sub = "resolve"
  /\ Current(f)
  /\ IF dstate[f] = "live"
       THEN /\ resolve' = [resolve EXCEPT ![f] = "armed"]
            /\ sub' = "start" /\ batch' = Tail(batch)
       ELSE /\ resolve' = [resolve EXCEPT ![f] = "unlink"]
            /\ sub' = "inresolve" /\ UNCHANGED batch
  /\ UNCHANGED <<futures, dstate, tally, counting, client, queue, running, limit,
                 last, event, block, shut>>

ResolveReturns(f) ==
  /\ sub = "inresolve"
  /\ Current(f)
  /\ resolve[f] = "done"
  /\ sub' = "start" /\ batch' = Tail(batch)
  /\ UNCHANGED <<futures, delegates, counting, client, queue, running, limit,
                 last, event, block, shut>>

AllStarted ==
  /\ sub = "start"
  /\ batch = <<>>
  /\ sub' = "waiting"
  /\ UNCHANGED <<futures, delegates, counting, client, queue, batch, running,
                 limit, last, event, block, shut>>

\* The event is set, or the 30 or 2 seconds are over.
WaitReturns ==
  /\ sub = "waiting"
  /\ sub' = "clear"
  /\ UNCHANGED <<futures, delegates, counting, client, queue, batch, running,
                 limit, last, event, block, shut>>

ClearEvent ==
  /\ sub = "clear"
  /\ event' = FALSE
  /\ sub' = "top"
  /\ UNCHANGED <<futures, delegates, counting, client, queue, batch, running,
                 limit, last, block, shut>>

-----------------------------------------------------------------------------
(* shutdown() *)

\* ShutdownHelper.__call__, which waits for a submit() in progress.
Shutdown ==
  /\ MayShutdown
  /\ shut = "open"
  /\ placing = "idle"
  /\ shut' = "flagged"
  /\ UNCHANGED <<futures, delegates, counting, client, queue, batch, running,
                 sub, limit, last, event, block>>

\* delegate.shutdown(wait): from here on the delegate accepts nothing.
ShutdownDelegate ==
  /\ shut = "flagged"
  /\ shut' = "closing"
  /\ UNCHANGED <<futures, delegates, counting, client, queue, batch, running,
                 sub, limit, last, event, block>>

\* A worker of the delegate runs the callable or a callback.
WorkerBusy(f) ==
  \/ dstate[f] = "live"
  \/ /\ tally[f] \in {"decr", "wake"}
     /\ canc[f] # "callbacks" /\ ~(sub = "intally" /\ Current(f))
  \/ /\ resolve[f] \in {"unlink", "settle"}
     /\ canc[f] # "callbacks" /\ ~ResolvedInline(f)

DelegateShutdownReturns ==
  /\ shut = "closing"
  /\ \A f \in Futures : ~WorkerBusy(f)
  /\ shut' = "closed"
  /\ UNCHANGED <<futures, delegates, counting, client, queue, batch, running,
                 sub, limit, last, event, block>>

ShutdownWake ==
  /\ shut = "closed"
  /\ event' = TRUE
  /\ shut' = "joining"
  /\ UNCHANGED <<futures, delegates, counting, client, queue, batch, running,
                 sub, limit, last, block>>

\* With wait=False neither the delegate nor the thread is waited for.
ShutdownNoWait ==
  /\ shut = "closing"
  /\ event' = TRUE
  /\ shut' = "returned"
  /\ UNCHANGED <<futures, delegates, counting, client, queue, batch, running,
                 sub, limit, last, block>>

JoinSubmitThread ==
  /\ shut = "joining"
  /\ sub = "exited"
  /\ shut' = "returned"
  /\ UNCHANGED <<futures, delegates, counting, client, queue, batch, running,
                 sub, limit, last, event, block>>

-----------------------------------------------------------------------------

\* What a dynamic count is changes at any time.
ChangeCount ==
  /\ changes < MaxChanges
  /\ count' \in Counts \ {count}
  /\ changes' = changes + 1
  /\ UNCHANGED <<futures, delegates, client, queue, batch, running, sub, limit,
                 last, event, block, shut>>

SubmitStep ==
  \/ SubmitRaises \/ SubmitTimer \/ SubmitWake
  \/ \E f \in Futures : Enqueue(f)

CancelStep(f) == CancelCallbacksReturn(f) \/ CancelReturnsTrue(f)

CallbackStep(f) ==
  TallyDecr(f) \/ TallyWake(f) \/ ResolveUnlink(f) \/ ResolveSettle(f)

SubmitThread ==
  \/ CheckShutdown \/ Evaluate \/ FillOne \/ FillDone
  \/ StartRefused \/ AllStarted \/ WaitReturns \/ ClearEvent
  \/ \E f \in Futures :
       \/ Start(f) \/ AttachTally(f) \/ TallyReturns(f)
       \/ Link(f) \/ AttachResolve(f) \/ ResolveReturns(f)

ShutdownStep ==
  \/ ShutdownDelegate \/ DelegateShutdownReturns
  \/ ShutdownWake \/ JoinSubmitThread

Next ==
  \/ CallSubmit \/ SubmitSleeps \/ SubmitStep
  \/ \E f \in Futures :
       \/ CancelQueued(f) \/ CancelDelegate(f) \/ CancelAgain(f) \/ CancelStep(f)
       \/ DelegateFinish(f) \/ DelegateCancelledElsewhere(f) \/ CallbackStep(f)
  \/ SubmitThread
  \/ Shutdown \/ ShutdownNoWait \/ ShutdownStep
  \/ ChangeCount

Spec == Init /\ [][Next]_vars

\* Threads are scheduled, callables return, timers fire, and a client that
\* waits for the lock gets it, however often the submit thread takes it.
Fairness ==
  /\ WF_vars(SubmitThread) /\ SF_vars(SubmitStep) /\ WF_vars(ShutdownStep)
  /\ \A f \in Futures :
       WF_vars(CancelStep(f)) /\ WF_vars(DelegateFinish(f)) /\ WF_vars(CallbackStep(f))

FairSpec == Spec /\ Fairness

-----------------------------------------------------------------------------
(* Safety *)

\* The submit thread has committed to run f, or the delegate runs it, or its
\* end has not been counted.
InProgress(f) ==
  \/ dstate[f] = "none" /\ f \in Range(batch)
  \/ dstate[f] # "none" /\ tally[f] \in {"none", "armed", "decr"}

\* The count of running futures is exact at every moment: each is counted
\* once, and taken off once, whether it ends, is cancelled, or ends before
\* its callback is attached (throttle.py:195-201, 222-223).
CountIsExact == running = Cardinality({f \in Futures : InProgress(f)})

\* "callables [...] will only be submitted to the delegate executor once
\* there are less than count futures in progress" (throttle.py:59-64), for
\* the count the submit thread has evaluated last.
NeverOverLimit ==
  [][\A f \in Futures :
       dstate[f] = "none" /\ dstate'[f] = "live" /\ limit # None =>
         Cardinality({g \in Futures : dstate'[g] = "live"}) <= limit]_vars

\* The assertion of MapFuture._delegate_resolved (map.py:52-55): it finds the
\* delegate future it was attached to.  And it settles a pending future only.
ResolveFindsDelegate ==
  \A f \in Futures :
    /\ resolve[f] = "unlink" => linked[f]
    /\ resolve[f] = "settle" => state[f] = "pending"

\* Somebody is about to set the event.
WakeComing ==
  \/ placing = "wake"
  \/ shut \in {"flagged", "closing", "closed"}
  \/ \E f \in Futures : tally[f] = "wake"

\* No lost wake up: a submit thread that nobody is about to wake does not
\* sleep over a job it could submit, nor over a shutdown (throttle.py:230-249).
NoOversleep ==
  sub = "waiting" /\ ~event /\ ~WakeComing =>
    /\ queue = <<>> \/ ~Below(running, limit)
    /\ shut = "open"

\* No future is forgotten: while the executor is in service, whoever is to
\* settle a pending future still knows of it.
PendingIsAccountedFor ==
  shut = "open" =>
    \A f \in Futures :
      state[f] = "pending" =>
        \/ f \in Range(queue) \cup Range(batch)
        \/ dstate[f] = "live" \/ resolve[f] \in {"unlink", "settle"}
        \/ canc[f] # "idle"
        \/ dstate[f] = "cancelled"

\* Every future keeps the promise of FuturePromise, its delegate future
\* being the only attempt.
Promise ==
  INSTANCE FuturePromise WITH
    status <- state,
    attempt <- dstate,
    stopped <- [f \in Futures |-> canc[f] = "commit" \/ state[f] = "cancelled"]

KeepsPromise == Promise!Spec

-----------------------------------------------------------------------------
(* Liveness *)

\* Every future settles, unless the executor is shut down first, its delegate
\* future is cancelled behind its back (map.py:61-62), or the count is 0.
FuturesSettle ==
  \A f \in Futures :
    state[f] = "pending" ~>
      \/ state[f] \in Settled
      \/ shut # "open"
      \/ dstate[f] = "cancelled"
      \/ count = 0 \/ limit = 0

\* A submit() that blocks returns, unless it was told a count of 0.
SubmitReturns ==
  placing \in {"check", "asleep"} ~> placing \in {"wake", "idle"} \/ bound = 0

\* shutdown() returns.
ShutdownReturns == shut = "closing" ~> shut = "returned"

-----------------------------------------------------------------------------
(* What the documentation claims and the code does not do *)

\* "The callable will be invoked each time this executor needs to decide
\* whether to throttle futures" (throttle.py:82-84): a submit() that blocks
\* goes on once the count is not 0.
BlockingFollowsCount == placing = "asleep" ~> placing = "idle" \/ count = 0
==============================================================================
