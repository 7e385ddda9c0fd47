# more-executors in TLA+

more-executors is a Python library of composable executors. Each executor
wraps another one (its *delegate*) and adds one behaviour: retry, throttling,
polling, timeouts, mapping, cancellation at shutdown. The code is small; what
makes it hard is that a future is touched by the client that cancels it, by
the thread that completes its delegate, by the executor's own thread, and by
shutdown, and that three kinds of locks, an event and a chain of callbacks tie
these together. The specifications here are about that.

Paths below are relative to `src/`; `impl/` stands for `src/more_executors/_impl/`.

## 1. The system

### Components

| component | code | state it keeps | operations |
|---|---|---|---|
| `_Future` | `impl/common.py` | `_me_lock`, done callbacks | `cancel`, `add_done_callback`, `copy_exception`, `try_set_result` |
| `ShutdownHelper`, `executor_loop` | `impl/helpers.py` | `is_shutdown`, a lock | `ensure_alive`, `__call__` |
| `RetryExecutor`, `RetryFuture` | `impl/retry.py` | the list `_jobs`, `_submit_event`, `delegate_future` of each future | `submit`, `_cancel`, submit thread, `_delegate_callback`, `shutdown` |
| `ThrottleExecutor`, `ThrottleFuture` | `impl/throttle.py` | the queue `_to_submit`, `_running_count`, `_last_throttle`, `_event` | `submit` (may block), `_do_cancel`, submit thread, `_delegate_future_done`, `shutdown` |
| `MapExecutor`, `MapFuture` | `impl/map.py` | `_delegate` of each future | `_set_delegate`, `_delegate_resolved`, `cancel` |
| `FlatMapExecutor`, `FlatMapFuture` | `impl/flat_map.py` | `__flattened` | `_on_mapped`: a second delegate replaces the first |
| `CancelOnShutdownExecutor` | `impl/cancel_on_shutdown.py` | the set `_futures`, an `RLock` | `submit`, `shutdown` |
| `PollExecutor`, `PollFuture`, `PollDescriptor` | `impl/poll.py` | the list of descriptors, an event | `submit`, `notify`, `yield_result`, poll thread, cancel function |
| `TimeoutExecutor` | `impl/timeout.py` | the list of (future, deadline), an event | `submit`, job thread, cancel at the deadline |
| `SyncExecutor`, `AsyncioExecutor` | `impl/sync.py`, `impl/asyncio.py` | none | `submit` |
| `Executors`, `bind`, `wrap` | `impl/executors.py`, `bind.py`, `wrap.py`, `wrapped.py` | none | factories |
| events at exit | `impl/event.py` | the set of live events | `get_event`, `atexit` |
| `f_zip`, `f_or`, `f_and` | `impl/futures/zip.py`, `bool.py` | a lock, remaining inputs, `done` | `handle_done` per input, cancel of the output |
| `f_map`, `f_timeout`, `f_nocancel`, `f_proxy`, ... | `impl/futures/` | none, or a `MapFuture` | adapters |
| metrics, logging | `impl/metrics/`, `logwrap.py` | counters nobody reads | - |

### How they interact

- *Calls downward*: `submit`, `cancel` and `shutdown` of an executor or future
  call the same operation of its delegate, sometimes with a lock held:
  `_Future.cancel` keeps `_me_lock` while it asks the delegate future.
- *Callbacks upward*: a delegate future that completes runs the callbacks on
  it, on the thread that completed it, or on the thread that attaches the
  callback if it comes too late, or inside `cancel()`.
- *Threads*: `RetryExecutor`, `ThrottleExecutor`, `PollExecutor` and
  `TimeoutExecutor` each have a thread that looks at the executor's data,
  acts, and sleeps on an event (`wait`, then `clear`) with a timeout.
- *Shutdown*: a flag under a lock that every `submit` holds from its check to
  its return, then the delegate's `shutdown`, the event, and a join.

### What is hard, and what makes each part correct

| component | hard behaviour | properties |
|---|---|---|
| `RetryExecutor` | a job is popped and another appended for each attempt while clients cancel; callbacks search a snapshot; the event is cleared after the wait | one job per future, callbacks find their job, no attempt overlaps another or follows a cancel or a settled future, no lost wake up, no forgotten future, every future settles |
| `ThrottleExecutor` | the count is raised under one lock and lowered under another, in a callback that may come at once; the limit changes; a submit blocks with a lock held | the count is exact, the limit holds, no lost wake up, no forgotten future, a blocked submit returns |
| `MapFuture` | `_delegate` is cleared, replaced and cancelled by three threads | the callback finds its delegate, the future keeps its promise |
| `CancelOnShutdownExecutor` | two locks in two orders; a submit races with the shutdown; callbacks change the set without the lock | shutdown reaches every future, the set is exact, no deadlock |
| `FlatMapFuture` | the delegate is replaced by one that may be done, cancelled or cancelled elsewhere before the callback is on it | only a delegate cancelled elsewhere leaves the future pending, nothing that was cancelled is mapped |
| `TimeoutExecutor` | the thread cancels what it took off the list while clients submit, cancel and complete | each overdue future is asked once, no deadline is slept over |
| `PollExecutor` | a future is registered and deregistered by callbacks on two futures; `cancel()` reads the list without its lock | no stale descriptor stays, the cancel function is never passed by, every polled future settles |
| `f_zip`, `f_or`, `f_and` | inputs end in any order, while the output is cancelled | the outcome is that of the documented tables, the other inputs are cancelled |

`PROJECT.json` lists each hazard at its line with the properties that watch it.

## 2. Plan

1. `FuturePromise`: what a client may rely on, whatever executor made the
   future. *Done.*
2. `RetryExecutor`: the largest state machine. *Done*, with its safety and the
   promise proved.
3. `ThrottleExecutor` with `MapFuture` under it. *Done*, with its safety and
   the promise proved.
4. `CancelOnShutdown`. *Done*, with its safety proved.
5. `FutureChain`: `MapFuture` and `FlatMapFuture` with mapping and error
   functions, cancelled and settled at any link. *Done*; it is the abstract
   specification that `TimeoutExecutor` is shown to implement.
6. `TimeoutExecutor` above it, and `PollExecutor`. *Done*, with their safety
   proved.
7. `Combinator`: `f_zip`, `f_or`, `f_and` against the tables of the
   documentation. *Done*, with its safety proved.
8. Left: a composition of two executors with threads of their own, such as
   retry above throttle (`docs/user-guide.rst`, "Composing executors"); the
   delegate of each module is an external one here, which may do whatever a
   `concurrent.futures` executor may.

Every safety property that a passing run checks is proved for all values of the
constants, and for each component that waits for something (all but
`FutureChain`) that it waits for nothing that nobody will bring: section 5,
"At rest". A second round of proofs has left: what the liveness properties say
beyond that, which is out of the prover's reach.

## 3. The modules

| module | models | with |
|---|---|---|
| `FuturePromise` | the abstract specification of a future | - |
| `RetryExecutor` | `impl/retry.py`, with `_Future` and `ShutdownHelper` | `RetryExecutorMC`, `RetryExecutorProofs`, `RetryExecutorPromise` |
| `ThrottleExecutor` | `impl/throttle.py`, with `MapFuture`, `_Future` and `ShutdownHelper` | `ThrottleExecutorMC`, `ThrottleExecutorProofs` |
| `CancelOnShutdown` | `impl/cancel_on_shutdown.py` with `ShutdownHelper` | `CancelOnShutdownMC`, `CancelOnShutdownProofs` |
| `FutureChain` | `MapFuture`, `FlatMapFuture` (`impl/map.py`, `impl/flat_map.py`) with `_Future` | `FutureChainProofs`; extended by `TimeoutExecutor` |
| `TimeoutExecutor` | `impl/timeout.py` with `FutureChain` and `ShutdownHelper` | `TimeoutExecutorMC`, `TimeoutExecutorProofs` |
| `PollExecutor` | `impl/poll.py` with `_Future` and `ShutdownHelper` | `PollExecutorMC`, `PollExecutorProofs` |
| `Combinator` | `f_zip`, `f_or`, `f_and` (`impl/futures/zip.py`, `bool.py`, `base.py`) | `CombinatorMC`, `CombinatorProofs` |

### Conventions

A thread is a program counter. An action is one critical section, or one
access to shared state outside of any lock, so that TLC explores every
interleaving Python allows between such steps (the GIL makes one list or set
operation atomic and nothing longer). A lock kept across several actions is
not a variable: who holds it follows from the program counters (`Unlocked(f)`
is the future's `_me_lock`, `LockFree` the executor's `_lock`, `placing` or
`HelperFree` the lock of `ensure_alive`). Callables, results and exceptions
are two outcomes, `"result"` and `"error"`. Operators with names such as
`CallbackWakeForgotten`, placed before the action they resemble, are the
action with a bug in it; no specification uses them. They show which
mistake each property would notice.

### FuturePromise

A future has a `status`; behind it, `attempt` is what the latest attempt came
to; `stopped` says that somebody asked to cancel. `Begin` needs a pending
future that is not stopped and no attempt that is live or was cancelled;
`Settle` copies the outcome of the latest attempt; `Cancel` needs a request
and no live attempt. Both executors are checked to implement it
(`KeepsPromise`): their delegate futures map to the attempts.

### RetryExecutor

| in the module | in the code |
|---|---|
| `jobs`, a set of records | `executor._jobs`; the order of the list only decides between jobs that are due, and the model allows each |
| a job's `running`, `attempt`, `when`, `stop` | `delegate_future is not None`, `attempt`, `when`, `stop_retry` |
| `dstate[f][n]`, `cb[f][n]` | the n-th delegate future of `f`, and how far `_delegate_callback` on it has come |
| `link[f]` | `future.delegate_future` |
| `sub`, `sel` | the submit thread and the job it picked |
| `canc[f]`, `target[f]` | `cancel()` between its steps, and the delegate future it found |
| `Submit`, `SubmitWake` | `submit_retry` |
| `CancelWaiting`, `CancelRunning`, `CancelDelegate`, ... | the branches of `_cancel` |
| `CallbackFind`, `CallbackRetry`, `CallbackWake`, `CallbackSettle`, `CallbackPop` | `_delegate_callback` and `_retry` |
| `CheckShutdown` ... `ClearEvent` | `_submit_loop` and `_submit_now` |
| `Shutdown` ... `JoinSubmitThread` | `shutdown(wait=True)` |

The policy answers freely: retry after an error (after a result too if
`RetryResults`), up to `MaxAttempts`, with any sleep in `Sleeps`; only
`stop_retry` binds it. The arithmetic of `ExceptionRetryPolicy` is not
modelled. Time is `now`, which ticks only as far as the latest job needs.

### ThrottleExecutor

`queue`, `batch` and `running` are `_to_submit`, the local list `to_submit` and
`_running_count`. The two callbacks on a delegate future have a progress each:
`tally[f]` for `_delegate_future_done`, `resolve[f]` for `_delegate_resolved`;
they run on the thread that ends the delegate future, inside `cancel()`
(`canc[f] = "callbacks"`), or on the submit thread when it attaches them too
late (`sub = "intally"` and `"inresolve"`). The submit thread keeps `_lock`
while it fills its batch (`sub = "fill"`), one job per action, because
`running` goes down meanwhile under a lock of its own. `bound` is the value of
the count a client in `submit()` was given; `count` is what it would be given
now; a callable that raises leaves `last`. `limit` is what the submit thread
last evaluated.

### CancelOnShutdown

`client[c]` is a client in `submit()`, from `ensure_alive` (holding the
helper's lock) to the executor's lock, the delegate, the set, the callback and
back out. `shut` is the thread in `shutdown()`, `left` the copy of the set it
works through, `asked` what it has called `cancel()` on. Callbacks (`Discard`)
change the set without a lock.

### FutureChain

| in the module | in the code |
|---|---|
| `turn[f]`, `dstate[f]` | which delegate of `f` is the current one, the first or the one its function returned, and how far that is |
| `link[f]` | `future._delegate` |
| `step[f]` | `_delegate_resolved` for that delegate: not attached, armed, unlinking, mapping, done |
| `holding[f]` | a `cancel()` that has cancelled the delegate and still has the future's `_me_lock` |
| `hook[f]` | the callback that whoever made the future adds to it |
| `Attach`, `Unlink`, `Settle`, `Flatten` | `_set_delegate` and `_delegate_resolved`, `_on_mapped` |
| `CancelDelegate`, `CancelCommit` | `_Future.cancel` with `MapFuture._me_cancel` |

`Mapped(f)` says what `fn` and `error_fn` may come to; either may raise. `Flat`
and `Rescue` are the futures that flatten and those with an error function. A
delegate that is cancelled by its own future runs `_delegate_resolved` inside
that `cancel()`. `f_nocancel` is a future whose `CancelDelegate` nobody takes.

### TimeoutExecutor

It extends `FutureChain` with the list of jobs, the thread and `shutdown()`. A
`TimeoutExecutor` only makes `MapFuture`s whose function is the identity; the
module lets its futures have any function and flatten, which contains that case.
`left[f]` is the job's deadline less `monotonic()`, so that time needs no
bound: it counts down to -1, overdue, and `sleep` counts down with it. `overdue`
is the local list of `_job_loop_iter`, `tried` what it has called `cancel()` on.
The local list `pending` is the object `_jobs` names from then on, so a job that
`submit()` appends meanwhile is in it when the wait time is computed
(`WaitTime`). `SubmitWake` and the callback (`OnFutureDone`) set the event.
`PartitionJobs` is one step, under `_jobs_lock`; a future that becomes done in the
middle of it is one that becomes done right before or right after, and its
callback wakes the thread in each case.

### PollExecutor

`polled` is the list of descriptors, `batch` the copy the poll thread has taken,
`yielding` the descriptor through which it is settling a future, `failing` those
it still has to fail after the poll function raised. `resolve[f]` and `clear[f]`
are the two callbacks of a future, on its delegate and on itself. `_register_poll`
keeps the executor's lock while it waits for the future's (`Register`,
`ClearDelegate`); `_run_cancel_fn` reads the list with the future's lock and
without the executor's (`CancelPolled`). The model lets the callback of a
settled future run apart from the poll thread that settled it, which allows
more interleavings than the code. Descriptors are used by the poll function
only, as the documentation has it. The length of the interval is left out: the
wait may end at any time.

### Combinator

The operation is called with `N` arguments, one of the lists in `Calls`, which
may name an input twice. `next` is how far the constructor is; `handler[i]` and
`chained[i]` are the callbacks of argument `i`, on the input and on the output.
`HandleDone` is `handle_done` under the lock; it removes `Slot(i)` from `open`
and leaves its `decision` and the `losers` to be acted on after the lock is
released (`ActOnDecision`, `CancelLoser`), interleaved with everything else. The
second callback of an input that was given twice to `f_or` or `f_and` raises
`KeyError` (`HandleDoneRaises`); a standard future logs it, one of this
library's (`Own`) lets it through to the constructor, which then is abandoned
(`raised`). A constructor does not wait for what a callback it runs does after
the lock, which again allows more than the code.

## 4. The runs

| run | instance | what it shows |
|---|---|---|
| `retry_safety` | 2 futures, 2 attempts, 2 cancels, retry after results allowed | the list of jobs is consistent, callbacks find their jobs, attempts never overlap, none follows a `cancel()` or a settled future, no wake up is lost, no future forgotten until the delegate is told to shut down; the promise is kept |
| `retry_liveness` | 1 future, 3 attempts, sleeps 0 to 2, foreign cancels, shutdown | every future settles while the executor is in service; `shutdown()` returns |
| `retry_death` | 1 future, 2 attempts, 2 cancels | finding 1 |
| `throttle_safety` | 3 futures, count 1 or None, one change, block or not | the count is exact, the limit holds, callbacks find their delegate, no wake up or future is lost; the promise is kept |
| `throttle_liveness` | 2 futures, count 0 or 1, foreign cancels, shutdown | every future settles, a blocked `submit()` gets through, `shutdown()` returns |
| `throttle_stale` | 1 future, a count that changes once | finding 2 |
| `cos_safety` | 2 clients, 3 futures | the set is exact, `shutdown()` reaches every live future, none is made after the flag |
| `cos_deadlock` | 1 client, 1 future | finding 3 |
| `timeout` | 2 futures: one flattens, one has an error function and a delegate others may cancel; timeout 1, shutdown | the assertion of `_delegate_resolved` holds, nothing cancelled is mapped, only a cancelled delegate is lost; each future is asked to cancel once and when it is overdue, no deadline is slept over |
| `chain_lost` | 1 future that flattens | finding 4 |
| `poll` | 2 futures, a cancel function that may refuse, foreign cancels, `notify()`, shutdown | no stale descriptor, the cancel function is always asked, no descriptor waits for the interval, every polled future settles |
| `combinators` | each operation on 3 arguments: 3 futures, or 2 with one given twice, in two orders; one of this library | the outcome is one the documentation allows, the inputs that lost are asked to cancel, the output settles once it is determined |

The liveness runs check liveness only. The safety properties of the same
modules are checked by the safety runs and proved for every value of the
constants, those of the liveness instances included.

Three more configurations are kept beside the runs: `RetryExecutorOrphan.cfg`,
`RetryExecutorLeak.cfg` and `FutureChainNested.cfg`, for the observations at the
end of section 6. TLC finds a counterexample in each.

### Bounds, and why they are enough

- *Two futures* in `RetryExecutor` share only the list, the event and the
  submit thread; two are needed for one to be picked while the other is
  cancelled or retried. Everything proved holds for any number.
- *Two attempts* give a first, a last and a transition between them; the
  liveness run has three, so that there is one in the middle.
- *Two cancels* let a second one meet what the first left behind.
- *Three futures* in `ThrottleExecutor` under a limit of 1 give one that runs,
  one in the queue, and one in `submit()`. The limit None lets a batch of
  three be taken, and the change takes the limit below what runs.
- `MaxChanges = 1`: a change is seen, or missed, by each evaluation after it; a
  second adds no kind of evaluation.
- *Two futures* under a `TimeoutExecutor` give a deadline that is computed while
  the other job is listed, cancelled or dropped. One flattens, the other does
  not, so that both kinds meet the thread. The timeout 1 leaves room for a
  future to complete before, at and after its deadline, because `Tick` may come
  between any two steps; longer ones only repeat the countdown.
- *Two futures* in `PollExecutor`: one on the list while the other is registered,
  deregistered or failed.
- *Three arguments* of a combinator give one that decides, one that has ended
  and one that has not, and a loser on either side of the place the
  constructor has reached.
- *Deadlock checking* is off wherever an executor nobody calls sits idle, which
  is a normal state; that waiting threads are not stuck is what `NoOversleep`
  and the liveness properties say. It is on in `poll`, where the interval always
  ends. In `cos_safety` the deadlock is real and is finding 3.
- *Symmetry* is used in the safety runs only: no action compares futures.

### Fairness

`FairSpec` assumes that a thread that can take a step takes one: the submit
thread, a `cancel()`, a callback and a `shutdown()` once begun, and the callable
of a delegate future, which returns (clients' calls themselves are never
assumed). Timers fire (`Tick`, `WaitReturns`, `SubmitTimer`). All are weak, with
one exception: a client in `ThrottleExecutor.submit` competes for `_lock` with
a submit thread that takes it again and again, and strong fairness says that it
gets it once in a while. Python's locks are not fair, but the submit thread
sleeps on its event between two rounds, which leaves the lock free for as long
as nothing happens.

The other runs assume:

- `timeout`: weak fairness of the job thread, of time, and of what is under way
  for a future (its `submit()`, `_delegate_resolved`, a `cancel()`, the
  callback). Nothing obliges a delegate to finish.
- `poll`: the poll thread needs the `_me_lock` of a future it settles, which
  clients that call `cancel()` again and again, refused by the cancel function,
  take and release for ever: strong fairness says that the thread gets it once
  in a while. The poll function returns or raises, and a descriptor that it is
  given again and again is settled at last: that is the contract of the poll
  function, not a promise of the library, and `PolledFuturesSettle` is what the
  library makes of it.
- `combinators`: a constructor and a callback, once begun, end. Inputs may stay
  pending for ever; `OutSettles` only speaks of determined outputs.

`FuturesSettle` has excuses, each stated in the formula: an executor that is
shut down, a delegate future that somebody else cancelled (the code leaves the
future pending on purpose), and, for the throttle, a count of 0. Each is what
the code does, not a simplification.

## 5. The proofs

Eight modules of proofs, each EXTENDS its component (`RetryExecutorPromise` and
`TimeoutExecutorProofs` the proofs they build on, too) and is checked to the last
leaf.

`RetryExecutorProofs`, for any set of futures, any limits on attempts and cancels,
any sleeps and switches (assumptions: `BoundsAssumption`, `SwitchAssumption`,
`NoneAssumption`). The properties are not inductive: that a callback finds its
job depends on who may pop it. The invariant `IInv` says, in named parts,

- `JobsInv`: one job per future, of its latest attempt; a waiting job belongs to
  a pending future whose last attempt ended, and is not being cancelled;
- `AttemptsInv`: for every delegate future, whether it is not made yet
  (`Future`), was retried (`Past`) or is the latest (`Latest`), and what the
  progress of its callback tells about the list and the future;
- `CancelInv`: what `cancel()` knows between its steps;
- parts on the submit thread and the job it holds.

One lemma per action shows that it keeps `IInv` (`...Keeps`), with frame lemmas
for what leaves most variables alone; `NextIInv` collects them. Then
`TypeCorrect`, `JobsAreUnique`, `CallbacksFindTheirJob`, `SettledFuturesAreIdle`
and `AttemptsDoNotOverlap` follow as consequences of `IInv`, and
`CancelStopsRetries`, an action property, from `IInv` and the fact that only
`_submit_now` makes a delegate future (`OnlySubmitNowTries`). `NoneIsForgotten` and
`NoWakeUpIsLost` are inductions of their own on top of `IInv`. The first is
inductive as it stands. The second needs `SleepInv`, which says from the scan on
what the submit thread will go to sleep on: unless it is `Warned` (the event
is set, or somebody is about to set it), no shutdown has begun and no waiting job
is due before the one it has picked. A warning is only taken away where the
thread clears the event (`WarningLasts`), a job that starts to wait comes with a
warning (`OthersKeepSleep`), and a thread that finds nothing has no waiting job,
because the times of the waiting jobs have a least one (`LeastExists`,
`NextJobExists`).

`RetryExecutorPromise`: `ImplementsPromise`, one step of the lemma
`NextKeepsPromise` per step of the promise. A delegate future is the attempt
behind its future only while it is the latest, so each step on a delegate
future `f, n` first shows `n = tries[f]` (`LiveIsLatest`, `CallbackIsLatest`). A cancelled
future must be one somebody asked to cancel, which `IInv` does not say:
`CancelsCounted` adds it.

`ThrottleExecutorProofs`, for any finite set of futures (`FuturesAssumption`),
any counts (`CountAssumption`), any number of changes (`ChangesAssumption`)
and all settings of the switches (`SwitchAssumption`). `IInv` has `QueueInv` (no
job is listed twice, nor in both the queue and the batch), `ThreadInv` (where the
submit thread is when it has a batch), `LimitInv` (a batch was taken under the
limit), and for each future either `Waiting` (no delegate future yet: it is in
the queue or in the batch, unless `cancel()` took it) or `Begun`, whose part
`Callbacks` says how far both callbacks have come and what `_delegate` is.
`CountIsExact` is a conjunct itself: the two steps that move the count, `FillOne`
and `TallyDecr`, add and remove one element of the set of futures in progress,
every other step leaves that set alone (`CountKept`). Three lemmas say what
the ends of a sequence without repetitions are, and what `remove` does to one.
From `IInv` follow `TypeCorrect`, `CountStaysExact`, `CallbacksFindTheirDelegate`
and `NoneIsForgotten`; `LimitHolds`, because the live delegate futures and the
one that is started are all counted; `NoWakeUpIsLost`, by a `SleepInv` as above
(from the end of the loop under the lock on, the queue is empty or throttled); and
`ImplementsPromise`, a step per step of the promise (`NextKeepsPromise`).

`CancelOnShutdownProofs`, for any clients and futures. `IInv` has `LocksInv` (at
most one `submit()` is past the helper's lock; none holds the executor's
when `shutdown()` does; none is in progress once the flag is set), `CallbackInv`
and `MakingInv` (how a future, its callback and the set go together on the way
through `submit()`) and `ShutdownInv` (what is live is asked, or will be). It
gives `TypeCorrect`, `TrackingIsExact`, `ShutdownAsksAll` and, as an action
property, `ShutdownIsFinal`. The locks that cause the deadlock are the
same that make these true.

`TimeoutExecutorProofs`, for any finite set of futures, any of them flattening, any
timeouts (`KindAssumption`, `TimeoutAssumption`). `ChainInv` says for each future
what `step`, `turn`, `link`, `dstate` and `holding` say of each other: that
`_delegate_resolved` is on its way only for the delegate that is linked, and that
a cancelled delegate under an unlocked pending future has been passed over.
`JobsInv` says that a job is in one place, and `WakeInv` what the thread goes to
sleep on. `ImplementsChain` is the refinement: every step of the executor is a
step of one future of `FutureChain` or leaves the chain alone: the thread that
cancels is one more client to its futures. What is proved of every chain then
holds of the executor's futures (`TimeoutIsHonest`). `AssertionHolds`, `NoOtherIsLost` and
`FnOnlyForPending` follow from `ChainInv` alone (it is in `FutureChainProofs`, with the
lemmas that each step of a chain keeps it). `OneAttemptEach` and `NeverOversleeps` are about the executor. The latter
needs that the minimum of what is left of the deadlines exists (a finite set of
integers) and that `Tick` takes the sleep and the deadlines down together.

`PollExecutorProofs`, for any futures, with or without a cancel function. `LifeInv`
orders the callbacks of a future (registration is attached before
deregistration, the link goes when the descriptor is on the list); `ListInv`
says which futures the list has. Together they make `DescriptorsArePending` and
`CancelIsAsked` hold although `_run_cancel_fn` takes no lock on the list: a
pending future with no link has its descriptor on the list until it is done.
`WakeInv` gives `NeverOversleeps`.

`CombinatorProofs`, for any inputs, any number of arguments from 2 and any calls.
`HandlerInv` ties the progress of the callbacks to the inputs and the
constructor, `OpenInv` says that until the decision each argument is still open or
has ended in a way that leaves the operation undecided, which also holds of
inputs given twice, `LosersInv` that each input has ended, was asked, or is still among the losers, and `ChainInv` the
same of the callbacks on a cancelled output. `DecisionIsJustified` is the table
of the documentation, argument by argument.

### A cancel() that is honest

`cancel()` of a `MapFuture` or a `PollFuture` works in two steps: it gets the delegate,
or the cancel function, to agree, and then makes the future cancelled. Between
them the delegate's thread and the poll thread go on. `CancelIsHonest` (`FutureChainProofs`,
`PollExecutorProofs`) and `TimeoutIsHonest` prove that the second step finds the
future still pending and leaves it cancelled. For the poll this needs `CancelInv`: who
settles a future waits for the lock that `cancel()` keeps, and a delegate that
is cancelled is not polled for.

`NobodyIsAskedTooEarly` is about the `cancel()` that `f_or` and `f_and` call: an
input is asked only when the output was cancelled, or when the inputs that have
ended determine it. It follows from `AskInv` and from `DecidedIsDetermined`, which
reads it off the promise that `OutcomeIsJustified` states.

### What the findings need

Some properties fail, and section 6 has the counterexamples. The theorems
here say how far they do hold, so that a counterexample is known to be the only
kind:

| fails | what is proved |
|---|---|
| `SubmitThreadSurvives` (finding 1) | `OnlyLateResultKills`: the thread dies only when it hands over a *result* late, after a second `cancel()`. `ErrorRetriesAreSafe`: it survives if policies retry errors only. `PickedInv` is the induction: the future of a stopped job the thread has picked is pending, unless a second `cancel()` came |
| `CancelFindsJob` | `OrphansAreCancelledTwice`: only a second `cancel()`, or one after the delegate was told to shut down, finds no job |
| `CallbackTakesJobAway` | `CallbacksLeaveCancelled`: the jobs left behind are those of cancelled delegate futures |
| `BlockingFollowsCount` (finding 2) | `ExecutorIsNeverStuck` (throttle, below): nothing but a count or a limit of 0 blocks a `submit()` with all else done; the limit follows the count, the bound does not |
| `NoDeadlock` (finding 3) | `CrossingIsForever`: the two never get past each other. `CrossingIsTheOnlyBlock`: nothing else stops `submit()` or `shutdown()` |
| `FollowsReturnedFuture` (finding 4) | `OwnCancelLosesNone`: it holds, and no future stays behind a delegate that is done, as long as each delegate is cancelled by its own future only |
| `NeverNested` | `OnlyRescueNests`: it holds unless a future has both a function that returns futures and an error function |
| a call of `f_or`, `f_and` that raises | `OnlyTwiceRaises`: an input of this library was given twice. `DistinctNeverRaises`: no call raises if no input is |

`OwnCancelLosesNone` has an assumption on behaviours (`OnlyOwnCancel`, a box of an
action), the others on constants or none. Each hypothesis is met by states that
TLC reaches.

### At rest

Liveness is out of the prover's reach, but a good part of why it holds is not. A
future that is never settled is left pending in one of two ways: something that
could go on is never given its turn, which the fairness excludes, or everything
has gone as far as it can. The second is a state, and what is true of it is an
invariant. For each component `AtRest` says that neither a thread, nor a callback,
nor a call in progress has a step to take, timers and the clock included where
the executor relies on them and left aside where it should not (the throttle's
30 s and 2 s timers, the poll interval). `ENABLED` is out of reach as well, so
`AtRest` is written as what the negated guards come to under the invariant; TLC
confirmed on small instances, as in section 4, that it is equivalent to `~ENABLED` of
those actions, and that there are such states in which the conclusion is not void.
`NothingIsStuck` then says what may be left:

| theorem | at rest |
|---|---|
| `ExecutorIsNeverStuck` (retry) | `shutdown()` was not called or has returned; in service and with its thread alive, a pending future is behind a delegate future that somebody else cancelled |
| `ExecutorIsNeverStuck` (throttle) | no `cancel()` is under way; `shutdown()` as above; a client is about to block in `submit()` only if the count was 0 when it asked, or the limit is 0 now; a pending future is in the queue under a limit of 0, or behind a delegate future that somebody else cancelled |
| `CrossingIsTheOnlyBlock` | the locks are crossed, or no call is in progress and nothing is tracked, or the model's supply of futures is used up |
| `TimeoutIsNeverStuck` | no job is listed or overdue; a pending future was asked to cancel in time, and its delegate runs on or was cancelled elsewhere |
| `ExecutorIsNeverStuck` (poll) | the list is exactly the pending futures with a result to poll for, and the thread has shown all of them; other pending futures wait for their delegate, or somebody else cancelled it; `shutdown()` waits for delegates only |
| `CombinatorIsNeverStuck` | an output that its inputs determine is done, or the call raised |

Each of them combines the invariants above: that no future is forgotten gives
somebody who knows of it, that no wake up is lost gives a thread that does not
sleep over it, and the parts on program counters give that no lock is kept
(`RestIsQuiet`). Two more things were needed. An executor's
thread ends for a shutdown only (`ExitsOnShutdown`, `ServiceInv`, `ThreadInv`,
`CancelInv`). And for the combinators `CountInv`: what `handle_done` has
taken off is exactly what has run, so that something is left to run until the
decision is made; with an input that was given twice it is what keeps the count
from running out early.

Proving the retry executor's showed that `PendingIsAccountedFor` was weaker than
the code: it excused every state after the shutdown flag, but the futures are
accounted for until the delegate itself is told to shut down. It now says so.

Only model-checked: liveness (`FuturesSettle`, `OverdueIsTried`, `PolledFuturesSettle`,
`OutSettles`, `ShutdownReturns`, `SubmitReturns`), which the prover does not
handle (the theorems above prove what each of them says of a state at rest), and
the four findings, which are counterexamples.

## 6. Findings

1. `retry_death` - with a policy that retries after a result, a `cancel()` between
   the pop of a stopped job and the copy of its outcome makes `set_result` raise
   in the submit thread, which dies (`impl/retry.py:517`).
2. `throttle_stale` - a `submit()` that blocks never looks at a dynamic count
   again (`impl/throttle.py:135`).
3. `cos_deadlock` - `submit()` and `shutdown()` of `CancelOnShutdownExecutor` take
   two locks in opposite orders (`impl/cancel_on_shutdown.py:77`).
4. `chain_lost` - a delegate that somebody else cancels is dropped and nothing
   follows (`impl/map.py:61`): the future that `f_map`, `f_flat_map` or `f_sequence`
   returned stays pending, and its `cancel()` returns False from then on.
   `OnlyCancelledAreLost` and `OwnCancelLosesNone`, which are proved, say that this is
   the only way.

Further observations, each a configuration or an action of its own:

- A second `cancel()` in the window of finding 1 finds no job, and the assertion of
  `impl/retry.py:400` fails (`CancelFindsJob`, `RetryExecutorOrphan.cfg`).
- The job of a running future that is cancelled is never removed from the list
  (`impl/retry.py:435`; `CallbackTakesJobAway`, `RetryExecutorLeak.cfg`). No other job is.
- When the future that `fn` returned fails, `error_fn` is called a second time, and
  if it returns a future then, that future is the result: a nested one
  (`impl/flat_map.py:14`; `NeverNested`, `FutureChainNested.cfg`).
- An input given twice to `f_or` or `f_and` has one entry in `self.fs` and two
  callbacks; the second raises `KeyError`, through to the caller if the input is
  a done future of this library (`impl/futures/bool.py:42`; `HandleDoneRaises`).

## 7. Not modelled, and why

- `SyncExecutor` as a delegate: the callable then runs inside `submit()` with the
  executor's locks held. The models assume a delegate whose `submit()` returns
  before the callable does. `DelegateFinish` may still come before
  `add_done_callback`.
- Metrics, logging and names: written, never read.
- Garbage collection of an executor (`weakref` callbacks that set the event) and
  interpreter exit: both end the loops the way the shutdown flag does.
- Client callbacks on the futures: they run after the lock is released and see
  a settled future; what they call is a client's call like any other.
- `SyncExecutor` itself keeps nothing between calls. `AsyncioExecutor` hands each
  future to an event loop that is not in the repository.
- `Executors`, `bind`, `wrap`, `wrapped`: factories and argument passing, which keep
  no state of their own. `f_apply`, `f_sequence` and `f_traverse` are expressions
  over `f_zip`, `f_map` and `f_flat_map`.
- `f_proxy`: its operations wait for a future's result and hand on the call.
- `shutdown(wait=False)` of `TimeoutExecutor` and `PollExecutor`: it returns
  earlier and changes nothing else. `running()` of any future only reads.
- The numbers: a retry policy's arithmetic, the poll interval, the clock.
- A `cancel()` that raises out of a delegate: it would end the job thread of a
  `TimeoutExecutor`; delegates of the models answer yes or no.
- Packaging, type stubs and tests.
