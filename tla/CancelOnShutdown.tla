--------------------------- MODULE CancelOnShutdown ---------------------------
(***************************************************************************)
(* CancelOnShutdownExecutor (more_executors/_impl/cancel_on_shutdown.py)   *)
(* above a pool of workers.                                                *)
(*                                                                         *)
(* Two locks: that of the ShutdownHelper, held by a submit() from its      *)
(* check to its return, and the executor's own, which guards _futures.     *)
(* submit() takes them in this order and shutdown() in the other.  Who     *)
(* holds which follows from the program counters.                          *)
(***************************************************************************)
EXTENDS FiniteSets

CONSTANTS
  Clients,  \* threads that call submit()
  Futures   \* the futures the delegate may return

VARIABLES
  client,    \* program counter of each client in submit()
  making,    \* the future each client got last
  dstate,    \* state of each future, as the delegate runs it
  callback,  \* progress of the callback _futures.discard on each
  tracked,   \* executor._futures
  shut,      \* program counter of the client in shutdown()
  left,      \* the futures that shutdown() has yet to cancel
  asked      \* those it has called cancel() on

submitting == <<client, making>>
shutting == <<shut, left, asked>>
vars == <<submitting, dstate, callback, tracked, shutting>>

Live == {f \in Futures : dstate[f] \in {"queued", "running"}}

\* Among the types: "only a single attempt is made to cancel any future"
\* (cancel_on_shutdown.py:74-75).
TypeOK ==
  /\ client \in [Clients -> {"idle", "alive", "locked", "made", "added",
                             "discard", "attached", "unlocked"}]
  /\ making \in [Clients -> SUBSET Futures]
  /\ dstate \in [Futures -> {"none", "queued", "running", "done", "cancelled"}]
  /\ callback \in [Futures -> {"none", "armed", "due", "done"}]
  /\ tracked \subseteq Futures /\ left \subseteq Futures /\ asked \subseteq Futures
  /\ left \cap asked = {}
  /\ shut \in {"open", "locked", "flagged", "cancelling", "closing", "returned"}

Init ==
  /\ client = [c \in Clients |-> "idle"]
  /\ making = [c \in Clients |-> {}]
  /\ dstate = [f \in Futures |-> "none"]
  /\ callback = [f \in Futures |-> "none"]
  /\ tracked = {} /\ left = {} /\ asked = {}
  /\ shut = "open"

-----------------------------------------------------------------------------
(* The locks, and the flag of the ShutdownHelper *)

HelperFree == \A c \in Clients : client[c] = "idle"

LockFree ==
  /\ \A c \in Clients : client[c] \in {"idle", "alive", "unlocked"}
  /\ shut \notin {"locked", "flagged"}

IsShutdown == shut \notin {"open", "locked"}

-----------------------------------------------------------------------------
(* submit().  Once the executor is shut down ensure_alive raises, and        *)
(* nothing changes.                                                          *)

EnsureAlive(c) ==
  /\ client[c] = "idle"
  /\ HelperFree
  /\ ~IsShutdown
  /\ client' = [client EXCEPT ![c] = "alive"]
  /\ UNCHANGED <<making, dstate, callback, tracked, shutting>>

TakeLock(c) ==
  /\ client[c] = "alive"
  /\ LockFree
  /\ client' = [client EXCEPT ![c] = "locked"]
  /\ UNCHANGED <<making, dstate, callback, tracked, shutting>>

DelegateSubmit(c, f) ==
  /\ client[c] = "locked"
  /\ dstate[f] = "none"
  /\ dstate' = [dstate EXCEPT ![f] = "queued"]
  /\ making' = [making EXCEPT ![c] = {f}]
  /\ client' = [client EXCEPT ![c] = "made"]
  /\ UNCHANGED <<callback, tracked, shutting>>

Track(c) ==
  /\ client[c] = "made"
  /\ tracked' = tracked \cup making[c]
  /\ client' = [client EXCEPT ![c] = "added"]
  /\ UNCHANGED <<making, dstate, callback, shutting>>

\* add_done_callback runs the callback if the future is done already.
AttachIfLive(c, f) ==
  /\ client[c] = "added"
  /\ f \in making[c]
  /\ callback' = [callback EXCEPT ![f] = IF f \in Live THEN "armed" ELSE "done"]
  /\ client' = [client EXCEPT ![c] = "attached"]
  /\ UNCHANGED <<making, dstate, tracked, shutting>>
Attach(c, f) ==
  /\ client[c] = "added"
  /\ f \in making[c]
  /\ callback' = [callback EXCEPT ![f] = IF f \in Live THEN "armed" ELSE "due"]
  /\ client' = [client EXCEPT ![c] = IF f \in Live THEN "attached" ELSE "discard"]
  /\ UNCHANGED <<making, dstate, tracked, shutting>>

CallbackReturns(c, f) ==
  /\ client[c] = "discard"
  /\ f \in making[c] /\ callback[f] = "done"
  /\ client' = [client EXCEPT ![c] = "attached"]
  /\ UNCHANGED <<making, dstate, callback, tracked, shutting>>

DropLock(c) ==
  /\ client[c] = "attached"
  /\ client' = [client EXCEPT ![c] = "unlocked"]
  /\ UNCHANGED <<making, dstate, callback, tracked, shutting>>

SubmitReturns(c) ==
  /\ client[c] = "unlocked"
  /\ client' = [client EXCEPT ![c] = "idle"]
  /\ UNCHANGED <<making, dstate, callback, tracked, shutting>>

-----------------------------------------------------------------------------
(* The delegate and its futures *)

WorkerStarts(f) ==
  /\ dstate[f] = "queued"
  /\ dstate' = [dstate EXCEPT ![f] = "running"]
  /\ UNCHANGED <<submitting, callback, tracked, shutting>>

\* A callable returns, or a client cancels its future before it runs.
DelegateEnds(f) ==
  /\ f \in Live
  /\ dstate' = [dstate EXCEPT ![f] = IF @ = "queued" THEN "cancelled" ELSE "done"]
  /\ callback' = [callback EXCEPT ![f] = IF @ = "armed" THEN "due" ELSE @]
  /\ UNCHANGED <<submitting, tracked, shutting>>

\* _futures.discard, on the thread that ended the future or attached the
\* callback, without the executor's lock.
Discard(f) ==
  /\ callback[f] = "due"
  /\ callback' = [callback EXCEPT ![f] = "done"]
  /\ tracked' = tracked \ {f}
  /\ UNCHANGED <<submitting, dstate, shutting>>

-----------------------------------------------------------------------------
(* shutdown(); a second call returns at once, and changes nothing *)

ShutdownTakesLock ==
  /\ shut = "open"
  /\ LockFree
  /\ shut' = "locked"
  /\ UNCHANGED <<submitting, dstate, callback, tracked, left, asked>>

\* ShutdownHelper.__call__ takes the helper's lock, and gives it back.
SetShutdownAtOnce ==
  /\ shut = "locked"
  /\ shut' = "flagged"
  /\ UNCHANGED <<submitting, dstate, callback, tracked, left, asked>>
SetShutdown ==
  /\ shut = "locked"
  /\ HelperFree
  /\ shut' = "flagged"
  /\ UNCHANGED <<submitting, dstate, callback, tracked, left, asked>>

CopyQueued ==
  /\ shut = "flagged"
  /\ left' = {f \in tracked : dstate[f] = "queued"}
  /\ shut' = "cancelling"
  /\ UNCHANGED <<submitting, dstate, callback, tracked, asked>>
CopyFutures ==
  /\ shut = "flagged"
  /\ left' = tracked
  /\ shut' = "cancelling"
  /\ UNCHANGED <<submitting, dstate, callback, tracked, asked>>

\* cancel() succeeds for a callable that does not run yet, and the callbacks
\* run inside the call.
CancelNextUntilDone(f) ==
  /\ shut = "cancelling"
  /\ f \in left
  /\ asked' = asked \cup {f}
  /\ IF dstate[f] = "queued"
       THEN /\ dstate' = [dstate EXCEPT ![f] = "cancelled"]
            /\ callback' = [callback EXCEPT ![f] = "done"]
            /\ tracked' = tracked \ {f} /\ left' = left \ {f}
       ELSE UNCHANGED <<dstate, callback, tracked, left>>
  /\ UNCHANGED <<submitting, shut>>
CancelNext(f) ==
  /\ shut = "cancelling"
  /\ f \in left
  /\ left' = left \ {f} /\ asked' = asked \cup {f}
  /\ IF dstate[f] = "queued"
       THEN /\ dstate' = [dstate EXCEPT ![f] = "cancelled"]
            /\ callback' = [callback EXCEPT ![f] = "done"]
            /\ tracked' = tracked \ {f}
       ELSE UNCHANGED <<dstate, callback, tracked>>
  /\ UNCHANGED <<submitting, shut>>

ShutdownDelegate ==
  /\ shut = "cancelling"
  /\ left = {}
  /\ shut' = "closing"
  /\ UNCHANGED <<submitting, dstate, callback, tracked, left, asked>>

\* The delegate's shutdown() waits for its workers or, with wait=False,
\* returns at once.
ShutdownReturns ==
  /\ shut = "closing"
  /\ shut' = "returned"
  /\ UNCHANGED <<submitting, dstate, callback, tracked, left, asked>>

-----------------------------------------------------------------------------

Submit(c) ==
  \/ EnsureAlive(c) \/ TakeLock(c) \/ Track(c) \/ DropLock(c) \/ SubmitReturns(c)
  \/ \E f \in Futures :
       DelegateSubmit(c, f) \/ Attach(c, f) \/ CallbackReturns(c, f)

Delegate(f) == WorkerStarts(f) \/ DelegateEnds(f) \/ Discard(f)

Shutdown ==
  \/ ShutdownTakesLock \/ SetShutdown \/ CopyFutures
  \/ ShutdownDelegate \/ ShutdownReturns
  \/ \E f \in Futures : CancelNext(f)

Next ==
  \/ \E c \in Clients : Submit(c)
  \/ \E f \in Futures : Delegate(f)
  \/ Shutdown

Spec == Init /\ [][Next]_vars

-----------------------------------------------------------------------------
(* Safety *)

\* A submit() in progress has still to hand this future over.
InSubmit(f) == \E c \in Clients : client[c] \in {"made", "added"} /\ f \in making[c]

\* The set holds every live future, and no other for long: a future that
\* is done leaves it, also when it was done before the callback was attached
\* (cancel_on_shutdown.py:95-98).
TrackedIsExact ==
  \A f \in Futures :
    /\ f \in Live => f \in tracked \/ InSubmit(f)
    /\ f \in tracked => f \in Live \/ callback[f] = "due" \/ InSubmit(f)

\* "All futures created by this executor which have not yet been completed
\* will have cancel() invoked" (cancel_on_shutdown.py:71-72), those of a
\* submit() that races with the shutdown() too.
AllAreAskedToCancel ==
  shut \in {"closing", "returned"} => Live \subseteq asked

\* No future is created once the executor is shut down (helpers.py:30-35).
NoneAfterShutdown ==
  [][IsShutdown => \A f \in Futures : dstate[f] = "none" => dstate'[f] = "none"]_vars

-----------------------------------------------------------------------------
(* What the documentation claims and the code does not do *)

\* "All provided executors are thread-safe" (docs/user-guide.rst:183): no
\* submit() holds the helper's lock and waits for the executor's while
\* shutdown() holds the executor's and waits for the helper's.
NoDeadlock == ~\E c \in Clients : client[c] = "alive" /\ shut = "locked"
==============================================================================
