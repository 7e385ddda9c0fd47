----------------------------- MODULE FutureChain -----------------------------
(***************************************************************************)
(* MapFuture (more_executors/_impl/map.py), its subclasses FlatMapFuture   *)
(* and the futures of a TimeoutExecutor: each follows a delegate future,   *)
(* maps its outcome and settles with it.  A FlatMapFuture then follows the *)
(* future its function returned.                                           *)
(*                                                                         *)
(* Threads: whoever finishes a delegate runs _delegate_resolved of the     *)
(* future (step[f]); one client at a time is in its cancel(), which keeps  *)
(* its _me_lock throughout (holding[f]).                                   *)
(***************************************************************************)
CONSTANTS
  Futures,
  Flat,     \* those that are FlatMapFutures
  Rescue    \* those with an error_fn

ASSUME KindAssumption == Flat \subseteq Futures /\ Rescue \subseteq Futures

VARIABLES
  state,    \* of each future
  turn,     \* the delegate it is about: that it was made with, or what fn returned
  dstate,   \* of that delegate
  link,     \* future._delegate
  step,     \* progress of _delegate_resolved
  holding,  \* has a cancel() cancelled the delegate, and not yet the future?
  hook      \* progress of the callback its maker adds

chain == <<state, turn, dstate, link, step, holding, hook>>

Delegates == {"first", "second"}
Outcomes == {"result", "error"}
\* "nested" is a result that is itself a future.
Settled == Outcomes \cup {"nested", "cancelled"}

ChainTypeOK ==
  /\ state \in [Futures -> {"unborn", "pending"} \cup Settled]
  /\ dstate \in [Futures -> {"none", "live", "cancelled"} \cup Outcomes]
  /\ link \in [Futures -> Delegates \cup {"none"}]
  /\ turn \in [Futures -> Delegates]
  /\ step \in [Futures -> {"attach", "armed", "unlink", "map", "done"}]
  /\ holding \in [Futures -> BOOLEAN]
  /\ hook \in [Futures -> {"none", "armed", "due", "done"}]

ChainInit ==
  /\ state = [f \in Futures |-> "unborn"]
  /\ dstate = [f \in Futures |-> "none"]
  /\ link = [f \in Futures |-> "none"]
  /\ turn = [f \in Futures |-> "first"]
  /\ step = [f \in Futures |-> "attach"]
  /\ holding = [f \in Futures |-> FALSE]
  /\ hook = [f \in Futures |-> "none"]

Pending(f) == state[f] = "pending"
SetDelegateOnce(f, d) == link' = IF d = "second" THEN link ELSE [link EXCEPT ![f] = d]
SetDelegate(f, d) == link' = [link EXCEPT ![f] = d]
\* f becomes s, if it is still pending; its callbacks are due.
Becomes(f, s) ==
  /\ state' = [state EXCEPT ![f] = IF @ = "pending" THEN s ELSE @]
  /\ hook' = [hook EXCEPT ![f] = IF @ = "armed" THEN "due" ELSE @]

-----------------------------------------------------------------------------
(* The delegates *)

\* MapFuture(delegate): the delegate may end before the callback is attached.
Create(f) ==
  /\ state[f] = "unborn"
  /\ state' = [state EXCEPT ![f] = "pending"]
  /\ dstate' = [dstate EXCEPT ![f] = "live"]
  /\ SetDelegate(f, "first")
  /\ UNCHANGED <<turn, step, holding, hook>>

\* The callback runs at once when the delegate is done already.
Attach(f) ==
  /\ Pending(f) \/ state[f] = "cancelled"
  /\ step[f] = "attach"
  /\ step' = [step EXCEPT ![f] = IF dstate[f] = "live" THEN "armed" ELSE "unlink"]
  /\ UNCHANGED <<state, dstate, link, turn, holding, hook>>

\* The delegate ends as s, and runs its callbacks.
End(f, s) ==
  /\ dstate[f] = "live"
  /\ dstate' = [dstate EXCEPT ![f] = s]
  /\ step' = [step EXCEPT ![f] = IF @ = "armed" THEN "unlink" ELSE @]
  /\ UNCHANGED <<state, turn, link, holding, hook>>

DelegateFinish(f) == \E s \in Outcomes : End(f, s)

\* Somebody else who holds the delegate cancels it.
DelegateCancelledElsewhere(f) == End(f, "cancelled")

-----------------------------------------------------------------------------
(* _delegate_resolved *)

NothingFollowsFailure(f) == dstate[f] # "result"
NothingFollows(f) == dstate[f] = "cancelled"

\* _set_delegate(None).  After a delegate that was cancelled nothing follows.
Unlink(f) ==
  /\ step[f] = "unlink"
  /\ ~holding[f]
  /\ SetDelegate(f, "none")
  /\ step' = [step EXCEPT ![f] = IF NothingFollows(f) THEN "done" ELSE "map"]
  /\ UNCHANGED <<state, dstate, turn, holding, hook>>

\* fn and error_fn may raise.  Without one, an exception is copied; a
\* FlatMapFuture that follows its second delegate copies a result, too, but
\* gives an exception to error_fn again.
Mapped(f) ==
  IF turn[f] = "second" /\ dstate[f] = "result" THEN {"result"}
  ELSE IF dstate[f] = "error" /\ f \notin Rescue THEN {"error"}
  ELSE IF f \notin Flat THEN Outcomes
  ELSE IF turn[f] = "first" THEN {"error"}
  ELSE Outcomes \cup {"nested"}

Settle(f) ==
  /\ step[f] = "map"
  /\ ~holding[f]
  /\ \E s \in Mapped(f) : Becomes(f, s)
  /\ step' = [step EXCEPT ![f] = "done"]
  /\ UNCHANGED <<dstate, link, turn, holding>>

\* The function of a FlatMapFuture has returned a future.
Flatten(f) ==
  /\ step[f] = "map"
  /\ ~holding[f]
  /\ f \in Flat /\ turn[f] = "first"
  /\ dstate[f] = "result" \/ f \in Rescue
  /\ dstate' = [dstate EXCEPT ![f] = "live"]
  /\ SetDelegate(f, "second")
  /\ turn' = [turn EXCEPT ![f] = "second"]
  /\ step' = [step EXCEPT ![f] = "attach"]
  /\ UNCHANGED <<state, holding, hook>>

-----------------------------------------------------------------------------
(* cancel() of a future that has been returned to somebody.  It fails, and   *)
(* changes nothing, when the future is done, when no delegate is linked, or  *)
(* when the delegate does not let itself be cancelled.                       *)

Returned(f) == state[f] # "unborn" /\ (turn[f] = "first" => step[f] # "attach")

CancelFails(f) ==
  /\ Returned(f) /\ ~holding[f]
  /\ ~(Pending(f) /\ link[f] # "none" /\ dstate[f] = "cancelled")

CancelIsIgnored(f) == dstate[f] # "none"
LetsCancel(f) == dstate[f] \in {"live", "cancelled"}

\* The delegate runs _delegate_resolved inside the call, if that is attached.
CancelDelegate(f) ==
  /\ Returned(f) /\ Pending(f) /\ ~holding[f]
  /\ link[f] # "none" /\ LetsCancel(f)
  /\ dstate' = [dstate EXCEPT ![f] = IF @ = "live" THEN "cancelled" ELSE @]
  /\ holding' = [holding EXCEPT ![f] = TRUE]
  /\ IF step[f] = "armed"
     THEN step' = [step EXCEPT ![f] = "done"] /\ SetDelegate(f, "none")
     ELSE UNCHANGED <<step, link>>
  /\ UNCHANGED <<state, turn, hook>>

CancelCommit(f) ==
  /\ holding[f]
  /\ Becomes(f, "cancelled")
  /\ holding' = [holding EXCEPT ![f] = FALSE]
  /\ UNCHANGED <<dstate, link, turn, step>>

-----------------------------------------------------------------------------
(* Callbacks of the future *)

\* add_done_callback: of a future that is done, it runs at once.
AddCallback(f) ==
  /\ hook[f] = "none" /\ step[f] # "attach"
  /\ ~holding[f]
  /\ hook' = [hook EXCEPT ![f] = IF Pending(f) THEN "armed" ELSE "due"]
  /\ UNCHANGED <<state, dstate, link, turn, step, holding>>

\* By the thread that has settled, cancelled or asked for f.
RunCallback(f) ==
  /\ hook[f] = "due"
  /\ hook' = [hook EXCEPT ![f] = "done"]
  /\ UNCHANGED <<state, dstate, link, turn, step, holding>>

-----------------------------------------------------------------------------

ChainStep(f) ==
  \/ Create(f) \/ Attach(f) \/ DelegateFinish(f) \/ DelegateCancelledElsewhere(f)
  \/ Unlink(f) \/ Settle(f) \/ Flatten(f)
  \/ CancelDelegate(f) \/ CancelCommit(f)
  \/ AddCallback(f) \/ RunCallback(f)

ChainNext == \E f \in Futures : ChainStep(f)

ChainSpec == ChainInit /\ [][ChainNext]_chain
-----------------------------------------------------------------------------
(* What the documentation says *)

\* f_flat_map: "A future which is: equivalent to that returned by fn if input
\* future succeeded" (futures/map.py:60-62): once the future that fn returned is
\* done and _delegate_resolved has run for it, so is the future above it.
FollowsReturnedFuture ==
  \A f \in Flat :
    turn[f] = "second" /\ step[f] = "done" /\ dstate[f] = "cancelled" /\ ~holding[f] =>
      state[f] = "cancelled"

\* "that future will be flattened into the output value (avoiding a nested
\* future)" (futures/map.py:43-44): no result of a FlatMapFuture is a future.
NeverNested == \A f \in Flat : state[f] # "nested"
==============================================================================
