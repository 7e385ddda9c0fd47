------------------------ MODULE CancelOnShutdownProofs ------------------------
(***************************************************************************)
(* Proofs about CancelOnShutdown, for any clients and futures.             *)
(***************************************************************************)
EXTENDS CancelOnShutdown, TLAPS

\* A submit() holds the lock of the ShutdownHelper, alone, and the executor's
\* lock, which shutdown() does not hold then.  Once the flag is set no
\* submit() is in progress.
LocksInv ==
  /\ \A c, d \in Clients : client[c] # "idle" /\ client[d] # "idle" => c = d
  /\ \A c \in Clients :
       client[c] \notin {"idle", "alive", "unlocked"} => shut = "open"
  /\ IsShutdown => HelperFree

\* What the callback on a future says of the future.
CallbackInv ==
  \A f \in Futures :
    /\ dstate[f] = "none" => callback[f] = "none" /\ f \notin tracked
    /\ callback[f] = "none" /\ dstate[f] # "none" => InSubmit(f)
    /\ callback[f] = "armed" => f \in Live
    /\ callback[f] \in {"due", "done"} => f \notin Live

\* What a client in submit() knows of its future.
MakingInv ==
  \A c \in Clients :
    /\ client[c] \in {"made", "added"} =>
         \E f \in Futures : making[c] = {f} /\ dstate[f] # "none" /\ callback[f] = "none"
    /\ client[c] = "added" => making[c] \subseteq tracked

\* shutdown() has cancelled, or has yet to cancel, whatever is live.
ShutdownInv ==
  /\ shut \in {"open", "locked", "flagged"} => asked = {} /\ left = {}
  /\ shut = "cancelling" => Live \subseteq asked \cup left
  /\ shut \in {"closing", "returned"} => Live \subseteq asked

IInv ==
  TypeOK /\ LocksInv /\ CallbackInv /\ MakingInv /\ TrackedIsExact /\ ShutdownInv

-----------------------------------------------------------------------------

\* The invariant holds at the start.
LEMMA InitIInv == Init => IInv
<1> SUFFICES ASSUME Init PROVE IInv
  OBVIOUS
<1>1. TypeOK
  BY DEF Init, TypeOK
<1>2. LocksInv /\ MakingInv /\ ShutdownInv
  BY DEF Init, LocksInv, MakingInv, ShutdownInv, IsShutdown, HelperFree
<1>3. CallbackInv /\ TrackedIsExact
  BY DEF Init, CallbackInv, TrackedIsExact, InSubmit, Live
<1> QED
  BY <1>1, <1>2, <1>3 DEF IInv

\* Every step of the executor keeps it.
LEMMA NextIInv == IInv /\ [Next]_vars => IInv'
<1> USE DEF IInv
<1> SUFFICES ASSUME IInv, [Next]_vars PROVE IInv'
  OBVIOUS
<1>1. ASSUME NEW c \in Clients, EnsureAlive(c) PROVE IInv'
  BY <1>1 DEF EnsureAlive, shutting, TypeOK, LocksInv, CallbackInv, MakingInv,
    TrackedIsExact, ShutdownInv, InSubmit, Live, HelperFree, LockFree, IsShutdown
<1>2. ASSUME NEW c \in Clients, TakeLock(c) PROVE IInv'
  BY <1>2 DEF TakeLock, shutting, TypeOK, LocksInv, CallbackInv, MakingInv,
    TrackedIsExact, ShutdownInv, InSubmit, Live, HelperFree, LockFree, IsShutdown
<1>3. ASSUME NEW c \in Clients, Track(c) PROVE IInv'
  BY <1>3 DEF Track, shutting, TypeOK, LocksInv, CallbackInv, MakingInv,
    TrackedIsExact, ShutdownInv, InSubmit, Live, HelperFree, LockFree, IsShutdown
<1>4. ASSUME NEW c \in Clients, DropLock(c) PROVE IInv'
  BY <1>4 DEF DropLock, shutting, TypeOK, LocksInv, CallbackInv, MakingInv,
    TrackedIsExact, ShutdownInv, InSubmit, Live, HelperFree, LockFree, IsShutdown
<1>5. ASSUME NEW c \in Clients, SubmitReturns(c) PROVE IInv'
  BY <1>5 DEF SubmitReturns, shutting, TypeOK, LocksInv, CallbackInv, MakingInv,
    TrackedIsExact, ShutdownInv, InSubmit, Live, HelperFree, LockFree, IsShutdown
<1>6. ASSUME NEW c \in Clients, NEW f \in Futures, DelegateSubmit(c, f) PROVE IInv'
  BY <1>6 DEF DelegateSubmit, shutting, TypeOK, LocksInv, CallbackInv, MakingInv,
    TrackedIsExact, ShutdownInv, InSubmit, Live, HelperFree, LockFree, IsShutdown
<1>7. ASSUME NEW c \in Clients, NEW f \in Futures, Attach(c, f) PROVE IInv'
  BY <1>7 DEF Attach, shutting, TypeOK, LocksInv, CallbackInv, MakingInv,
    TrackedIsExact, ShutdownInv, InSubmit, Live, HelperFree, LockFree, IsShutdown
<1>8. ASSUME NEW c \in Clients, NEW f \in Futures, CallbackReturns(c, f) PROVE IInv'
  BY <1>8 DEF CallbackReturns, shutting, TypeOK, LocksInv, CallbackInv, MakingInv,
    TrackedIsExact, ShutdownInv, InSubmit, Live, HelperFree, LockFree, IsShutdown
<1>9. ASSUME NEW f \in Futures, WorkerStarts(f) PROVE IInv'
  BY <1>9 DEF WorkerStarts, submitting, shutting, TypeOK, LocksInv, CallbackInv,
    MakingInv, TrackedIsExact, ShutdownInv, InSubmit, Live, HelperFree, IsShutdown
<1>10. ASSUME NEW f \in Futures, DelegateEnds(f) PROVE IInv'
  BY <1>10 DEF DelegateEnds, submitting, shutting, TypeOK, LocksInv, CallbackInv,
    MakingInv, TrackedIsExact, ShutdownInv, InSubmit, Live, HelperFree, IsShutdown
<1>11. ASSUME NEW f \in Futures, Discard(f) PROVE IInv'
  BY <1>11 DEF Discard, submitting, shutting, TypeOK, LocksInv, CallbackInv,
    MakingInv, TrackedIsExact, ShutdownInv, InSubmit, Live, HelperFree, IsShutdown
<1>12. ASSUME ShutdownTakesLock \/ SetShutdown \/ CopyFutures
                \/ ShutdownDelegate \/ ShutdownReturns
       PROVE  IInv'
  BY <1>12 DEF ShutdownTakesLock, SetShutdown, CopyFutures, ShutdownDelegate,
    ShutdownReturns, submitting, TypeOK, LocksInv, CallbackInv, MakingInv,
    TrackedIsExact, ShutdownInv, InSubmit, Live, HelperFree, LockFree, IsShutdown
<1>13. ASSUME NEW f \in Futures, CancelNext(f) PROVE IInv'
  BY <1>13 DEF CancelNext, submitting, TypeOK, LocksInv, CallbackInv, MakingInv,
    TrackedIsExact, ShutdownInv, InSubmit, Live, HelperFree, IsShutdown
<1>14. CASE UNCHANGED vars
  BY <1>14 DEF vars, submitting, shutting, TypeOK, LocksInv, CallbackInv, MakingInv,
    TrackedIsExact, ShutdownInv, InSubmit, Live, HelperFree, IsShutdown
<1> QED
  BY <1>1, <1>2, <1>3, <1>4, <1>5, <1>6, <1>7, <1>8, <1>9, <1>10, <1>11, <1>12,
    <1>13, <1>14 DEF Next, Submit, Delegate, Shutdown

-----------------------------------------------------------------------------

\* The invariant holds in every state the executor reaches.
THEOREM Invariant == Spec => []IInv
  BY InitIInv, NextIInv, PTL DEF Spec

\* Variables keep their types, and no future is asked twice.
THEOREM TypeCorrect == Spec => []TypeOK
<1>1. IInv => TypeOK
  BY DEF IInv
<1> QED
  BY <1>1, Invariant, PTL

\* The set of futures holds what is live and lets go of what is done, however
\* submit(), the callbacks and the workers interleave.
THEOREM TrackingIsExact == Spec => []TrackedIsExact
<1>1. IInv => TrackedIsExact
  BY DEF IInv
<1> QED
  BY <1>1, Invariant, PTL

\* A shutdown() that goes through has asked every live future to cancel,
\* whatever submit() it raced with.
THEOREM ShutdownAsksAll == Spec => []AllAreAskedToCancel
<1>1. IInv => AllAreAskedToCancel
  BY DEF IInv, ShutdownInv, AllAreAskedToCancel
<1> QED
  BY <1>1, Invariant, PTL

\* After the flag is set no submit() gets as far as the delegate.
THEOREM ShutdownIsFinal == Spec => NoneAfterShutdown
<1>1. ASSUME IInv, [Next]_vars, IsShutdown, NEW f \in Futures, dstate[f] = "none"
      PROVE  dstate'[f] = "none"
  <2>1. \A c \in Clients : client[c] = "idle"
    BY <1>1 DEF IInv, LocksInv, HelperFree
  <2>2. f \notin tracked /\ f \notin Live /\ callback[f] = "none"
    BY <1>1 DEF IInv, CallbackInv, Live
  <2> QED
    BY <1>1, <2>1, <2>2 DEF Next, Submit, Delegate, Shutdown, EnsureAlive, TakeLock,
      DelegateSubmit, Track, Attach, CallbackReturns, DropLock, SubmitReturns,
      WorkerStarts, DelegateEnds, Discard, ShutdownTakesLock, SetShutdown,
      CopyFutures, CancelNext, ShutdownDelegate, ShutdownReturns, IInv, TypeOK,
      Live, vars
<1>2. IInv /\ [Next]_vars =>
        [IsShutdown => \A f \in Futures : dstate[f] = "none" => dstate'[f] = "none"]_vars
  BY <1>1
<1> QED
  BY <1>2, Invariant, PTL DEF Spec, NoneAfterShutdown
-----------------------------------------------------------------------------
(* The crossing of the two locks is the one way to block, and it is for ever *)

\* Nothing gets a client in submit() and the one in shutdown() past each other.
THEOREM CrossingIsForever == Spec => [][~NoDeadlock => ~NoDeadlock']_vars
<1>1. ASSUME IInv, [Next]_vars, NEW c \in Clients, client[c] = "alive", shut = "locked"
      PROVE  client'[c] = "alive" /\ shut' = "locked"
  <2>1. ~LockFree /\ ~HelperFree /\ \A d \in Clients : client[d] # "idle" => d = c
    BY <1>1 DEF LockFree, HelperFree, IInv, LocksInv
  <2>2. ASSUME NEW d \in Clients, Submit(d) PROVE client'[c] = "alive" /\ shut' = "locked"
    <3>1. d # c /\ client[d] = "idle"
      BY <1>1, <2>1, <2>2 DEF Submit, EnsureAlive, TakeLock, DelegateSubmit, Track, Attach,
        CallbackReturns, DropLock, SubmitReturns
    <3> QED
      BY <1>1, <2>1, <2>2, <3>1 DEF Submit, EnsureAlive, TakeLock, DelegateSubmit, Track,
        Attach, CallbackReturns, DropLock, SubmitReturns
  <2>3. CASE (\E f \in Futures : Delegate(f)) \/ Shutdown \/ UNCHANGED vars
    BY <1>1, <2>1, <2>3 DEF Delegate, WorkerStarts, DelegateEnds, Discard, Shutdown,
      ShutdownTakesLock, SetShutdown, CopyFutures, CancelNext, ShutdownDelegate,
      ShutdownReturns, submitting, shutting, vars
  <2> QED
    BY <1>1, <2>2, <2>3 DEF Next
<1>2. IInv /\ [Next]_vars => [~NoDeadlock => ~NoDeadlock']_vars
  BY <1>1 DEF NoDeadlock
<1> QED
  BY <1>2, Invariant, PTL DEF Spec

\* Each thread has ended or waits: for a lock or for a callback.
ClientRests(c) ==
  \/ client[c] = "idle"
  \/ client[c] = "alive" /\ ~LockFree
  \/ client[c] = "locked" /\ \A f \in Futures : dstate[f] # "none"
  \/ client[c] = "discard" /\ \A f \in making[c] : callback[f] # "done"

ShutdownRests == shut \in {"open", "returned"} \/ (shut = "locked" /\ ~HelperFree)

AtRest ==
  /\ \A c \in Clients : ClientRests(c)
  /\ \A f \in Futures : f \notin Live /\ callback[f] # "due"
  /\ ShutdownRests

\* What is true then: every call has returned, and the executor keeps no future.  But
\* for the crossing, and a delegate with no future left to return, which is a bound of
\* the model.
OnlyCrossingBlocks ==
  AtRest =>
    \/ ~NoDeadlock
    \/ \A f \in Futures : dstate[f] # "none"
    \/ /\ \A c \in Clients : client[c] = "idle"
       /\ shut \in {"open", "returned"}
       /\ tracked = {}

\* A client that runs the callback itself has a callback to wait for.
DiscardInv ==
  \A c \in Clients :
    client[c] = "discard" =>
      \E f \in Futures : f \in making[c] /\ callback[f] \in {"due", "done"}

\* Every step keeps that.
LEMMA NextDiscards == IInv /\ DiscardInv /\ [Next]_vars => DiscardInv'
<1> SUFFICES ASSUME IInv, DiscardInv, [Next]_vars PROVE DiscardInv'
  OBVIOUS
<1> USE DEF IInv, DiscardInv, submitting, shutting
<1>1. ASSUME NEW c \in Clients, NEW f \in Futures, Attach(c, f) PROVE DiscardInv'
  BY <1>1 DEF Attach, TypeOK, LocksInv
<1>2. ASSUME NEW c \in Clients, NEW f \in Futures, DelegateSubmit(c, f) \/ CallbackReturns(c, f)
      PROVE  DiscardInv'
  BY <1>2 DEF DelegateSubmit, CallbackReturns, TypeOK, LocksInv
<1>3. ASSUME NEW c \in Clients,
             \/ EnsureAlive(c) \/ TakeLock(c) \/ Track(c) \/ DropLock(c)
             \/ SubmitReturns(c)
      PROVE  DiscardInv'
  BY <1>3 DEF EnsureAlive, TakeLock, Track, DropLock, SubmitReturns, TypeOK
<1>4. ASSUME NEW f \in Futures, Delegate(f) PROVE DiscardInv'
  BY <1>4 DEF Delegate, WorkerStarts, DelegateEnds, Discard, TypeOK
<1>5. ASSUME NEW f \in Futures, CancelNext(f) PROVE DiscardInv'
  BY <1>5 DEF CancelNext, TypeOK
<1>6. CASE \/ ShutdownTakesLock \/ SetShutdown \/ CopyFutures \/ ShutdownDelegate
           \/ ShutdownReturns \/ UNCHANGED vars
  BY <1>6 DEF ShutdownTakesLock, SetShutdown, CopyFutures, ShutdownDelegate,
    ShutdownReturns, vars
<1> QED
  BY <1>1, <1>2, <1>3, <1>4, <1>5, <1>6 DEF Next, Submit, Shutdown

\* Without the crossing submit() and shutdown() always return.
THEOREM CrossingIsTheOnlyBlock == Spec => []OnlyCrossingBlocks
<1>1. Init => DiscardInv
  BY DEF Init, DiscardInv
<1>2. ASSUME IInv, DiscardInv, AtRest, NoDeadlock, NEW g \in Futures, dstate[g] = "none"
      PROVE  /\ \A c \in Clients : client[c] = "idle"
             /\ shut \in {"open", "returned"}
             /\ tracked = {}
  <2>1. ASSUME NEW c \in Clients PROVE client[c] \in {"idle", "alive"}
    <3>1. client[c] # "locked" /\ ClientRests(c)
      BY <1>2 DEF AtRest, ClientRests
    <3>2. client[c] # "discard"
      BY <1>2, <3>1 DEF AtRest, ClientRests, DiscardInv
    <3> QED
      BY <3>1, <3>2 DEF ClientRests
  <2>2. shut \in {"open", "returned"}
    BY <1>2, <2>1 DEF AtRest, ShutdownRests, HelperFree, NoDeadlock
  <2>3. LockFree
    BY <2>1, <2>2 DEF LockFree
  <2>4. \A c \in Clients : client[c] = "idle"
    BY <1>2, <2>1, <2>3 DEF AtRest, ClientRests
  <2>5. tracked = {}
    BY <1>2, <2>4 DEF AtRest, IInv, TypeOK, TrackedIsExact, InSubmit
  <2> QED
    BY <2>2, <2>4, <2>5
<1>3. IInv /\ DiscardInv => OnlyCrossingBlocks
  BY <1>2 DEF OnlyCrossingBlocks
<1> QED
  BY <1>1, <1>3, NextDiscards, Invariant, PTL DEF Spec
==============================================================================
