-------------------------- MODULE PollExecutorProofs --------------------------
(***************************************************************************)
(* Proofs about PollExecutor, for any futures, with or without a cancel    *)
(* function.                                                               *)
(***************************************************************************)
EXTENDS PollExecutor, TLAPS

\* What the poll thread has at hand, it has from the latest copy of the list.
ThreadInv ==
  /\ thread # "failing" => failing = {}
  /\ thread \notin {"poll", "failing"} => yielding = {}

\* How far a future has come, and what its delegate is by then.
LifeInv ==
  \A f \in Futures :
    /\ state[f] = "unborn" <=> dstate[f] = "none"
    /\ state[f] = "unborn" => resolve[f] = "none" /\ ~linked[f] /\ canc[f] = "idle"
    /\ resolve[f] = "none" => clear[f] = "none"
    /\ clear[f] = "none" => canc[f] = "idle"
    /\ dstate[f] = "live" => resolve[f] \in {"none", "armed"}
    /\ resolve[f] = "armed" => dstate[f] = "live"
    /\ resolve[f] = "listed" => dstate[f] = "result"
    /\ state[f] # "unborn" /\ ~linked[f] => resolve[f] = "done" /\ dstate[f] = "result"
    /\ canc[f] # "idle" => ~linked[f] \/ dstate[f] = "cancelled"

\* A future with a result to poll for is pending until it is on the list, and its
\* callback has run only when it is not.
ListInv ==
  /\ \A f \in Futures :
       /\ dstate[f] = "live" => Pending(f)
       /\ dstate[f] = "result" /\ resolve[f] # "done" => Pending(f)
       /\ clear[f] = "armed" => Pending(f)
       /\ clear[f] \in {"due", "done"} => ~Pending(f)
       /\ resolve[f] = "listed" => f \in polled
       /\ Pending(f) /\ state[f] # "unborn" /\ ~linked[f] => f \in polled
  /\ \A f \in polled : resolve[f] \in {"listed", "done"} /\ dstate[f] = "result"
  /\ \A f \in polled : clear[f] # "done"
  /\ \A f \in batch : resolve[f] = "done" /\ dstate[f] = "result"

\* A wake up is not lost between the copy of the list and the sleep, nor a shutdown
\* between the check and the sleep.
WakeInv ==
  /\ thread \in {"poll", "failing", "waiting"} /\ ~event =>
       \A f \in polled : f \in batch \/ resolve[f] = "listed"
  /\ shut \in {"waiting", "returned"} => event \/ thread \in {"top", "exited"}

IInv == TypeOK /\ ThreadInv /\ LifeInv /\ ListInv /\ WakeInv

-----------------------------------------------------------------------------

\* The invariant holds at the start.
LEMMA InitIInv == Init => IInv
<1> SUFFICES ASSUME Init PROVE IInv
  OBVIOUS
<1>1. TypeOK
  <2>1. event \in BOOLEAN
    BY Zenon DEF Init
  <2> QED
    BY <2>1 DEF Init, TypeOK, Settled, Outcomes
<1>2. ThreadInv /\ LifeInv /\ ListInv /\ WakeInv
  BY DEF Init, ThreadInv, LifeInv, ListInv, WakeInv, Pending
<1> QED
  BY <1>1, <1>2 DEF IInv

\* No step leaves the types.
LEMMA NextTypeOK == TypeOK /\ ThreadInv /\ [Next]_vars => TypeOK' /\ ThreadInv'
<1> SUFFICES ASSUME TypeOK, ThreadInv, [Next]_vars PROVE TypeOK' /\ ThreadInv'
  OBVIOUS
<1> USE DEF TypeOK, ThreadInv, Settled, Outcomes, futures, poller
<1>1. ASSUME NEW f \in Futures, Submit(f) PROVE TypeOK' /\ ThreadInv'
  BY <1>1 DEF Submit
<1>2. ASSUME NEW f \in Futures, AttachResolve(f) PROVE TypeOK' /\ ThreadInv'
  BY <1>2 DEF AttachResolve
<1>3. ASSUME NEW f \in Futures, AttachClear(f) PROVE TypeOK' /\ ThreadInv'
  BY <1>3 DEF AttachClear
<1>4. ASSUME NEW f \in Futures, DelegateFinish(f) PROVE TypeOK' /\ ThreadInv'
  BY <1>4 DEF DelegateFinish, End, Outcomes
<1>5. ASSUME NEW f \in Futures, DelegateCancelledElsewhere(f) PROVE TypeOK' /\ ThreadInv'
  BY <1>5 DEF DelegateCancelledElsewhere, End
<1>6. ASSUME NEW f \in Futures, ResolveFailure(f) PROVE TypeOK' /\ ThreadInv'
  BY <1>6 DEF ResolveFailure, Becomes
<1>7. ASSUME NEW f \in Futures, Register(f) PROVE TypeOK' /\ ThreadInv'
  BY <1>7 DEF Register
<1>8. ASSUME NEW f \in Futures, ClearDelegate(f) PROVE TypeOK' /\ ThreadInv'
  BY <1>8 DEF ClearDelegate
<1>9. ASSUME NEW f \in Futures, Deregister(f) PROVE TypeOK' /\ ThreadInv'
  BY <1>9 DEF Deregister
<1>10. ASSUME NEW f \in Futures, CancelDelegate(f) PROVE TypeOK' /\ ThreadInv'
  BY <1>10 DEF CancelDelegate
<1>11. ASSUME NEW f \in Futures, CancelPolled(f) PROVE TypeOK' /\ ThreadInv'
  BY <1>11 DEF CancelPolled
<1>12. ASSUME NEW f \in Futures, CancelFnReturns(f) PROVE TypeOK' /\ ThreadInv'
  BY <1>12 DEF CancelFnReturns
<1>13. ASSUME NEW f \in Futures, CancelCommit(f) PROVE TypeOK' /\ ThreadInv'
  BY <1>13 DEF CancelCommit, Becomes
<1>14. ASSUME NEW f \in Futures, PollYields(f) PROVE TypeOK' /\ ThreadInv'
  BY <1>14 DEF PollYields
<1>15. ASSUME NEW f \in Futures, Settle(f) PROVE TypeOK' /\ ThreadInv'
  BY <1>15 DEF Settle, Becomes, Outcomes
<1>16. ASSUME NEW f \in Futures, FailDescriptor(f) PROVE TypeOK' /\ ThreadInv'
  BY <1>16 DEF FailDescriptor
<1>17. ASSUME CheckShutdown PROVE TypeOK' /\ ThreadInv'
  BY <1>17 DEF CheckShutdown
<1>18. ASSUME CopyDescriptors PROVE TypeOK' /\ ThreadInv'
  BY <1>18 DEF CopyDescriptors
<1>19. ASSUME PollRaises PROVE TypeOK' /\ ThreadInv'
  BY <1>19 DEF PollRaises
<1>20. ASSUME PollReturns PROVE TypeOK' /\ ThreadInv'
  BY <1>20 DEF PollReturns
<1>21. ASSUME WaitReturns PROVE TypeOK' /\ ThreadInv'
  BY <1>21 DEF WaitReturns
<1>22. ASSUME ClearEvent PROVE TypeOK' /\ ThreadInv'
  BY <1>22 DEF ClearEvent
<1>23. ASSUME Notify PROVE TypeOK' /\ ThreadInv'
  BY <1>23 DEF Notify
<1>24. ASSUME Shutdown PROVE TypeOK' /\ ThreadInv'
  BY <1>24 DEF Shutdown
<1>25. ASSUME ShutdownWake PROVE TypeOK' /\ ThreadInv'
  BY <1>25 DEF ShutdownWake
<1>26. ASSUME ShutdownReturns PROVE TypeOK' /\ ThreadInv'
  BY <1>26 DEF ShutdownReturns
<1>27. ASSUME UNCHANGED vars PROVE TypeOK' /\ ThreadInv'
  BY <1>27 DEF vars
<1> QED
  BY <1>1, <1>2, <1>3, <1>4, <1>5, <1>6, <1>7, <1>8, <1>9, <1>10, <1>11, <1>12, <1>13,
     <1>14, <1>15, <1>16, <1>17, <1>18, <1>19, <1>20, <1>21, <1>22, <1>23, <1>24,
     <1>25, <1>26, <1>27
     DEF Next, PollThread, UnderWay, FromOutside

\* Every future goes its way in order.
LEMMA NextLifeInv == TypeOK /\ LifeInv /\ [Next]_vars => LifeInv'
<1> SUFFICES ASSUME TypeOK, LifeInv, [Next]_vars PROVE LifeInv'
  OBVIOUS
<1> USE DEF TypeOK, LifeInv, futures, poller, Pending, Returned, Unlocked
<1>1. ASSUME NEW f \in Futures, Submit(f) PROVE LifeInv'
  BY <1>1 DEF Submit
<1>2. ASSUME NEW f \in Futures, AttachResolve(f) PROVE LifeInv'
  BY <1>2 DEF AttachResolve
<1>3. ASSUME NEW f \in Futures, AttachClear(f) PROVE LifeInv'
  BY <1>3 DEF AttachClear
<1>4. ASSUME NEW f \in Futures, DelegateFinish(f) PROVE LifeInv'
  BY <1>4 DEF DelegateFinish, End, Outcomes
<1>5. ASSUME NEW f \in Futures, DelegateCancelledElsewhere(f) PROVE LifeInv'
  BY <1>5 DEF DelegateCancelledElsewhere, End
<1>6. ASSUME NEW f \in Futures, ResolveFailure(f) PROVE LifeInv'
  BY <1>6 DEF ResolveFailure, Becomes
<1>7. ASSUME NEW f \in Futures, Register(f) PROVE LifeInv'
  BY <1>7 DEF Register
<1>8. ASSUME NEW f \in Futures, ClearDelegate(f) PROVE LifeInv'
  BY <1>8 DEF ClearDelegate
<1>9. ASSUME NEW f \in Futures, Deregister(f) PROVE LifeInv'
  BY <1>9 DEF Deregister
<1>10. ASSUME NEW f \in Futures, CancelDelegate(f) PROVE LifeInv'
  BY <1>10 DEF CancelDelegate
<1>11. ASSUME NEW f \in Futures, CancelPolled(f) PROVE LifeInv'
  BY <1>11 DEF CancelPolled
<1>12. ASSUME NEW f \in Futures, CancelFnReturns(f) PROVE LifeInv'
  BY <1>12 DEF CancelFnReturns
<1>13. ASSUME NEW f \in Futures, CancelCommit(f) PROVE LifeInv'
  BY <1>13 DEF CancelCommit, Becomes
<1>14. ASSUME NEW f \in Futures, PollYields(f) PROVE LifeInv'
  BY <1>14 DEF PollYields
<1>15. ASSUME NEW f \in Futures, Settle(f) PROVE LifeInv'
  BY <1>15 DEF Settle, Becomes, Outcomes
<1>16. ASSUME NEW f \in Futures, FailDescriptor(f) PROVE LifeInv'
  BY <1>16 DEF FailDescriptor
<1>17. ASSUME CheckShutdown PROVE LifeInv'
  BY <1>17 DEF CheckShutdown
<1>18. ASSUME CopyDescriptors PROVE LifeInv'
  BY <1>18 DEF CopyDescriptors
<1>19. ASSUME PollRaises PROVE LifeInv'
  BY <1>19 DEF PollRaises
<1>20. ASSUME PollReturns PROVE LifeInv'
  BY <1>20 DEF PollReturns
<1>21. ASSUME WaitReturns PROVE LifeInv'
  BY <1>21 DEF WaitReturns
<1>22. ASSUME ClearEvent PROVE LifeInv'
  BY <1>22 DEF ClearEvent
<1>23. ASSUME Notify PROVE LifeInv'
  BY <1>23 DEF Notify
<1>24. ASSUME Shutdown PROVE LifeInv'
  BY <1>24 DEF Shutdown
<1>25. ASSUME ShutdownWake PROVE LifeInv'
  BY <1>25 DEF ShutdownWake
<1>26. ASSUME ShutdownReturns PROVE LifeInv'
  BY <1>26 DEF ShutdownReturns
<1>27. ASSUME UNCHANGED vars PROVE LifeInv'
  BY <1>27 DEF vars
<1> QED
  BY <1>1, <1>2, <1>3, <1>4, <1>5, <1>6, <1>7, <1>8, <1>9, <1>10, <1>11, <1>12, <1>13,
     <1>14, <1>15, <1>16, <1>17, <1>18, <1>19, <1>20, <1>21, <1>22, <1>23, <1>24,
     <1>25, <1>26, <1>27
     DEF Next, PollThread, UnderWay, FromOutside

\* A future is registered before it is deregistered.
LEMMA NextListInv == TypeOK /\ LifeInv /\ ListInv /\ [Next]_vars => ListInv'
<1> SUFFICES ASSUME TypeOK, LifeInv, ListInv, [Next]_vars PROVE ListInv'
  OBVIOUS
<1> USE DEF TypeOK, LifeInv, ListInv, futures, poller, Pending, Returned, Unlocked, LockFree
<1>1. ASSUME NEW f \in Futures, Submit(f) PROVE ListInv'
  BY <1>1 DEF Submit
<1>2. ASSUME NEW f \in Futures, AttachResolve(f) PROVE ListInv'
  BY <1>2 DEF AttachResolve
<1>3. ASSUME NEW f \in Futures, AttachClear(f) PROVE ListInv'
  BY <1>3 DEF AttachClear
<1>4. ASSUME NEW f \in Futures, DelegateFinish(f) PROVE ListInv'
  BY <1>4 DEF DelegateFinish, End, Outcomes
<1>5. ASSUME NEW f \in Futures, DelegateCancelledElsewhere(f) PROVE ListInv'
  BY <1>5 DEF DelegateCancelledElsewhere, End
<1>6. ASSUME NEW f \in Futures, ResolveFailure(f) PROVE ListInv'
  BY <1>6 DEF ResolveFailure, Becomes
<1>7. ASSUME NEW f \in Futures, Register(f) PROVE ListInv'
  BY <1>7 DEF Register
<1>8. ASSUME NEW f \in Futures, ClearDelegate(f) PROVE ListInv'
  BY <1>8 DEF ClearDelegate
<1>9. ASSUME NEW f \in Futures, Deregister(f) PROVE ListInv'
  BY <1>9 DEF Deregister
<1>10. ASSUME NEW f \in Futures, CancelDelegate(f) PROVE ListInv'
  BY <1>10 DEF CancelDelegate
<1>11. ASSUME NEW f \in Futures, CancelPolled(f) PROVE ListInv'
  BY <1>11 DEF CancelPolled
<1>12. ASSUME NEW f \in Futures, CancelFnReturns(f) PROVE ListInv'
  BY <1>12 DEF CancelFnReturns
<1>13. ASSUME NEW f \in Futures, CancelCommit(f) PROVE ListInv'
  BY <1>13 DEF CancelCommit, Becomes
<1>14. ASSUME NEW f \in Futures, PollYields(f) PROVE ListInv'
  BY <1>14 DEF PollYields
<1>15. ASSUME NEW f \in Futures, Settle(f) PROVE ListInv'
  BY <1>15 DEF Settle, Becomes, Outcomes
<1>16. ASSUME NEW f \in Futures, FailDescriptor(f) PROVE ListInv'
  BY <1>16 DEF FailDescriptor
<1>17. ASSUME CheckShutdown PROVE ListInv'
  BY <1>17 DEF CheckShutdown
<1>18. ASSUME CopyDescriptors PROVE ListInv'
  BY <1>18 DEF CopyDescriptors
<1>19. ASSUME PollRaises PROVE ListInv'
  BY <1>19 DEF PollRaises
<1>20. ASSUME PollReturns PROVE ListInv'
  BY <1>20 DEF PollReturns
<1>21. ASSUME WaitReturns PROVE ListInv'
  BY <1>21 DEF WaitReturns
<1>22. ASSUME ClearEvent PROVE ListInv'
  BY <1>22 DEF ClearEvent
<1>23. ASSUME Notify PROVE ListInv'
  BY <1>23 DEF Notify
<1>24. ASSUME Shutdown PROVE ListInv'
  BY <1>24 DEF Shutdown
<1>25. ASSUME ShutdownWake PROVE ListInv'
  BY <1>25 DEF ShutdownWake
<1>26. ASSUME ShutdownReturns PROVE ListInv'
  BY <1>26 DEF ShutdownReturns
<1>27. ASSUME UNCHANGED vars PROVE ListInv'
  BY <1>27 DEF vars
<1> QED
  BY <1>1, <1>2, <1>3, <1>4, <1>5, <1>6, <1>7, <1>8, <1>9, <1>10, <1>11, <1>12, <1>13,
     <1>14, <1>15, <1>16, <1>17, <1>18, <1>19, <1>20, <1>21, <1>22, <1>23, <1>24,
     <1>25, <1>26, <1>27
     DEF Next, PollThread, UnderWay, FromOutside

\* The poll thread does not miss a wake up.
LEMMA NextWakeInv == TypeOK /\ LifeInv /\ ListInv /\ WakeInv /\ [Next]_vars => WakeInv'
<1> SUFFICES ASSUME TypeOK, LifeInv, ListInv, WakeInv, [Next]_vars PROVE WakeInv'
  OBVIOUS
<1> USE DEF TypeOK, LifeInv, ListInv, WakeInv, futures, poller, LockFree, IsShutdown
<1>1. ASSUME NEW f \in Futures, Submit(f) PROVE WakeInv'
  BY <1>1 DEF Submit
<1>2. ASSUME NEW f \in Futures, AttachResolve(f) PROVE WakeInv'
  BY <1>2 DEF AttachResolve
<1>3. ASSUME NEW f \in Futures, AttachClear(f) PROVE WakeInv'
  BY <1>3 DEF AttachClear
<1>4. ASSUME NEW f \in Futures, DelegateFinish(f) PROVE WakeInv'
  BY <1>4 DEF DelegateFinish, End, Outcomes
<1>5. ASSUME NEW f \in Futures, DelegateCancelledElsewhere(f) PROVE WakeInv'
  BY <1>5 DEF DelegateCancelledElsewhere, End
<1>6. ASSUME NEW f \in Futures, ResolveFailure(f) PROVE WakeInv'
  BY <1>6 DEF ResolveFailure, Becomes
<1>7. ASSUME NEW f \in Futures, Register(f) PROVE WakeInv'
  BY <1>7 DEF Register
<1>8. ASSUME NEW f \in Futures, ClearDelegate(f) PROVE WakeInv'
  BY <1>8 DEF ClearDelegate
<1>9. ASSUME NEW f \in Futures, Deregister(f) PROVE WakeInv'
  BY <1>9 DEF Deregister
<1>10. ASSUME NEW f \in Futures, CancelDelegate(f) PROVE WakeInv'
  BY <1>10 DEF CancelDelegate
<1>11. ASSUME NEW f \in Futures, CancelPolled(f) PROVE WakeInv'
  BY <1>11 DEF CancelPolled
<1>12. ASSUME NEW f \in Futures, CancelFnReturns(f) PROVE WakeInv'
  BY <1>12 DEF CancelFnReturns
<1>13. ASSUME NEW f \in Futures, CancelCommit(f) PROVE WakeInv'
  BY <1>13 DEF CancelCommit, Becomes
<1>14. ASSUME NEW f \in Futures, PollYields(f) PROVE WakeInv'
  BY <1>14 DEF PollYields
<1>15. ASSUME NEW f \in Futures, Settle(f) PROVE WakeInv'
  BY <1>15 DEF Settle, Becomes, Outcomes
<1>16. ASSUME NEW f \in Futures, FailDescriptor(f) PROVE WakeInv'
  BY <1>16 DEF FailDescriptor
<1>17. ASSUME CheckShutdown PROVE WakeInv'
  BY <1>17 DEF CheckShutdown
<1>18. ASSUME CopyDescriptors PROVE WakeInv'
  BY <1>18 DEF CopyDescriptors
<1>19. ASSUME PollRaises PROVE WakeInv'
  BY <1>19 DEF PollRaises
<1>20. ASSUME PollReturns PROVE WakeInv'
  BY <1>20 DEF PollReturns
<1>21. ASSUME WaitReturns PROVE WakeInv'
  BY <1>21 DEF WaitReturns
<1>22. ASSUME ClearEvent PROVE WakeInv'
  BY <1>22 DEF ClearEvent
<1>23. ASSUME Notify PROVE WakeInv'
  BY <1>23 DEF Notify
<1>24. ASSUME Shutdown PROVE WakeInv'
  BY <1>24 DEF Shutdown
<1>25. ASSUME ShutdownWake PROVE WakeInv'
  BY <1>25 DEF ShutdownWake
<1>26. ASSUME ShutdownReturns PROVE WakeInv'
  BY <1>26 DEF ShutdownReturns
<1>27. ASSUME UNCHANGED vars PROVE WakeInv'
  BY <1>27 DEF vars
<1> QED
  BY <1>1, <1>2, <1>3, <1>4, <1>5, <1>6, <1>7, <1>8, <1>9, <1>10, <1>11, <1>12, <1>13,
     <1>14, <1>15, <1>16, <1>17, <1>18, <1>19, <1>20, <1>21, <1>22, <1>23, <1>24,
     <1>25, <1>26, <1>27
     DEF Next, PollThread, UnderWay, FromOutside

-----------------------------------------------------------------------------

\* The invariant always holds.
LEMMA Invariant == Spec => []IInv
<1>1. IInv /\ [Next]_vars => IInv'
  BY NextTypeOK, NextLifeInv, NextListInv, NextWakeInv DEF IInv
<1> QED
  BY InitIInv, <1>1, PTL DEF Spec

\* The variables keep their types, for any set of futures.
THEOREM TypeCorrect == Spec => []TypeOK
  BY Invariant, PTL DEF IInv

\* No descriptor of a future that is done stays on the list, for any futures.
THEOREM NoStaleDescriptor == Spec => []DescriptorsArePending
<1>1. IInv => DescriptorsArePending
  BY DEF IInv, TypeOK, ListInv, DescriptorsArePending
<1> QED
  BY Invariant, <1>1, PTL

\* The poll thread never sleeps on a descriptor it has not shown.
THEOREM NeverOversleeps == Spec => []NoOversleep
<1>1. IInv => NoOversleep
  BY DEF IInv, TypeOK, WakeInv, NoOversleep
<1> QED
  BY Invariant, <1>1, PTL

\* No cancel() gets past the cancel function, for any futures.
THEOREM CancelAlwaysAsks == Spec => CancelIsAsked
<1>1. IInv /\ [Next]_vars =>
        [\A f \in Futures :
           canc[f] = "idle" /\ canc'[f] = "commit" /\ HasCancelFn => dstate'[f] = "cancelled"]_vars
  <2> SUFFICES ASSUME IInv, Next, NEW f \in Futures,
                      canc[f] = "idle", canc'[f] = "commit", HasCancelFn
               PROVE  dstate'[f] = "cancelled"
    OBVIOUS
  <2>1. \/ \E g \in Futures : CancelDelegate(g) \/ CancelPolled(g) \/ CancelFnReturns(g) \/ CancelCommit(g)
        \/ UNCHANGED canc
    BY DEF Next, PollThread, UnderWay, FromOutside, futures, Submit, AttachResolve, AttachClear,
           DelegateFinish, DelegateCancelledElsewhere, End, ResolveFailure, Register, ClearDelegate,
           Deregister, PollYields, Settle, FailDescriptor, CheckShutdown, CopyDescriptors, PollRaises,
           PollReturns, WaitReturns, ClearEvent, Notify, Shutdown, ShutdownWake, ShutdownReturns
  <2>2. ASSUME NEW g \in Futures, CancelDelegate(g) PROVE dstate'[f] = "cancelled"
    BY <2>2 DEF CancelDelegate, IInv, TypeOK
  <2>3. ASSUME NEW g \in Futures, CancelPolled(g) PROVE FALSE
    <3>1. f = g
      BY <2>3 DEF CancelPolled, IInv, TypeOK
    <3>2. f \in polled
      BY <2>3, <3>1 DEF CancelPolled, IInv, ListInv, Pending
    <3> QED
      BY <2>3, <3>1, <3>2 DEF CancelPolled, IInv, TypeOK
  <2>4. ASSUME NEW g \in Futures, CancelFnReturns(g) \/ CancelCommit(g) PROVE FALSE
    BY <2>4 DEF CancelFnReturns, CancelCommit, IInv, TypeOK
  <2> QED
    BY <2>1, <2>2, <2>3, <2>4
<1> QED
  BY Invariant, <1>1, PTL DEF Spec, CancelIsAsked

-----------------------------------------------------------------------------
(* cancel() keeps its word, and nothing is forgotten *)

\* A cancel() is at work on a future only while the future is pending, and a
\* delegate that is cancelled under a pending future was cancelled by this cancel(),
\* or by somebody else.  An exception of the delegate is copied, a result registered with
\* the delegate cleared, and the thread ends for a shutdown only.
CancelInv ==
  /\ \A f \in Futures :
       /\ canc[f] # "idle" => Pending(f)
       /\ Pending(f) /\ dstate[f] = "cancelled" => canc[f] = "commit" \/ f \in Foreign
       /\ dstate[f] = "error" /\ resolve[f] = "done" => ~Pending(f)
       /\ dstate[f] = "result" /\ resolve[f] = "done" => ~linked[f]
  /\ thread = "exited" => IsShutdown

\* Nobody settles a future while its cancel() is at work.
LEMMA NextCancelInv == IInv /\ CancelInv /\ [Next]_vars => CancelInv'
<1> SUFFICES ASSUME IInv, CancelInv, [Next]_vars PROVE CancelInv'
  OBVIOUS
<1> USE DEF IInv, TypeOK, LifeInv, CancelInv, futures, poller, Pending, Returned, Unlocked, IsShutdown
<1>1. ASSUME NEW f \in Futures, Submit(f) PROVE CancelInv'
  BY <1>1 DEF Submit
<1>2. ASSUME NEW f \in Futures, AttachResolve(f) PROVE CancelInv'
  BY <1>2 DEF AttachResolve
<1>3. ASSUME NEW f \in Futures, AttachClear(f) PROVE CancelInv'
  BY <1>3 DEF AttachClear
<1>4. ASSUME NEW f \in Futures, DelegateFinish(f) PROVE CancelInv'
  BY <1>4 DEF DelegateFinish, End, Outcomes
<1>5. ASSUME NEW f \in Futures, DelegateCancelledElsewhere(f) PROVE CancelInv'
  BY <1>5 DEF DelegateCancelledElsewhere, End
<1>6. ASSUME NEW f \in Futures, ResolveFailure(f) PROVE CancelInv'
  BY <1>6 DEF ResolveFailure, Becomes
<1>7. ASSUME NEW f \in Futures, Register(f) PROVE CancelInv'
  BY <1>7 DEF Register
<1>8. ASSUME NEW f \in Futures, ClearDelegate(f) PROVE CancelInv'
  BY <1>8 DEF ClearDelegate
<1>9. ASSUME NEW f \in Futures, Deregister(f) PROVE CancelInv'
  BY <1>9 DEF Deregister
<1>10. ASSUME NEW f \in Futures, CancelDelegate(f) PROVE CancelInv'
  BY <1>10 DEF CancelDelegate
<1>11. ASSUME NEW f \in Futures, CancelPolled(f) PROVE CancelInv'
  BY <1>11 DEF CancelPolled
<1>12. ASSUME NEW f \in Futures, CancelFnReturns(f) PROVE CancelInv'
  BY <1>12 DEF CancelFnReturns
<1>13. ASSUME NEW f \in Futures, CancelCommit(f) PROVE CancelInv'
  BY <1>13 DEF CancelCommit, Becomes
<1>14. ASSUME NEW f \in Futures, PollYields(f) PROVE CancelInv'
  BY <1>14 DEF PollYields
<1>15. ASSUME NEW f \in Futures, Settle(f) PROVE CancelInv'
  BY <1>15 DEF Settle, Becomes, Outcomes
<1>16. ASSUME NEW f \in Futures, FailDescriptor(f) PROVE CancelInv'
  BY <1>16 DEF FailDescriptor
<1>17. ASSUME CheckShutdown PROVE CancelInv'
  BY <1>17 DEF CheckShutdown
<1>18. ASSUME CopyDescriptors PROVE CancelInv'
  BY <1>18 DEF CopyDescriptors
<1>19. ASSUME PollRaises PROVE CancelInv'
  BY <1>19 DEF PollRaises
<1>20. ASSUME PollReturns PROVE CancelInv'
  BY <1>20 DEF PollReturns
<1>21. ASSUME WaitReturns PROVE CancelInv'
  BY <1>21 DEF WaitReturns
<1>22. ASSUME ClearEvent PROVE CancelInv'
  BY <1>22 DEF ClearEvent
<1>23. ASSUME Notify PROVE CancelInv'
  BY <1>23 DEF Notify
<1>24. ASSUME Shutdown PROVE CancelInv'
  BY <1>24 DEF Shutdown
<1>25. ASSUME ShutdownWake PROVE CancelInv'
  BY <1>25 DEF ShutdownWake
<1>26. ASSUME ShutdownReturns PROVE CancelInv'
  BY <1>26 DEF ShutdownReturns
<1>27. ASSUME UNCHANGED vars PROVE CancelInv'
  BY <1>27 DEF vars
<1> QED
  BY <1>1, <1>2, <1>3, <1>4, <1>5, <1>6, <1>7, <1>8, <1>9, <1>10, <1>11, <1>12, <1>13,
     <1>14, <1>15, <1>16, <1>17, <1>18, <1>19, <1>20, <1>21, <1>22, <1>23, <1>24,
     <1>25, <1>26, <1>27
     DEF Next, PollThread, UnderWay, FromOutside

\* It holds throughout.
LEMMA CancelInvariant == Spec => []CancelInv
<1>1. Init => CancelInv
  BY DEF Init, CancelInv, Pending, IsShutdown
<1> QED
  BY Invariant, <1>1, NextCancelInv, PTL DEF Spec

\* A cancel() that gets as far as set_cancelled finds the future pending, and
\* leaves it cancelled: True is the truth, whatever the poll function and the
\* delegate did meanwhile (common.py:67-80).
CommitCancels ==
  \A f \in Futures : canc[f] = "commit" /\ canc'[f] = "idle" => Pending(f) /\ state'[f] = "cancelled"

\* It is, for any futures.
THEOREM CancelIsHonest == Spec => [][CommitCancels]_vars
<1>1. IInv /\ CancelInv /\ [Next]_vars => [CommitCancels]_vars
  <2> SUFFICES ASSUME IInv, CancelInv, Next, NEW f \in Futures,
                      canc[f] = "commit", canc'[f] = "idle"
               PROVE  Pending(f) /\ state'[f] = "cancelled"
    BY DEF CommitCancels
  <2>1. \/ \E g \in Futures : CancelDelegate(g) \/ CancelPolled(g) \/ CancelFnReturns(g) \/ CancelCommit(g)
        \/ UNCHANGED canc
    BY DEF Next, PollThread, UnderWay, FromOutside, futures, Submit, AttachResolve, AttachClear,
           DelegateFinish, DelegateCancelledElsewhere, End, ResolveFailure, Register, ClearDelegate,
           Deregister, PollYields, Settle, FailDescriptor, CheckShutdown, CopyDescriptors, PollRaises,
           PollReturns, WaitReturns, ClearEvent, Notify, Shutdown, ShutdownWake, ShutdownReturns
  <2>2. ASSUME NEW g \in Futures, CancelDelegate(g) \/ CancelPolled(g) \/ CancelFnReturns(g) PROVE FALSE
    BY <2>2 DEF CancelDelegate, CancelPolled, CancelFnReturns, Unlocked, IInv, TypeOK
  <2>3. ASSUME NEW g \in Futures, CancelCommit(g) PROVE Pending(f) /\ state'[f] = "cancelled"
    BY <2>3 DEF CancelCommit, Becomes, CancelInv, Pending, IInv, TypeOK
  <2> QED
    BY <2>1, <2>2, <2>3
<1> QED
  BY Invariant, CancelInvariant, <1>1, PTL DEF Spec

\* Nothing goes on: the thread sleeps with nobody about to wake it, or has ended;
\* no submit(), callback or cancel() is under way, and shutdown() has nothing to do
\* but wait for delegates.  It is what is left when neither UnderWay nor the poll
\* thread, its interval aside, nor shutdown() has a step to take.
AtRest ==
  /\ thread = "exited" \/ (thread = "waiting" /\ ~event)
  /\ \A f \in Futures :
       /\ state[f] # "unborn" => Returned(f)
       /\ resolve[f] \in {"none", "armed", "done"}
       /\ clear[f] # "due" /\ canc[f] = "idle"
  /\ shut # "flagged"
  /\ shut = "waiting" /\ thread = "exited" => \E f \in Futures : dstate[f] = "live"

\* At rest, the list is what it should be: the futures to poll for, and no other.
\* As long as the executor is in service, each pending future runs behind its
\* delegate, or was shown to the poll function, or is behind a delegate that
\* somebody else cancelled; a shutdown() that has not returned waits for a delegate
\* that runs, never for the thread.
NothingIsStuck ==
  AtRest =>
    /\ polled = {f \in Futures : Pending(f) /\ dstate[f] = "result"}
    /\ shut = "open" =>
         \A f \in Futures : Pending(f) =>
           \/ dstate[f] = "live"
           \/ f \in polled \cap batch
           \/ dstate[f] = "cancelled" /\ f \in Foreign
    /\ IsShutdown => thread = "exited"
    /\ shut = "waiting" => \E f \in Futures : dstate[f] = "live"

\* No future waits for a poll that does not come, and no shutdown() for a thread
\* that sleeps.
THEOREM ExecutorIsNeverStuck == Spec => []NothingIsStuck
<1>1. IInv /\ CancelInv => NothingIsStuck
  <2> SUFFICES ASSUME IInv, CancelInv, AtRest
               PROVE  /\ polled = {f \in Futures : Pending(f) /\ dstate[f] = "result"}
                      /\ shut = "open" =>
                           \A f \in Futures : Pending(f) =>
                             \/ dstate[f] = "live"
                             \/ f \in polled \cap batch
                             \/ dstate[f] = "cancelled" /\ f \in Foreign
                      /\ IsShutdown => thread = "exited"
                      /\ shut = "waiting" => \E f \in Futures : dstate[f] = "live"
    BY DEF NothingIsStuck
  <2>1. ASSUME NEW f \in polled PROVE f \in Futures /\ Pending(f) /\ dstate[f] = "result"
    BY <2>1 DEF AtRest, IInv, TypeOK, LifeInv, ListInv, Pending, Returned
  <2>2. ASSUME NEW f \in Futures, Pending(f), dstate[f] = "result" PROVE f \in polled
    BY <2>2 DEF AtRest, IInv, TypeOK, LifeInv, ListInv, CancelInv, Pending, Returned
  <2>3. ASSUME shut = "open" PROVE polled \subseteq batch
    BY <2>3 DEF AtRest, IInv, WakeInv, CancelInv, IsShutdown, TypeOK
  <2>4. ASSUME NEW f \in Futures, Pending(f), dstate[f] \notin {"live", "result"}
        PROVE  dstate[f] = "cancelled" /\ f \in Foreign
    BY <2>4 DEF AtRest, IInv, TypeOK, LifeInv, CancelInv, Pending, Returned, Settled, Outcomes
  <2>5. IsShutdown => thread = "exited"
    BY DEF AtRest, IInv, TypeOK, WakeInv, IsShutdown
  <2>6. shut = "waiting" => \E f \in Futures : dstate[f] = "live"
    BY <2>5 DEF AtRest, IsShutdown
  <2> QED
    BY <2>1, <2>2, <2>3, <2>4, <2>5, <2>6
<1> QED
  BY Invariant, CancelInvariant, <1>1, PTL
==============================================================================
