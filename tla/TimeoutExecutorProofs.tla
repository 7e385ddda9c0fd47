------------------------- MODULE TimeoutExecutorProofs -------------------------
(***************************************************************************)
(* Proofs about TimeoutExecutor and the chain of futures it is about, for  *)
(* any futures and timeouts.                                               *)
(***************************************************************************)
EXTENDS TimeoutExecutor, FutureChainProofs, WellFoundedInduction

\* Each job is in one place, from its submit() on.
JobsInv ==
  /\ \A f \in Futures :
       /\ placing[f] = "none" <=> state[f] = "unborn"
       /\ placing[f] \in {"none", "built"} => hook[f] = "none"
       /\ placing[f] \notin {"none", "built"} /\ Pending(f) => hook[f] = "armed"
       /\ placing[f] \in {"none", "built", "hooked"} => f \notin jobs \cup overdue \cup tried
  /\ thread \notin {"cancel", "cancelling"} => overdue = {}

\* What the job thread found still holds when nobody is about to wake it.
WakeInv ==
  ~event =>
    /\ thread \in {"cancel", "cancelling", "waiting"} =>
         \A f \in jobs : placing[f] = "listed" \/ hook[f] = "due" \/ Pending(f)
    /\ thread = "waiting" =>
         \A f \in jobs :
           placing[f] = "listed" \/ hook[f] = "due" \/ sleep \in 0..Max({0, left[f]})
    /\ shut \in {"waiting", "returned"} => thread \in {"top", "exited"}

IInv == TypeOK /\ ChainInv /\ JobsInv /\ JobsAreExact /\ WakeInv

-----------------------------------------------------------------------------
(* Numbers *)

\* Time left is counted down to -1, and no further.
LEMMA LeftsFacts ==
  /\ Lefts \subseteq Int
  /\ \A x \in Lefts : x >= -1 /\ (x >= 0 => x - 1 \in Lefts)
  /\ -1 \in Lefts /\ 0 \in Lefts
  /\ Timeouts \subseteq Lefts
<1>1. \A x \in Lefts : x = -1 \/ \E t \in Timeouts : x \in 0..t
  BY DEF Lefts
<1>2. \A t \in Timeouts : t \in Nat /\ 0..t \subseteq Lefts
  BY TimeoutAssumption DEF Lefts
<1>3. -1 \in Lefts
  BY DEF Lefts
<1>4. 0 \in Lefts
  <2>1. PICK t \in Timeouts : TRUE
    BY TimeoutAssumption
  <2> QED
    BY <1>2, <2>1
<1>5. ASSUME NEW x \in Lefts PROVE x \in Int /\ x >= -1 /\ (x >= 0 => x - 1 \in Lefts)
  <2>1. CASE x = -1
    BY <2>1
  <2>2. ASSUME NEW t \in Timeouts, x \in 0..t PROVE x \in Int /\ x >= 0 /\ x - 1 \in Lefts
    <3>1. x - 1 \in 0..t \/ x - 1 = -1
      BY <1>2, <2>2
    <3> QED
      BY <1>2, <1>3, <2>2, <3>1
  <2> QED
    BY <1>1, <2>1, <2>2
<1>6. Timeouts \subseteq Lefts
  BY <1>2
<1> QED
  BY <1>3, <1>4, <1>5, <1>6

\* The larger of two numbers.
LEMMA MaxOfTwo ==
  ASSUME NEW x \in Int, NEW y \in Int
  PROVE  Max({x, y}) = IF x >= y THEN x ELSE y
<1>1. \E m \in {x, y} : \A k \in {x, y} : m >= k
  OBVIOUS
<1>2. Max({x, y}) \in {x, y} /\ \A k \in {x, y} : Max({x, y}) >= k
  BY <1>1 DEF Max
<1> QED
  BY <1>2

\* A set of numbers with a lower bound has a least one.
LEMMA LeastExists ==
  ASSUME NEW S, S \subseteq Int, S # {}, \A k \in S : k >= -1
  PROVE  Min(S) \in S /\ \A k \in S : Min(S) <= k
<1> DEFINE T == {k + 1 : k \in S}
<1>0. \A k \in S : k + 1 \in T
  OBVIOUS
<1>1. T \subseteq Nat /\ T # {}
  <2>1. \A k \in S : k + 1 \in Nat
    OBVIOUS
  <2> QED
    BY <1>0, <2>1
<1>2. \E x \in T : \A y \in T : ~ (<<y, x>> \in OpToRel(<, Nat))
  BY <1>1, WFMin, NatLessThanWellFounded, Zenon
<1>3. \A x, y \in Nat : x < y => <<x, y>> \in OpToRel(<, Nat)
  BY Zenon DEF OpToRel
<1>4. PICK x \in T : \A y \in T : ~ (y < x)
  BY <1>1, <1>2, <1>3, Zenon
<1>5. PICK m \in S : x = m + 1
  BY <1>4
<1>6. ASSUME NEW k \in S PROVE m <= k
  <2>1. k + 1 \in Nat /\ m + 1 \in Nat /\ ~ (k + 1 < m + 1)
    BY <1>0, <1>1, <1>4, <1>5
  <2> QED
    BY <2>1
<1>7. \A k \in S : m =< k
  BY <1>6
<1> QED
  BY <1>7 DEF Min

-----------------------------------------------------------------------------
(* The chain of futures *)

\* Every step of the executor is one of a future, or leaves the futures alone.
LEMMA StepOfChain ==
  ASSUME [Next]_vars
  PROVE  (\E g \in Futures : ChainStep(g)) \/ UNCHANGED chain
<1>1. CASE JobThread
  BY <1>1 DEF JobThread, CheckShutdown, PartitionJobs, SetWaitTime, WaitReturns, ClearEvent,
              CancelOverdueFails, CancelOverdue, CancelReturns, ChainStep
<1>2. CASE Tick \/ Shutdown \/ ShutdownWake \/ ShutdownReturns
  BY <1>2 DEF Tick, Shutdown, ShutdownWake, ShutdownReturns
<1>3. ASSUME NEW f \in Futures, Submit(f) \/ UnderWay(f) \/ FromOutside(f)
      PROVE  ChainStep(f) \/ UNCHANGED chain
  BY <1>3 DEF Submit, UnderWay, HookCallback, AppendJob, SubmitWake, Resolve, OnFutureDone,
              FromOutside, ChainStep
<1>4. CASE UNCHANGED vars
  BY <1>4 DEF vars
<1> QED
  BY <1>1, <1>2, <1>3, <1>4 DEF Next

\* The chain of futures is as it was, or has made a step.
LEMMA NextChainInv ==
  ASSUME ChainTypeOK, ChainInv, [Next]_vars
  PROVE  ChainTypeOK' /\ ChainInv'
<1>1. CASE \E g \in Futures : ChainStep(g)
  BY <1>1, ChainTypes, ChainGoesOn
<1>2. CASE UNCHANGED chain
  BY <1>2 DEF chain, ChainTypeOK, ChainInv, Pending
<1> QED
  BY <1>1, <1>2, StepOfChain

-----------------------------------------------------------------------------
(* The executor *)

\* No step leaves the types.
LEMMA NextTypeOK ==
  ASSUME IInv, [Next]_vars
  PROVE  TypeOK'
<1> USE LeftsFacts DEF IInv, TypeOK, chain, worker
<1>0. ChainTypeOK'
  BY NextChainInv
<1> USE <1>0
<1>1. ASSUME NEW g \in Futures, Submit(g)
      PROVE  TypeOK'
  BY <1>1 DEF Submit, Create
<1>2. ASSUME NEW g \in Futures, HookCallback(g)
      PROVE  TypeOK'
  BY <1>2 DEF HookCallback, AddCallback
<1>3. ASSUME NEW g \in Futures, AppendJob(g)
      PROVE  TypeOK'
  BY <1>3 DEF AppendJob
<1>4. ASSUME NEW g \in Futures, SubmitWake(g)
      PROVE  TypeOK'
  BY <1>4 DEF SubmitWake
<1>5. ASSUME NEW g \in Futures, Resolve(g),
             UNCHANGED <<placing, jobs, left, worker, event, shut>>
      PROVE  TypeOK'
  BY <1>5 DEF Resolve, Attach, Unlink, Settle, Flatten, CancelCommit, Becomes
<1>6. ASSUME NEW g \in Futures, OnFutureDone(g)
      PROVE  TypeOK'
  BY <1>6 DEF OnFutureDone, RunCallback
<1>7. ASSUME NEW g \in Futures, DelegateFinish(g) \/ DelegateCancelledElsewhere(g),
             UNCHANGED <<placing, jobs, left, worker, event, shut>>
      PROVE  TypeOK'
  BY <1>7 DEF DelegateFinish, DelegateCancelledElsewhere, End
<1>8. ASSUME NEW g \in Futures, CancelDelegate(g),
             UNCHANGED <<placing, jobs, left, worker, event, shut>>
      PROVE  TypeOK'
  BY <1>8 DEF CancelDelegate
<1>9. ASSUME CheckShutdown
      PROVE  TypeOK'
  BY <1>9 DEF CheckShutdown
<1>10. ASSUME PartitionJobs
      PROVE  TypeOK'
  BY <1>10 DEF PartitionJobs, Kept
<1>11. ASSUME NEW g \in Futures, CancelOverdueFails(g)
      PROVE  TypeOK'
  BY <1>11 DEF CancelOverdueFails
<1>12. ASSUME NEW g \in Futures, CancelOverdue(g)
      PROVE  TypeOK'
  BY <1>12 DEF CancelOverdue, CancelDelegate
<1>13. ASSUME NEW g \in Futures, CancelReturns(g)
      PROVE  TypeOK'
  BY <1>13 DEF CancelReturns
<1>14. ASSUME SetWaitTime
      PROVE  TypeOK'
  <2>1. CASE jobs = {}
    BY <1>14, <2>1 DEF SetWaitTime, WaitTime
  <2>2. CASE jobs # {}
    <3> DEFINE S == {left[f] : f \in jobs}
    <3>1. S \subseteq Lefts /\ S # {}
      BY <2>2
    <3>2. Min(S) \in Lefts
      BY <3>1, LeastExists
    <3> HIDE DEF S
    <3>3. Max({0, Min(S)}) = IF 0 >= Min(S) THEN 0 ELSE Min(S)
      BY <3>2, MaxOfTwo
    <3>4. Max({0, Min(S)}) \in Lefts \ {-1}
      BY <3>2, <3>3
    <3> QED
      BY <1>14, <2>2, <3>4 DEF SetWaitTime, WaitTime, S
  <2> QED
    BY <2>1, <2>2
<1>15. ASSUME WaitReturns
      PROVE  TypeOK'
  BY <1>15 DEF WaitReturns
<1>16. ASSUME ClearEvent
      PROVE  TypeOK'
  BY <1>16 DEF ClearEvent
<1>17. ASSUME Tick
      PROVE  TypeOK'
  <2>1. \A f \in Futures : left'[f] \in Lefts
    <3> SUFFICES ASSUME NEW f \in Futures PROVE Max({left[f] - 1, -1}) \in Lefts
      BY <1>17 DEF Tick
    <3>1. left[f] \in Lefts /\ left[f] \in Int
      OBVIOUS
    <3>2. Max({left[f] - 1, -1}) = IF left[f] - 1 >= -1 THEN left[f] - 1 ELSE -1
      BY <3>1, MaxOfTwo
    <3> QED
      BY <3>1, <3>2
  <2>2. left' \in [Futures -> Lefts]
    BY <1>17, <2>1 DEF Tick
  <2>3. sleep' \in (Lefts \ {-1}) \cup {Forever}
    BY <1>17 DEF Tick
  <2> QED
    BY <1>17, <2>2, <2>3 DEF Tick
<1>18. ASSUME Shutdown
      PROVE  TypeOK'
  BY <1>18 DEF Shutdown
<1>19. ASSUME ShutdownWake
      PROVE  TypeOK'
  BY <1>19 DEF ShutdownWake
<1>20. ASSUME ShutdownReturns
      PROVE  TypeOK'
  BY <1>20 DEF ShutdownReturns
<1>21. ASSUME UNCHANGED vars
      PROVE  TypeOK'
  BY <1>21 DEF vars, chain
<1> QED
  BY <1>1, <1>2, <1>3, <1>4, <1>5, <1>6, <1>7, <1>8, <1>9, <1>10, <1>11, <1>12, <1>13,
     <1>14, <1>15, <1>16, <1>17, <1>18, <1>19, <1>20, <1>21
     DEF Next, JobThread, UnderWay, FromOutside, chain, worker

\* Each job stays in one place.
LEMMA NextJobsInv ==
  ASSUME IInv, [Next]_vars
  PROVE  JobsInv' /\ JobsAreExact'
<1> USE LeftsFacts DEF IInv, TypeOK, ChainTypeOK, ChainInv, JobsInv, JobsAreExact, Pending, chain, worker,
            Settled, Outcomes
<1>1. ASSUME NEW g \in Futures, Submit(g)
      PROVE  (JobsInv /\ JobsAreExact)'
  BY <1>1 DEF Submit, Create
<1>2. ASSUME NEW g \in Futures, HookCallback(g)
      PROVE  (JobsInv /\ JobsAreExact)'
  BY <1>2 DEF HookCallback, AddCallback
<1>3. ASSUME NEW g \in Futures, AppendJob(g)
      PROVE  (JobsInv /\ JobsAreExact)'
  BY <1>3 DEF AppendJob, Placing
<1>4. ASSUME NEW g \in Futures, SubmitWake(g)
      PROVE  (JobsInv /\ JobsAreExact)'
  BY <1>4 DEF SubmitWake
<1>5. ASSUME NEW g \in Futures, Resolve(g),
             UNCHANGED <<placing, jobs, left, worker, event, shut>>
      PROVE  (JobsInv /\ JobsAreExact)'
  BY <1>5 DEF Resolve, Attach, Unlink, Settle, Flatten, CancelCommit, Becomes, Mapped
<1>6. ASSUME NEW g \in Futures, OnFutureDone(g)
      PROVE  (JobsInv /\ JobsAreExact)'
  BY <1>6 DEF OnFutureDone, RunCallback
<1>7. ASSUME NEW g \in Futures, DelegateFinish(g) \/ DelegateCancelledElsewhere(g),
             UNCHANGED <<placing, jobs, left, worker, event, shut>>
      PROVE  (JobsInv /\ JobsAreExact)'
  BY <1>7 DEF DelegateFinish, DelegateCancelledElsewhere, End
<1>8. ASSUME NEW g \in Futures, CancelDelegate(g),
             UNCHANGED <<placing, jobs, left, worker, event, shut>>
      PROVE  (JobsInv /\ JobsAreExact)'
  BY <1>8 DEF CancelDelegate
<1>9. ASSUME CheckShutdown
      PROVE  (JobsInv /\ JobsAreExact)'
  BY <1>9 DEF CheckShutdown
<1>10. ASSUME PartitionJobs
      PROVE  (JobsInv /\ JobsAreExact)'
  <2>1. overdue = {} /\ thread' = "cancel" /\ UNCHANGED <<chain, placing, tried>>
    BY <1>10 DEF PartitionJobs
  <2>2. \A f \in Futures : f \in jobs' <=> f \in jobs /\ Pending(f) /\ left[f] >= 0
    BY <1>10 DEF PartitionJobs, Kept
  <2>3. \A f \in Futures : f \in overdue' <=> f \in jobs /\ Pending(f) /\ left[f] < 0
    BY <1>10 DEF PartitionJobs
  <2>4. \A f \in Futures : left[f] \in Int
    OBVIOUS
  <2>5. JobsInv'
    BY <2>1, <2>2, <2>3
  <2>6. JobsAreExact'
    BY <2>1, <2>2, <2>3, <2>4
  <2> QED
    BY <2>5, <2>6
<1>11. ASSUME NEW g \in Futures, CancelOverdueFails(g)
      PROVE  (JobsInv /\ JobsAreExact)'
  BY <1>11 DEF CancelOverdueFails
<1>12. ASSUME NEW g \in Futures, CancelOverdue(g)
      PROVE  (JobsInv /\ JobsAreExact)'
  BY <1>12 DEF CancelOverdue, CancelDelegate
<1>13. ASSUME NEW g \in Futures, CancelReturns(g)
      PROVE  (JobsInv /\ JobsAreExact)'
  BY <1>13 DEF CancelReturns
<1>14. ASSUME SetWaitTime
      PROVE  (JobsInv /\ JobsAreExact)'
  BY <1>14 DEF SetWaitTime
<1>15. ASSUME WaitReturns
      PROVE  (JobsInv /\ JobsAreExact)'
  BY <1>15 DEF WaitReturns
<1>16. ASSUME ClearEvent
      PROVE  (JobsInv /\ JobsAreExact)'
  BY <1>16 DEF ClearEvent
<1>17. ASSUME Tick
      PROVE  (JobsInv /\ JobsAreExact)'
  BY <1>17 DEF Tick
<1>18. ASSUME Shutdown
      PROVE  (JobsInv /\ JobsAreExact)'
  BY <1>18 DEF Shutdown
<1>19. ASSUME ShutdownWake
      PROVE  (JobsInv /\ JobsAreExact)'
  BY <1>19 DEF ShutdownWake
<1>20. ASSUME ShutdownReturns
      PROVE  (JobsInv /\ JobsAreExact)'
  BY <1>20 DEF ShutdownReturns
<1>21. ASSUME UNCHANGED vars
      PROVE  (JobsInv /\ JobsAreExact)'
  BY <1>21 DEF vars, chain
<1> QED
  BY <1>1, <1>2, <1>3, <1>4, <1>5, <1>6, <1>7, <1>8, <1>9, <1>10, <1>11, <1>12, <1>13,
     <1>14, <1>15, <1>16, <1>17, <1>18, <1>19, <1>20, <1>21
     DEF Next, JobThread, UnderWay, FromOutside, chain, worker

\* The job thread does not miss a wake up.
LEMMA NextWakeInv ==
  ASSUME IInv, [Next]_vars
  PROVE  WakeInv'
<1> USE LeftsFacts DEF IInv, TypeOK, ChainTypeOK, ChainInv, JobsInv, WakeInv, Pending, chain, worker, IsShutdown
<1>1. ASSUME NEW g \in Futures, Submit(g)
      PROVE  WakeInv'
  BY <1>1 DEF Submit, Create
<1>2. ASSUME NEW g \in Futures, HookCallback(g)
      PROVE  WakeInv'
  BY <1>2 DEF HookCallback, AddCallback
<1>3. ASSUME NEW g \in Futures, AppendJob(g)
      PROVE  WakeInv'
  BY <1>3 DEF AppendJob
<1>4. ASSUME NEW g \in Futures, SubmitWake(g)
      PROVE  WakeInv'
  BY <1>4 DEF SubmitWake
<1>5. ASSUME NEW g \in Futures, Resolve(g),
             UNCHANGED <<placing, jobs, left, worker, event, shut>>
      PROVE  WakeInv'
  BY <1>5 DEF Resolve, Attach, Unlink, Settle, Flatten, CancelCommit, Becomes
<1>6. ASSUME NEW g \in Futures, OnFutureDone(g)
      PROVE  WakeInv'
  BY <1>6 DEF OnFutureDone, RunCallback
<1>7. ASSUME NEW g \in Futures, DelegateFinish(g) \/ DelegateCancelledElsewhere(g),
             UNCHANGED <<placing, jobs, left, worker, event, shut>>
      PROVE  WakeInv'
  BY <1>7 DEF DelegateFinish, DelegateCancelledElsewhere, End
<1>8. ASSUME NEW g \in Futures, CancelDelegate(g),
             UNCHANGED <<placing, jobs, left, worker, event, shut>>
      PROVE  WakeInv'
  BY <1>8 DEF CancelDelegate
<1>9. ASSUME CheckShutdown
      PROVE  WakeInv'
  BY <1>9 DEF CheckShutdown
<1>10. ASSUME PartitionJobs
      PROVE  WakeInv'
  BY <1>10 DEF PartitionJobs, Kept
<1>11. ASSUME NEW g \in Futures, CancelOverdueFails(g)
      PROVE  WakeInv'
  BY <1>11 DEF CancelOverdueFails
<1>12. ASSUME NEW g \in Futures, CancelOverdue(g)
      PROVE  WakeInv'
  BY <1>12 DEF CancelOverdue, CancelDelegate
<1>13. ASSUME NEW g \in Futures, CancelReturns(g)
      PROVE  WakeInv'
  BY <1>13 DEF CancelReturns
<1>14. ASSUME SetWaitTime
      PROVE  WakeInv'
  <2> SUFFICES ASSUME ~event, NEW f \in jobs
               PROVE  WaitTime \in 0..Max({0, left[f]})
    BY <1>14 DEF SetWaitTime
  <2> DEFINE S == {left[h] : h \in jobs}
  <2>1. S \subseteq Lefts /\ left[f] \in S
    OBVIOUS
  <2>2. Min(S) \in Int /\ Min(S) <= left[f]
    BY <2>1, LeastExists
  <2>3. WaitTime = Max({0, Min(S)})
    BY DEF WaitTime
  <2>4. left[f] \in Int
    BY <2>1
  <2> HIDE DEF S
  <2> QED
    BY <2>2, <2>3, <2>4, MaxOfTwo
<1>15. ASSUME WaitReturns
      PROVE  WakeInv'
  BY <1>15 DEF WaitReturns
<1>16. ASSUME ClearEvent
      PROVE  WakeInv'
  BY <1>16 DEF ClearEvent
<1>17. ASSUME Tick
      PROVE  WakeInv'
  <2> SUFFICES ASSUME ~event, thread = "waiting", NEW f \in jobs,
                      sleep \in 0..Max({0, left[f]})
               PROVE  sleep' \in 0..Max({0, left'[f]})
    BY <1>17 DEF Tick
  <2>1. left[f] \in Int /\ left'[f] = Max({left[f] - 1, -1})
    BY <1>17 DEF Tick
  <2>2. sleep' = IF sleep \in {Forever, 0} THEN sleep ELSE sleep - 1
    BY <1>17 DEF Tick
  <2>3. sleep \in Nat /\ sleep # Forever
    BY <2>1, TimeoutAssumption, MaxOfTwo
  <2>4. left'[f] = IF left[f] - 1 >= -1 THEN left[f] - 1 ELSE -1
    BY <2>1, MaxOfTwo
  <2> QED
    BY <2>1, <2>2, <2>3, <2>4, MaxOfTwo
<1>18. ASSUME Shutdown
      PROVE  WakeInv'
  BY <1>18 DEF Shutdown
<1>19. ASSUME ShutdownWake
      PROVE  WakeInv'
  BY <1>19 DEF ShutdownWake
<1>20. ASSUME ShutdownReturns
      PROVE  WakeInv'
  BY <1>20 DEF ShutdownReturns
<1>21. ASSUME UNCHANGED vars
      PROVE  WakeInv'
  BY <1>21 DEF vars, chain
<1> QED
  BY <1>1, <1>2, <1>3, <1>4, <1>5, <1>6, <1>7, <1>8, <1>9, <1>10, <1>11, <1>12, <1>13,
     <1>14, <1>15, <1>16, <1>17, <1>18, <1>19, <1>20, <1>21
     DEF Next, JobThread, UnderWay, FromOutside, chain, worker

-----------------------------------------------------------------------------

\* The invariant holds at the start.
LEMMA InitIInv == Init => IInv
<1> SUFFICES ASSUME Init PROVE IInv
  OBVIOUS
<1> USE DEF Init, ChainInit
<1>1. ChainTypeOK
  BY DEF ChainTypeOK, Delegates
<1>2. TypeOK
  <2>1. event \in BOOLEAN
    BY Zenon
  <2> QED
    BY <1>1, <2>1, LeftsFacts DEF TypeOK
<1>3. ChainInv /\ JobsInv /\ JobsAreExact /\ WakeInv
  BY DEF ChainInv, JobsInv, JobsAreExact, WakeInv, Pending
<1> QED
  BY <1>2, <1>3 DEF IInv

\* The invariant always holds.
LEMMA Invariant == Spec => []IInv
<1>1. ASSUME IInv, [Next]_vars PROVE IInv'
  BY <1>1, NextTypeOK, NextChainInv, NextJobsInv, NextWakeInv DEF IInv, TypeOK
<1> QED
  BY InitIInv, <1>1, PTL DEF Spec

\* The variables keep their types, for any futures and timeouts.
THEOREM TypeCorrect == Spec => []TypeOK
  BY Invariant, PTL DEF IInv

\* The futures of a TimeoutExecutor are a chain of futures: it makes no step that
\* FutureChain does not allow.
THEOREM ImplementsChain == Spec => ChainSpec
<1>1. Init => ChainInit
  BY DEF Init
<1>2. [Next]_vars => [ChainNext]_chain
  BY StepOfChain DEF ChainNext
<1> QED
  BY <1>1, <1>2, PTL DEF Spec, ChainSpec

\* The assertion of _delegate_resolved holds for any futures.
THEOREM AssertionHolds == Spec => []ResolveFindsDelegate
<1>1. IInv => ResolveFindsDelegate
  BY DEF IInv, ChainInv, ResolveFindsDelegate
<1> QED
  BY Invariant, <1>1, PTL

\* No future but one whose delegate was cancelled is ever lost.
THEOREM NoOtherIsLost == Spec => []OnlyCancelledAreLost
<1>1. IInv => OnlyCancelledAreLost
  BY DEF IInv, ChainInv, OnlyCancelledAreLost
<1> QED
  BY Invariant, <1>1, PTL

\* One attempt to cancel each future, for any number of them.
THEOREM OneAttemptEach == Spec => []JobsAreExact
  BY Invariant, PTL DEF IInv

\* The job thread wakes in time for every deadline.
THEOREM NeverOversleeps == Spec => []NoOversleep
<1>1. IInv => NoOversleep
  BY DEF IInv, TypeOK, ChainInv, JobsInv, WakeInv, NoOversleep
<1> QED
  BY Invariant, <1>1, PTL

\* fn does not run for a future that is cancelled, whatever the interleaving.
THEOREM FnOnlyForPending == Spec => CancelledIsNotMapped
<1>1. IInv /\ [Next]_vars =>
        [\A f \in Futures :
           step[f] # "map" /\ step'[f] = "map" => Pending(f) /\ ~holding[f]]_vars
  <2> SUFFICES ASSUME IInv, Next, NEW f \in Futures, step[f] # "map", step'[f] = "map"
               PROVE  Pending(f) /\ ~holding[f]
    OBVIOUS
  <2>1. PICK g \in Futures : ChainStep(g)
    BY StepOfChain DEF chain
  <2>2. Unlink(f)
    BY <2>1 DEF ChainStep, Create, Attach, DelegateFinish, DelegateCancelledElsewhere, End, Unlink,
                Settle, Flatten, CancelDelegate, CancelCommit, AddCallback, RunCallback,
                IInv, TypeOK, ChainTypeOK
  <2>3. step[f] = "unlink" /\ ~holding[f] /\ dstate[f] \notin {"none", "live", "cancelled"}
    BY <2>2 DEF Unlink, NothingFollows, IInv, TypeOK, ChainTypeOK, ChainInv
  <2> QED
    BY <2>3 DEF IInv, TypeOK, ChainTypeOK, ChainInv, Pending, Settled, Outcomes
<1> QED
  BY Invariant, <1>1, PTL DEF Spec, CancelledIsNotMapped
\* What the chain of futures promises holds of the futures of the executor.
THEOREM TimeoutIsHonest == Spec => []CancelHolds /\ [][CancelTellsTheTruth]_chain
  BY ImplementsChain, CancelIsHonest, PTL

-----------------------------------------------------------------------------
(* Nothing is stuck: what OverdueIsTried rests on *)

\* The job thread has ended or waits: for the event, the timer, or another cancel()
\* or a callback of a future; nothing is under way for a future, and no time is left
\* to pass.  These are the negated guards of the actions of FairSpec.
ThreadRests ==
  \/ thread = "exited"
  \/ thread = "waiting" /\ ~event /\ sleep # 0
  \/ thread = "cancel" /\ overdue # {} /\ \A f \in overdue : ~Returned(f) \/ holding[f]
  \/ thread = "cancelling" /\ \A f \in overdue \cap tried : holding[f] \/ hook[f] = "due"

UnderWayRests(f) ==
  /\ placing[f] = "built" => hook[f] # "none" \/ step[f] = "attach" \/ holding[f]
  /\ placing[f] \notin {"hooked", "listed"}
  /\ step[f] = "attach" => state[f] \notin {"pending", "cancelled"}
  /\ step[f] \in {"unlink", "map"} => holding[f]
  /\ ~holding[f] /\ hook[f] # "due"

AtRest ==
  /\ ThreadRests
  /\ \A f \in Futures : UnderWayRests(f) /\ left[f] < 0
  /\ sleep \in {0, Forever}

\* What is true then, unless the executor is shut down: every future is done, or it
\* was asked to cancel and refused, or a delegate cancelled by somebody else has left
\* it behind; and the list of jobs is empty.
NothingIsStuck ==
  AtRest /\ ~IsShutdown =>
    /\ jobs = {} /\ overdue = {}
    /\ \A f \in Futures : Pending(f) => f \in tried /\ dstate[f] \in {"live", "cancelled"}

\* The job thread leaves its loop after a shutdown only; it cancels what it was asked
\* to; and a listed future has its callbacks.
ThreadInv ==
  /\ thread = "exited" => IsShutdown
  /\ thread = "cancelling" => overdue \cap tried # {}
  /\ \A f \in Futures : placing[f] \notin {"none", "built"} => Returned(f)

\* A future that was returned stays so.
LEMMA ReturnedStays ==
  ASSUME ChainTypeOK, NEW g \in Futures, ChainStep(g), NEW f \in Futures, Returned(f)
  PROVE  Returned(f)'
<1> USE DEF ChainTypeOK, Returned
<1>1. CASE Flatten(g)
  BY <1>1 DEF Flatten
<1>2. CASE Settle(g) \/ CancelCommit(g)
  BY <1>2 DEF Settle, CancelCommit, Becomes, Mapped, Outcomes
<1>3. CASE \/ Create(g) \/ Attach(g) \/ DelegateFinish(g) \/ DelegateCancelledElsewhere(g)
           \/ Unlink(g) \/ CancelDelegate(g) \/ AddCallback(g) \/ RunCallback(g)
  BY <1>3 DEF Create, Attach, DelegateFinish, DelegateCancelledElsewhere, End, Unlink,
    CancelDelegate, AddCallback, RunCallback
<1> QED
  BY <1>1, <1>2, <1>3 DEF ChainStep

\* Every step keeps ThreadInv.
LEMMA NextThreadInv == IInv /\ ThreadInv /\ [Next]_vars => ThreadInv'
<1> SUFFICES ASSUME IInv, ThreadInv, [Next]_vars PROVE ThreadInv'
  OBVIOUS
<1>1. ChainTypeOK
  BY DEF IInv, TypeOK
<1>2. ASSUME NEW f \in Futures, Returned(f) PROVE Returned(f)'
  BY <1>1, <1>2, ReturnedStays, StepOfChain DEF chain, Returned
<1>3. ASSUME NEW f \in Futures, placing'[f] \notin {"none", "built"} PROVE Returned(f)'
  <2>1. CASE placing[f] \notin {"none", "built"}
    BY <1>2, <2>1 DEF ThreadInv
  <2>2. CASE placing[f] \in {"none", "built"}
    <3>1. HookCallback(f)
      BY <1>3, <2>2 DEF Next, JobThread, CheckShutdown, PartitionJobs, CancelOverdueFails,
        CancelOverdue, CancelReturns, SetWaitTime, WaitReturns, ClearEvent, Tick, Shutdown,
        ShutdownWake, ShutdownReturns, Submit, UnderWay, HookCallback, AppendJob, SubmitWake,
        OnFutureDone, FromOutside, vars, IInv, TypeOK
    <3>2. state[f] # "unborn" /\ step[f] # "attach"
      BY <3>1 DEF HookCallback, AddCallback, IInv, TypeOK, JobsInv
    <3> QED
      BY <1>2, <3>2 DEF Returned
  <2> QED
    BY <2>1, <2>2
<1>4. ASSUME NEW g \in Futures, CancelOverdue(g) PROVE g \in overdue' \cap tried'
  BY <1>4 DEF CancelOverdue
<1>5. CASE JobThread
  <2>1. thread' = "exited" => IsShutdown'
    BY <1>5 DEF JobThread, CheckShutdown, PartitionJobs, CancelOverdueFails, CancelOverdue,
      CancelReturns, SetWaitTime, WaitReturns, ClearEvent, IsShutdown, ThreadInv
  <2>2. thread' = "cancelling" => \E g \in Futures : CancelOverdue(g)
    BY <1>5 DEF JobThread, CheckShutdown, PartitionJobs, CancelOverdueFails, CancelOverdue,
      CancelReturns, SetWaitTime, WaitReturns, ClearEvent
  <2> QED
    BY <1>3, <1>4, <2>1, <2>2 DEF ThreadInv
<1>6. CASE ~JobThread
  <2>1. UNCHANGED <<thread, overdue, tried>> /\ (IsShutdown => IsShutdown')
    BY <1>6 DEF Next, Tick, Shutdown, ShutdownWake, ShutdownReturns, Submit, UnderWay,
      HookCallback, AppendJob, SubmitWake, OnFutureDone, FromOutside, vars, worker, IsShutdown
  <2> QED
    BY <1>3, <2>1 DEF ThreadInv
<1> QED
  BY <1>5, <1>6

\* With nothing left to do no deadline was missed and no callback forgotten.
THEOREM TimeoutIsNeverStuck == Spec => []NothingIsStuck
<1>1. Init => ThreadInv
  BY DEF Init, ThreadInv, IsShutdown
<1>2. ASSUME IInv, ThreadInv, AtRest, ~IsShutdown
      PROVE  /\ jobs = {} /\ overdue = {}
             /\ \A f \in Futures :
                  Pending(f) => f \in tried /\ dstate[f] \in {"live", "cancelled"}
  <2> USE <1>2 DEF IInv
  <2>1. \A f \in Futures : UnderWayRests(f) /\ ~holding[f] /\ hook[f] # "due"
    BY DEF AtRest, UnderWayRests
  <2>2. ASSUME NEW f \in Futures PROVE placing[f] \in {"none", "returned"}
    <3>1. placing[f] \notin {"hooked", "listed"}
      BY <2>1 DEF UnderWayRests
    <3>2. SUFFICES ASSUME placing[f] = "built" PROVE FALSE
      BY <3>1 DEF TypeOK
    <3>3. hook[f] = "none" /\ state[f] # "unborn"
      BY <3>2 DEF JobsInv
    <3>4. step[f] = "attach" /\ state[f] \notin {"pending", "cancelled"}
      BY <2>1, <3>2, <3>3 DEF UnderWayRests
    <3> QED
      BY <3>3, <3>4 DEF TypeOK, ChainTypeOK, ChainInv, Settled, Outcomes
  <2>3. ASSUME NEW f \in overdue PROVE Returned(f)
    <3>1. f \in Futures /\ placing[f] \notin {"none", "built"}
      BY DEF TypeOK, JobsInv
    <3> QED
      BY <3>1 DEF ThreadInv
  <2>4. thread = "waiting" /\ ~event /\ sleep # 0
    <3>1. thread # "exited"
      BY DEF ThreadInv
    <3>2. ~(thread = "cancel" /\ overdue # {} /\ \A f \in overdue : ~Returned(f) \/ holding[f])
      BY <2>1, <2>3 DEF TypeOK
    <3>3. ~(thread = "cancelling" /\ \A f \in overdue \cap tried : holding[f] \/ hook[f] = "due")
      BY <2>1 DEF ThreadInv, TypeOK
    <3> QED
      BY <3>1, <3>2, <3>3 DEF AtRest, ThreadRests
  <2>5. overdue = {}
    BY <2>4 DEF JobsInv
  <2>6. jobs = {}
    <3>1. sleep = Forever /\ Forever \notin Nat
      BY <2>4, TimeoutAssumption DEF AtRest
    <3>2. ASSUME NEW f \in jobs PROVE FALSE
      <4>1. f \in Futures /\ placing[f] # "listed" /\ hook[f] # "due"
        BY <2>1, <2>2 DEF TypeOK
      <4>2. sleep \in 0..Max({0, left[f]})
        BY <2>4, <4>1 DEF WakeInv
      <4> QED
        BY <3>1, <4>2
    <3> QED
      BY <3>2
  <2>7. ASSUME NEW f \in Futures, Pending(f)
        PROVE  f \in tried /\ dstate[f] \in {"live", "cancelled"}
    <3>1. placing[f] = "returned"
      BY <2>2, <2>7 DEF JobsInv, Pending
    <3>2. f \in tried
      BY <2>5, <2>6, <2>7, <3>1 DEF JobsAreExact
    <3>3. step[f] \notin {"attach", "unlink", "map"}
      BY <2>1, <2>7 DEF UnderWayRests, Pending
    <3> QED
      BY <2>7, <3>2, <3>3 DEF TypeOK, ChainTypeOK, ChainInv
  <2> QED
    BY <2>5, <2>6, <2>7
<1>3. IInv /\ ThreadInv => NothingIsStuck
  BY <1>2 DEF NothingIsStuck
<1> QED
  BY <1>1, <1>3, NextThreadInv, Invariant, PTL DEF Spec
==============================================================================
