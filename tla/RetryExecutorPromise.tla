------------------------ MODULE RetryExecutorPromise ------------------------
(***************************************************************************)
(* RetryExecutor implements FuturePromise, for any number of futures,      *)
(* attempts and cancels: the attempt of the promise is the latest delegate *)
(* future, and a future is stopped once cancel() has been called on it.    *)
(***************************************************************************)
EXTENDS RetryExecutorProofs

USE BoundsAssumption, NoneAssumption
  DEF Numbers, Outcomes, Settled, Unlocked, IInv, futures, delegates, thread,
      cancelling

\* Whoever is inside cancel() has been counted, so a future that is about to
\* be cancelled is one somebody asked to cancel.
CancelsCounted == \A f \in Futures : canc[f] # "idle" => cancels[f] > 0

\* No step makes cancel() go on uncounted.
LEMMA CountedKeeps ==
  ASSUME IInv, CancelsCounted, [Next]_vars
  PROVE  CancelsCounted'
  <1> USE DEF CancelsCounted, TypeOK
  <1>1. ASSUME UNCHANGED cancelling PROVE CancelsCounted'
    BY <1>1
  <1>2. ASSUME NEW f \in Futures, CallCancel(f),
               \A g \in Futures : g # f => canc'[g] = canc[g]
        PROVE  CancelsCounted'
    BY <1>2 DEF CallCancel
  <1>3. ASSUME NEW f \in Futures, CancelWaiting(f) \/ CancelRunning(f) \/ CancelOrphan(f)
        PROVE  CancelsCounted'
    BY <1>2, <1>3 DEF CancelWaiting, CancelRunning, CancelOrphan
  <1>4. ASSUME NEW f \in Futures, CancelStep(f) PROVE CancelsCounted'
    BY <1>4 DEF CancelStep, CancelDelegate, CancelDelegateFails, CancelReturnsFalse,
       CancelReturnsTrue
  <1>5. ASSUME NEW f \in Futures, Submit(f) PROVE CancelsCounted'
    BY <1>5 DEF Submit
  <1>6. ASSUME NEW f \in Futures, NEW n \in Numbers,
               \/ DelegateFinish(f, n) \/ DelegateCancelledElsewhere(f, n)
               \/ CallbackStep(f, n)
        PROVE  CancelsCounted'
    BY <1>6 DEF DelegateFinish, DelegateCancelledElsewhere, CallbackStep, CallbackFind,
       CallbackRetry, CallbackWake, CallbackSettle, CallbackPop
  <1>7. CASE SubmitThread
    BY <1>7 DEF SubmitThread, CheckShutdown, ScanPicks, ScanFindsNothing, DiscardJob,
       CopyOutcome, CopyMeetsCancelled, SubmitNow, StartAttempt, SubmitNowStale,
       SubmitNowRefused, AttachCallback, RunCallback, AfterCallback, SleepUntilDue,
       WaitReturns, ClearEvent
  <1>8. CASE SubmitWake \/ Shutdown \/ ShutdownStep \/ Tick \/ UNCHANGED vars
    BY <1>8 DEF SubmitWake, Shutdown, ShutdownStep, ShutdownWake, ShutdownDelegate,
       DelegateShutdownReturns, JoinSubmitThread, Tick, vars
  <1>9. QED
    BY <1>3, <1>4, <1>5, <1>6, <1>7, <1>8 DEF Next

\* A delegate future that ends is the attempt that ends.
LEMMA EndIsEnd ==
  ASSUME IInv, NEW f \in Futures, NEW n \in Numbers, dstate[f][n] = "live",
         NEW o \in Settled, dstate' = [dstate EXCEPT ![f][n] = o],
         UNCHANGED <<state, tries, cancels>>
  PROVE  Promise!End(f)
  <1>1. n = tries[f] /\ n > 0
    BY LiveIsLatest
  <1>2. LatestAttempt[f] = "live"
    BY <1>1 DEF LatestAttempt
  <1>3. LatestAttempt' = [LatestAttempt EXCEPT ![f] = o]
    <2>1. tries'[f] = n /\ n # 0 /\ dstate'[f][n] = o
      BY <1>1 DEF TypeOK
    <2>2. \A g \in Futures : g # f => tries'[g] = tries[g] /\ dstate'[g] = dstate[g]
      BY DEF TypeOK
    <2>3. \A g \in Futures : LatestAttempt'[g] = IF g = f THEN o ELSE LatestAttempt[g]
      BY <2>1, <2>2 DEF LatestAttempt
    <2>4. QED
      BY <2>3 DEF LatestAttempt
  <1>4. QED
    BY <1>2, <1>3 DEF Promise!End, Promise!Settled, Promise!Outcomes

\* A call of cancel() is a request to stop.
LEMMA CallIsStop ==
  ASSUME IInv, NEW f \in Futures, CallCancel(f)
  PROVE  Promise!Stop(f)
  <1>1. state[f] = "pending" /\ UNCHANGED <<state, tries, dstate>>
    BY DEF CallCancel
  <1>2. LatestAttempt' = LatestAttempt
    BY <1>1 DEF LatestAttempt
  <1>3. [g \in Futures |-> cancels'[g] > 0]
          = [[g \in Futures |-> cancels[g] > 0] EXCEPT ![f] = TRUE]
    <2>1. cancels'[f] > 0 /\ \A g \in Futures : g # f => cancels'[g] = cancels[g]
      BY DEF CallCancel, TypeOK
    <2>2. (cancels'[f] > 0) = TRUE
      BY <2>1, Zenon
    <2>3. QED
      BY <2>1, <2>2, Zenon
  <1>4. QED
    BY <1>1, <1>2, <1>3 DEF Promise!Stop

\* Every step is a step of the promise, or leaves it alone.
LEMMA NextKeepsPromise ==
  ASSUME IInv, CancelsCounted, [Next]_vars
  PROVE  [Promise!Next]_(Promise!promise)
  <1>0. ASSUME UNCHANGED <<state, tries, dstate, cancels>>
        PROVE  UNCHANGED Promise!promise
    BY <1>0 DEF Promise!promise, LatestAttempt
  <1>1. ASSUME NEW f \in Futures, Submit(f) PROVE Promise!Create(f)
    BY <1>1 DEF Submit, Promise!Create, LatestAttempt
  <1>2. ASSUME NEW f \in Futures, CancelWaiting(f) \/ CancelRunning(f) \/ CancelOrphan(f)
        PROVE  Promise!Stop(f)
    BY <1>2, CallIsStop DEF CancelWaiting, CancelRunning, CancelOrphan
  <1>3. ASSUME NEW f \in Futures, CancelDelegate(f)
        PROVE  Promise!End(f) \/ UNCHANGED <<state, tries, dstate, cancels>>
    <2>1. /\ target[f] \in Numbers /\ UNCHANGED <<state, tries, cancels>>
          /\ dstate[f][target[f]] \in {"live", "cancelled"}
          /\ dstate' = [dstate EXCEPT ![f][target[f]] = "cancelled"]
      BY <1>3 DEF CancelDelegate, CancelInv, TypeOK
    <2>2. CASE dstate[f][target[f]] = "live"
      BY <2>1, <2>2, EndIsEnd
    <2>3. CASE dstate[f][target[f]] = "cancelled"
      BY <2>1, <2>3 DEF TypeOK
    <2>4. QED
      BY <2>1, <2>2, <2>3
  <1>4. ASSUME NEW f \in Futures, CancelReturnsTrue(f) PROVE Promise!Cancel(f)
    <2>1. state[f] = "pending" /\ cancels[f] > 0 /\ UNCHANGED <<tries, dstate, cancels>>
      BY <1>4 DEF CancelReturnsTrue, CancelInv, CancelsCounted
    <2>2. ASSUME LatestAttempt[f] = "live" PROVE FALSE
      <3>1. tries[f] \in Numbers /\ dstate[f][tries[f]] = "live"
        BY <2>2 DEF LatestAttempt, TypeOK
      <3>2. Listed(f, tries[f])
        BY <3>1, LiveIsLatest DEF Latest
      <3>3. QED
        BY <1>4, <3>1, <3>2 DEF CancelReturnsTrue, CancelInv, Listed
    <2>3. LatestAttempt' = LatestAttempt
      BY <2>1 DEF LatestAttempt
    <2>4. QED
      BY <1>4, <2>1, <2>2, <2>3 DEF CancelReturnsTrue, Promise!Cancel
  <1>5. ASSUME NEW f \in Futures, NEW n \in Numbers,
               DelegateFinish(f, n) \/ DelegateCancelledElsewhere(f, n)
        PROVE  Promise!End(f)
    BY <1>5, EndIsEnd DEF DelegateFinish, DelegateCancelledElsewhere
  <1>6. ASSUME NEW f \in Futures, NEW n \in Numbers,
               state[f] = "pending", n = tries[f], dstate[f][n] \in Outcomes,
               state' = [state EXCEPT ![f] = dstate[f][n]],
               UNCHANGED <<tries, dstate, cancels>>
        PROVE  Promise!Settle(f)
    <2>1. LatestAttempt[f] = dstate[f][n] /\ LatestAttempt' = LatestAttempt
      BY <1>6 DEF LatestAttempt
    <2>2. QED
      BY <1>6, <2>1 DEF Promise!Settle, Promise!Outcomes
  <1>7. ASSUME NEW f \in Futures, NEW n \in Numbers, CallbackSettle(f, n)
        PROVE  Promise!Settle(f)
    <2>1. n = tries[f] /\ dstate[f][n] \in Outcomes
      BY <1>7, CallbackIsLatest DEF CallbackSettle, Latest
    <2>2. QED
      BY <1>6, <1>7, <2>1 DEF CallbackSettle
  <1>8. ASSUME CopyOutcome PROVE Promise!Settle(sel.fut)
    <2>1. /\ sel.fut \in Futures /\ sel.attempt \in Numbers
          /\ sel.attempt = tries[sel.fut]
          /\ dstate[sel.fut][sel.attempt] \in Outcomes
      BY <1>8 DEF CopyOutcome, SubmitInv, Ended, Job
    <2>2. QED
      BY <1>6, <1>8, <2>1 DEF CopyOutcome
  <1>9. ASSUME SubmitNow PROVE Promise!Begin(sel.fut)
    <2> DEFINE f == sel.fut
               n == sel.attempt + 1
    <2>1. /\ ~sel.stop /\ state[f] = "pending" /\ sub = "picked"
          /\ Unlocked(f)
          /\ tries' = [tries EXCEPT ![f] = n]
          /\ dstate' = [dstate EXCEPT ![f][n] = "live"]
          /\ UNCHANGED <<state, cancels>>
      BY <1>9 DEF SubmitNow, Ready, StartAttempt
    <2>2. /\ sel \in jobs /\ f \in Futures /\ n \in Numbers
          /\ sel.attempt = tries[f] /\ sel.attempt \in Nat
          /\ Ended(f, sel.attempt)
      BY <2>1 DEF SubmitInv, Job
    <2>3. ~(cancels[f] > 0)
      BY <2>1, <2>2 DEF JobsInv, JobInv
    <2> HIDE DEF f, n
    <2>4. LatestAttempt[f] \in {"none"} \cup Outcomes
      BY <2>2 DEF LatestAttempt, Ended
    <2>5. LatestAttempt' = [LatestAttempt EXCEPT ![f] = "live"]
      <3>1. tries'[f] = n /\ n # 0 /\ dstate'[f][n] = "live"
        BY <2>1, <2>2 DEF TypeOK
      <3>2. \A g \in Futures : g # f => tries'[g] = tries[g] /\ dstate'[g] = dstate[g]
        BY <2>1, <2>2 DEF TypeOK
      <3>3. QED
        BY <2>2, <3>1, <3>2 DEF LatestAttempt
    <2>6. QED
      BY <2>1, <2>2, <2>3, <2>4, <2>5 DEF Promise!Begin, Promise!Outcomes, f
  <1>10. ASSUME NEW f \in Futures, NEW n \in Numbers, CallbackStep(f, n)
         PROVE  CallbackSettle(f, n) \/ UNCHANGED <<state, tries, dstate, cancels>>
    BY <1>10 DEF CallbackStep, CallbackFind, CallbackRetry, CallbackWake, CallbackPop
  <1>11. ASSUME SubmitThread
         PROVE  \/ SubmitNow \/ CopyOutcome
                \/ UNCHANGED <<state, tries, dstate, cancels>>
    BY <1>11 DEF SubmitThread, CheckShutdown, ScanPicks, ScanFindsNothing, DiscardJob,
       CopyMeetsCancelled, SubmitNowStale, SubmitNowRefused, AttachCallback, RunCallback,
       AfterCallback, SleepUntilDue, WaitReturns, ClearEvent
  <1>12. ASSUME NEW f \in Futures, CancelDelegateFails(f) \/ CancelReturnsFalse(f)
         PROVE  UNCHANGED <<state, tries, dstate, cancels>>
    BY <1>12 DEF CancelDelegateFails, CancelReturnsFalse
  <1>13. ASSUME SubmitWake \/ Shutdown \/ ShutdownStep \/ Tick \/ UNCHANGED vars
         PROVE  UNCHANGED <<state, tries, dstate, cancels>>
    BY <1>13 DEF SubmitWake, Shutdown, ShutdownStep, ShutdownWake, ShutdownDelegate,
       DelegateShutdownReturns, JoinSubmitThread, Tick, vars
  <1>14. SubmitNow \/ CopyOutcome => sel.fut \in Futures
    BY DEF SubmitNow, Ready, CopyOutcome, SubmitInv, Job
  <1> HIDE DEF IInv
  <1>15. QED
    BY <1>0, <1>1, <1>2, <1>3, <1>4, <1>5, <1>7, <1>8, <1>9, <1>10, <1>11, <1>12, <1>13,
       <1>14 DEF Next, CancelStep, Promise!Next

\* What a client sees of a RetryExecutor is what FuturePromise allows: however
\* many attempts follow one another behind a future, they never overlap, the
\* future settles once, with the outcome of the last, and it is cancelled only
\* on request and when no attempt goes on.
THEOREM ImplementsPromise == Spec => KeepsPromise
  <1>1. Init => Promise!Init
    <2>1. Init => \A f \in Futures : (cancels[f] > 0) = FALSE
      BY DEF Init
    <2>2. Init => LatestAttempt = [f \in Futures |-> "none"]
      BY DEF Init, LatestAttempt
    <2>3. QED
      BY <2>1, <2>2 DEF Init, Promise!Init
  <1>2. Init => CancelsCounted
    BY DEF Init, CancelsCounted
  <1>3. IInv /\ CancelsCounted /\ [Next]_vars =>
          CancelsCounted' /\ [Promise!Next]_(Promise!promise)
    BY CountedKeeps, NextKeepsPromise
  <1> HIDE DEF IInv
  <1>4. QED
    BY <1>1, <1>2, <1>3, Invariant, PTL DEF Spec, KeepsPromise, Promise!Spec
=============================================================================
