------------------------ MODULE RetryExecutorProofs ------------------------
(***************************************************************************)
(* Theorems about RetryExecutor, for any number of futures, attempts and   *)
(* cancels, and their proofs.                                              *)
(***************************************************************************)
EXTENDS RetryExecutor, WellFoundedInduction, TLAPS

\* The job of the delegate future f, n is in the list.
Listed(f, n) == \E j \in jobs : j.fut = f /\ j.attempt = n /\ j.running

\* The outcome an attempt left, if there was an attempt.
Ended(f, n) == n > 0 => dstate[f][n] \in Outcomes

\* What the list holds.
JobInv(j) ==
  /\ j.attempt = tries[j.fut]
  /\ state[j.fut] # "unborn"
  /\ cancels[j.fut] > 0 => j.stop
  /\ j.running => j.attempt > 0
  /\ ~j.running =>
       /\ j.attempt < MaxAttempts
       /\ Ended(j.fut, j.attempt)
       /\ j.stop => j.attempt > 0
       /\ state[j.fut] = "pending"
       /\ canc[j.fut] # "commit"

JobsInv ==
  /\ \A j, k \in jobs : j.fut = k.fut => j = k
  /\ \A j \in jobs : JobInv(j)

\* How far a delegate future and its callback have come: one not made yet,
\* one that was retried, and the latest.
Future(f, n) == dstate[f][n] = "none" /\ cb[f][n] = "none"

Past(f, n) == dstate[f][n] \in Outcomes /\ cb[f][n] \in {"rewake", "done"}

Latest(f, n) ==
  /\ dstate[f][n] # "none"
  /\ dstate[f][n] = "live" => cb[f][n] \in {"none", "armed"} /\ link[f] = n
  /\ cb[f][n] = "none" => sub = "submitted" /\ sel.fut = f /\ sel.attempt + 1 = n
  /\ cb[f][n] = "armed" => dstate[f][n] = "live"
  /\ cb[f][n] \notin {"rewake", "done"} => Listed(f, n)
  /\ cb[f][n] \in {"none", "armed", "find"} /\ dstate[f][n] # "cancelled" =>
       state[f] = "pending"
  /\ cb[f][n] \in {"retry", "final"} =>
       state[f] = "pending" /\ dstate[f][n] \in Outcomes
  /\ cb[f][n] = "retry" => n < MaxAttempts
  /\ cb[f][n] = "pop" => state[f] \in Outcomes

AttemptsInv ==
  \A f \in Futures, n \in Numbers :
    /\ n > tries[f] => Future(f, n)
    /\ n < tries[f] => Past(f, n)
    /\ n = tries[f] => Latest(f, n)

\* What cancel() knows while it holds the future's lock.
CancelInv ==
  \A f \in Futures :
    /\ ~Unlocked(f) => state[f] = "pending"
    /\ state[f] = "unborn" => tries[f] = 0 /\ cancels[f] = 0
    /\ canc[f] = "delegate" => target[f] > 0 /\ target[f] <= tries[f]
    /\ canc[f] = "commit" =>
         \/ \A j \in jobs : j.fut # f
         \/ tries[f] > 0 /\ dstate[f][tries[f]] = "cancelled"

\* What the submit thread knows of the job it has picked.
SubmitInv ==
  /\ sub \in {"picked", "copy", "submitted", "incallback"} =>
       sel \in Job /\ sel.attempt < MaxAttempts
  /\ sub \in {"picked", "copy"} =>
       /\ ~sel.running
       /\ sel.attempt = tries[sel.fut]
       /\ Ended(sel.fut, sel.attempt)
       /\ sel.stop => sel.attempt > 0
       /\ state[sel.fut] # "unborn"
  /\ sub = "picked" =>
       \/ sel \in jobs
       \/ /\ \A j \in jobs : j.fut # sel.fut
          /\ canc[sel.fut] = "commit" \/ state[sel.fut] \in Settled
  /\ sub = "copy" => sel.attempt > 0 /\ \A j \in jobs : j.fut # sel.fut
  /\ sub \in {"submitted", "incallback"} => tries[sel.fut] = sel.attempt + 1
  /\ sub = "submitted" => cb[sel.fut][sel.attempt + 1] = "none"

IInv == TypeOK /\ JobsInv /\ AttemptsInv /\ CancelInv /\ SubmitInv

USE BoundsAssumption, NoneAssumption
  DEF Numbers, Outcomes, Settled, Unlocked, IInv, futures, delegates, thread,
      cancelling

-----------------------------------------------------------------------------
(* Shared lemmas *)

\* A callback that has not returned belongs to the latest attempt.
LEMMA CallbackIsLatest ==
  ASSUME IInv, NEW f \in Futures, NEW n \in Numbers,
         cb[f][n] \in {"armed", "find", "retry", "final", "pop"}
  PROVE  n = tries[f] /\ Latest(f, n)
  <1>1. ~(n < tries[f]) /\ ~(n > tries[f])
    BY DEF AttemptsInv, Past, Future
  <1>2. n = tries[f]
    BY <1>1 DEF TypeOK
  <1>3. QED
    BY <1>2 DEF AttemptsInv

\* Only the latest delegate future can be live.
LEMMA LiveIsLatest ==
  ASSUME IInv, NEW f \in Futures, NEW n \in Numbers, dstate[f][n] = "live"
  PROVE  n = tries[f] /\ Latest(f, n)
  <1>1. ~(n < tries[f]) /\ ~(n > tries[f])
    BY DEF AttemptsInv, Past, Future
  <1>2. n = tries[f]
    BY <1>1 DEF TypeOK
  <1>3. QED
    BY <1>2 DEF AttemptsInv

\* Steps that leave the threads, the futures and the list alone.
LEMMA QuietKeeps ==
  ASSUME IInv, UNCHANGED <<futures, delegates, thread, cancelling, jobs>>,
         event' \in BOOLEAN, now' \in Nat, placing' \in Futures \cup {Nobody},
         shut' \in {"open", "flagged", "woken", "closing", "joining", "returned"}
  PROVE  IInv'
  <1>1. TypeOK'
    BY DEF TypeOK
  <1>2. JobsInv'
    BY DEF JobsInv, JobInv, Ended
  <1>3. AttemptsInv'
    BY DEF AttemptsInv, Future, Past, Latest, Listed
  <1>4. CancelInv'
    BY DEF CancelInv
  <1>5. SubmitInv'
    BY DEF SubmitInv, Ended
  <1>6. QED
    BY <1>1, <1>2, <1>3, <1>4, <1>5

\* Steps of the submit thread that only bring it to a place where it holds
\* no job it has a plan for.
LEMMA ThreadKeeps ==
  ASSUME IInv, UNCHANGED <<futures, delegates, cancelling, jobs, now, placing, shut>>,
         event' \in BOOLEAN, sel' \in Job \cup {NoJob}, sub # "submitted",
         sub' \in {"top", "scan", "waiting", "clear", "exited", "dead"}
  PROVE  IInv'
  <1>1. TypeOK'
    BY DEF TypeOK
  <1>2. JobsInv'
    BY DEF JobsInv, JobInv, Ended
  <1>3. AttemptsInv'
    BY DEF AttemptsInv, Future, Past, Latest, Listed
  <1>4. CancelInv'
    BY DEF CancelInv
  <1>5. SubmitInv'
    BY DEF SubmitInv
  <1>6. QED
    BY <1>1, <1>2, <1>3, <1>4, <1>5

\* The submit thread pops its job, if cancel() has not done so before.
LEMMA PopKeeps ==
  ASSUME IInv, sub = "picked", jobs' = Popped(sel),
         UNCHANGED <<futures, delegates, cancelling, event, now, placing, shut>>,
         \/ sub' = "copy" /\ sel' = sel /\ sel.stop
         \/ sub' \in {"top", "exited"} /\ sel' = NoJob
  PROVE  IInv'
  <1>1. /\ jobs' = jobs \ {sel} /\ ~sel.running
        /\ \A k \in jobs : k.fut = sel.fut => k = sel
    BY DEF Popped, SubmitInv, JobsInv
  <1>2. TypeOK'
    BY <1>1 DEF TypeOK
  <1>3. JobsInv'
    BY <1>1 DEF JobsInv, JobInv, Ended
  <1>4. AttemptsInv'
    <2>1. \A g \in Futures, m \in Numbers : Listed(g, m) => Listed(g, m)'
      BY <1>1 DEF Listed
    <2>2. QED
      BY <2>1 DEF AttemptsInv, Future, Past, Latest
  <1>5. CancelInv'
    BY <1>1 DEF CancelInv
  <1>6. SubmitInv'
    BY <1>1 DEF SubmitInv, Ended
  <1>7. QED
    BY <1>2, <1>3, <1>4, <1>5, <1>6

-----------------------------------------------------------------------------
(* submit() and cancel() keep the invariant *)

\* submit() adds the job of a future that had none.
LEMMA SubmitKeeps ==
  ASSUME IInv, NEW f \in Futures, Submit(f)
  PROVE  IInv'
  <1> USE DEF Submit
  <1>1. /\ NewJob(f) \in Job
        /\ NewJob(f).fut = f /\ NewJob(f).attempt = 0
        /\ ~NewJob(f).running /\ ~NewJob(f).stop
    BY DEF NewJob, Job, TypeOK
  <1>2. \A j \in jobs : j.fut # f
    BY DEF JobsInv, JobInv
  <1>3. /\ tries[f] = 0 /\ cancels[f] = 0
        /\ canc[f] # "commit"
        /\ sub \in {"picked", "copy"} => sel.fut # f
    BY DEF CancelInv, SubmitInv
  <1>4. /\ state' = [state EXCEPT ![f] = "pending"]
        /\ state \in [Futures -> {"unborn", "pending"} \cup Settled]
    BY DEF TypeOK
  <1>5. TypeOK'
    <2>1. jobs' \subseteq Job
      BY <1>1 DEF TypeOK
    <2>2. state' \in [Futures -> {"unborn", "pending"} \cup Settled]
      BY <1>4
    <2>3. QED
      BY <2>1, <2>2 DEF TypeOK
  <1>6. JobsInv'
    <2>1. \A j, k \in jobs' : j.fut = k.fut => j = k
      BY <1>1, <1>2 DEF JobsInv
    <2>2. ASSUME NEW j, j = NewJob(f)
          PROVE  JobInv(j)'
      BY <1>1, <1>3, <1>4, <2>2 DEF JobInv, Ended
    <2>3. \A j \in jobs : JobInv(j)'
      BY <1>2, <1>4 DEF JobsInv, JobInv, Ended, TypeOK, Job
    <2>4. \A j \in jobs' : JobInv(j)'
      BY <2>2, <2>3
    <2>5. QED
      BY <2>1, <2>4 DEF JobsInv
  <1>7. AttemptsInv'
    BY DEF AttemptsInv, Future, Past, Latest, Listed, NewJob
  <1>8. CancelInv'
    BY <1>1, <1>3, <1>4 DEF CancelInv
  <1>9. SubmitInv'
    BY <1>1, <1>3, <1>4 DEF SubmitInv, Ended
  <1>10. QED
    BY <1>5, <1>6, <1>7, <1>8, <1>9

\* cancel() that finds a waiting job takes it away.
LEMMA CancelWaitingKeeps ==
  ASSUME IInv, NEW f \in Futures, CancelWaiting(f)
  PROVE  IInv'
  <1>1. PICK j \in jobs :
          /\ j.fut = f /\ ~j.running
          /\ CallCancel(f)
          /\ jobs' = jobs \ {j}
          /\ canc' = [canc EXCEPT ![f] = "commit"]
          /\ UNCHANGED target
    BY DEF CancelWaiting
  <1>2. /\ UNCHANGED <<futures, delegates, thread, event, now, placing, shut, target>>
        /\ state[f] = "pending" /\ Unlocked(f)
        /\ cancels' = [cancels EXCEPT ![f] = @ + 1]
        /\ canc'[f] = "commit"
        /\ \A g \in Futures :
             g # f => canc'[g] = canc[g] /\ cancels'[g] = cancels[g]
        /\ \A k \in jobs : k.fut = f => k = j
    BY <1>1 DEF CallCancel, TypeOK, JobsInv
  <1>3. \A k \in jobs : k.fut # f => k \in jobs'
    BY <1>1
  <1>4. TypeOK'
    <2>1. cancels' \in [Futures -> Nat]
      BY <1>2 DEF TypeOK
    <2>2. QED
      BY <1>1, <1>2, <2>1 DEF TypeOK
  <1>5. JobsInv'
    <2>1. \A k \in jobs' : k \in jobs /\ k.fut \in Futures /\ k.fut # f
      BY <1>1, <1>2 DEF TypeOK, Job
    <2>2. QED
      BY <1>2, <2>1 DEF JobsInv, JobInv, Ended
  <1>6. AttemptsInv'
    <2>1. \A g \in Futures, m \in Numbers : Listed(g, m) => Listed(g, m)'
      BY <1>1, <1>2 DEF Listed
    <2>2. QED
      BY <1>2, <2>1 DEF AttemptsInv, Future, Past, Latest
  <1>7. CancelInv'
    BY <1>1, <1>2 DEF CancelInv
  <1>8. SubmitInv'
    <2>1. sub \in {"picked", "copy"} => sel.fut \in Futures
      BY DEF SubmitInv, Job
    <2>2. sub = "picked" /\ sel \in jobs /\ sel \notin jobs' => sel.fut = f
      BY <1>1
    <2>3. QED
      BY <1>1, <1>2, <2>1, <2>2 DEF SubmitInv, Ended
  <1>9. QED
    BY <1>4, <1>5, <1>6, <1>7, <1>8

\* cancel() that finds a running job replaces it by one that stops retries.
LEMMA CancelRunningKeeps ==
  ASSUME IInv, NEW f \in Futures, CancelRunning(f)
  PROVE  IInv'
  <1>1. PICK j \in jobs :
          /\ j.fut = f /\ j.running
          /\ CallCancel(f)
          /\ jobs' = (jobs \ {j}) \cup {[j EXCEPT !.stop = TRUE]}
          /\ canc' = [canc EXCEPT ![f] = "delegate"]
          /\ target' = [target EXCEPT ![f] = j.attempt]
    BY DEF CancelRunning
  <1> DEFINE s == [j EXCEPT !.stop = TRUE]
  <1>2. /\ s \in Job
        /\ s.fut = f /\ s.attempt = j.attempt /\ s.running /\ s.stop
    <2>1. j \in Job
      BY DEF TypeOK
    <2>2. QED
      BY <1>1, <2>1 DEF Job
  <1>3. /\ j.attempt = tries[f] /\ j.attempt > 0 /\ tries[f] \in 0..MaxAttempts
        /\ \A k \in jobs : k.fut = f => k = j
    BY <1>1 DEF JobsInv, JobInv, TypeOK
  <1>4. \A k \in jobs' : k = s \/ (k \in jobs /\ k.fut # f)
    BY <1>1, <1>3
  <1>5. \A k \in jobs : k = j \/ (k \in jobs' /\ k.fut # f)
    BY <1>1, <1>3
  <1>6. /\ UNCHANGED <<futures, delegates, thread, event, now, placing, shut>>
        /\ state[f] = "pending" /\ Unlocked(f)
        /\ cancels' = [cancels EXCEPT ![f] = @ + 1]
        /\ canc'[f] = "delegate" /\ target'[f] = tries[f]
        /\ \A g \in Futures :
             g # f => /\ canc'[g] = canc[g] /\ target'[g] = target[g]
                      /\ cancels'[g] = cancels[g]
    BY <1>1, <1>3 DEF CallCancel, TypeOK
  <1> HIDE DEF s
  <1>7. TypeOK'
    <2>1. jobs' \subseteq Job
      BY <1>2, <1>4 DEF TypeOK
    <2>2. /\ target' \in [Futures -> 0..MaxAttempts]
          /\ canc' \in [Futures -> {"idle", "delegate", "commit", "refused",
                                    "orphan"}]
      BY <1>1, <1>3 DEF TypeOK
    <2>3. cancels' \in [Futures -> Nat]
      BY <1>6 DEF TypeOK
    <2>4. QED
      BY <1>6, <2>1, <2>2, <2>3 DEF TypeOK
  <1>8. JobsInv'
    <2>1. \A k, l \in jobs' : k.fut = l.fut => k = l
      BY <1>2, <1>4 DEF JobsInv
    <2>2. JobInv(s)'
      BY <1>1, <1>2, <1>3, <1>6 DEF JobsInv, JobInv, Ended, TypeOK
    <2>3. \A k \in jobs : k.fut # f => JobInv(k)'
      BY <1>1, <1>6 DEF JobsInv, JobInv, Ended, TypeOK, Job
    <2>4. QED
      BY <1>4, <2>1, <2>2, <2>3 DEF JobsInv
  <1>9. AttemptsInv'
    <2>1. \A g \in Futures, m \in Numbers : Listed(g, m) => Listed(g, m)'
      BY <1>1, <1>2, <1>5 DEF Listed, s
    <2>2. QED
      BY <1>6, <2>1 DEF AttemptsInv, Future, Past, Latest
  <1>10. CancelInv'
    <2>1. \A g \in Futures :
            (\A k \in jobs : k.fut # g) => g # f /\ \A k \in jobs' : k.fut # g
      BY <1>1, <1>2, <1>4
    <2>2. QED
      BY <1>3, <1>6, <2>1 DEF CancelInv
  <1>11. SubmitInv'
    <2>1. sub = "picked" /\ sel \in jobs => sel \in jobs'
      BY <1>1, <1>5 DEF SubmitInv
    <2>2. \A g \in Futures :
            (\A k \in jobs : k.fut # g) => g # f /\ \A k \in jobs' : k.fut # g
      BY <1>1, <1>2, <1>4
    <2>3. sub \in {"picked", "copy"} => sel.fut \in Futures
      BY DEF SubmitInv, Job
    <2>4. canc[f] # "commit" /\ state[f] \notin Settled
      BY <1>6
    <2>5. QED
      BY <1>6, <2>1, <2>2, <2>3, <2>4 DEF SubmitInv, Ended
  <1>12. QED
    BY <1>7, <1>8, <1>9, <1>10, <1>11

\* cancel() that finds no job decides nothing.
LEMMA CancelOrphanKeeps ==
  ASSUME IInv, NEW f \in Futures, CancelOrphan(f)
  PROVE  IInv'
  <1> USE DEF CancelOrphan, CallCancel
  <1>1. TypeOK'
    BY DEF TypeOK
  <1>2. JobsInv'
    BY DEF JobsInv, JobInv, Ended
  <1>3. AttemptsInv'
    BY DEF AttemptsInv, Future, Past, Latest, Listed
  <1>4. CancelInv'
    BY DEF CancelInv
  <1>5. SubmitInv'
    BY DEF SubmitInv, Ended
  <1>6. QED
    BY <1>1, <1>2, <1>3, <1>4, <1>5

\* cancel() that cancels the delegate future: it is the latest one.
LEMMA CancelDelegateKeeps ==
  ASSUME IInv, NEW f \in Futures, CancelDelegate(f)
  PROVE  IInv'
  <1> DEFINE n == target[f]
  <1>1. /\ canc[f] = "delegate" /\ state[f] = "pending"
        /\ dstate[f][n] \in {"live", "cancelled"}
        /\ n \in Numbers /\ n <= tries[f]
    BY DEF CancelDelegate, CancelInv, TypeOK
  <1>2. n = tries[f]
    <2>1. ~(n < tries[f])
      BY <1>1 DEF AttemptsInv, Past
    <2>2. QED
      BY <1>1, <2>1 DEF TypeOK
  <1>3. /\ UNCHANGED <<state, tries, sub, sel, cancels, jobs, event, now,
                       placing, shut>>
        /\ dstate' = [dstate EXCEPT ![f][n] = "cancelled"]
        /\ cb' = [cb EXCEPT ![f][n] = IF @ = "armed" THEN "done" ELSE @]
        /\ link' = [link EXCEPT ![f] = 0]
        /\ canc' = [canc EXCEPT ![f] = "commit"]
        /\ target' = [target EXCEPT ![f] = 0]
    BY DEF CancelDelegate, thread
  <1> HIDE DEF n
  <1>4. TypeOK'
    <2>1. /\ dstate' \in [Futures -> [Numbers -> {"none", "live"} \cup Settled]]
          /\ cb' \in [Futures -> [Numbers -> {"none", "armed", "find", "retry", "rewake",
                                              "final", "pop", "done"}]]
      BY <1>1, <1>3 DEF TypeOK
    <2>2. /\ link' \in [Futures -> 0..MaxAttempts]
          /\ target' \in [Futures -> 0..MaxAttempts]
          /\ canc' \in [Futures -> {"idle", "delegate", "commit", "refused", "orphan"}]
      BY <1>3 DEF TypeOK
    <2>3. QED
      BY <1>3, <2>1, <2>2 DEF TypeOK
  <1>5. /\ dstate'[f][n] = "cancelled"
        /\ cb'[f][n] = IF cb[f][n] = "armed" THEN "done" ELSE cb[f][n]
        /\ \A g \in Futures, m \in Numbers :
             g # f \/ m # n => /\ dstate'[g][m] = dstate[g][m]
                               /\ cb'[g][m] = cb[g][m]
        /\ canc'[f] = "commit" /\ target'[f] = 0
        /\ \A g \in Futures :
             g # f => canc'[g] = canc[g] /\ target'[g] = target[g] /\ link'[g] = link[g]
    BY <1>1, <1>3 DEF TypeOK
  <1>6. \A j \in jobs : j.fut = f => j.running
    BY <1>1, <1>2 DEF JobsInv, JobInv, Ended
  <1>7. JobsInv'
    <2>1. \A j \in jobs : JobInv(j)'
      BY <1>1, <1>3, <1>5, <1>6 DEF JobsInv, JobInv, Ended, TypeOK, Job
    <2>2. QED
      BY <1>3, <2>1 DEF JobsInv
  <1>8. AttemptsInv'
    <2>1. ASSUME NEW g \in Futures, NEW m \in Numbers, g # f
          PROVE  /\ m > tries'[g] => Future(g, m)'
                 /\ m < tries'[g] => Past(g, m)'
                 /\ m = tries'[g] => Latest(g, m)'
      BY <1>3, <1>5, <2>1 DEF AttemptsInv, Future, Past, Latest, Listed
    <2>2. ASSUME NEW m \in Numbers
          PROVE  /\ m > tries'[f] => Future(f, m)'
                 /\ m < tries'[f] => Past(f, m)'
      BY <1>2, <1>3, <1>5 DEF AttemptsInv, Future, Past, TypeOK
    <2>3. ASSUME NEW m \in Numbers, m = n
          PROVE  Latest(f, m)'
      <3>1. Latest(f, m)
        BY <1>1, <1>2, <2>3 DEF AttemptsInv
      <3>2. QED
        BY <1>1, <1>3, <1>5, <2>3, <3>1 DEF Latest, Listed
    <2>4. QED
      BY <1>2, <1>3, <2>1, <2>2, <2>3 DEF AttemptsInv
  <1>9. CancelInv'
    BY <1>1, <1>2, <1>3, <1>5 DEF CancelInv, TypeOK
  <1>10. SubmitInv'
    <2>1. sub \in {"picked", "copy"} => sel.fut # f \/ sel.attempt # n
      BY <1>1, <1>2 DEF SubmitInv, Ended
    <2>2. sub = "submitted" => cb'[sel.fut][sel.attempt + 1] = "none"
      BY <1>5 DEF SubmitInv, Job
    <2>3. QED
      BY <1>1, <1>2, <1>3, <1>5, <2>1, <2>2 DEF SubmitInv, Ended, Job
  <1>11. QED
    BY <1>4, <1>7, <1>8, <1>9, <1>10

\* cancel() that the delegate future refuses decides nothing.
LEMMA CancelDelegateFailsKeeps ==
  ASSUME IInv, NEW f \in Futures, CancelDelegateFails(f)
  PROVE  IInv'
  <1> USE DEF CancelDelegateFails
  <1>1. TypeOK'
    BY DEF TypeOK
  <1>2. JobsInv'
    BY DEF JobsInv, JobInv, Ended
  <1>3. AttemptsInv'
    BY DEF AttemptsInv, Future, Past, Latest, Listed
  <1>4. CancelInv'
    BY DEF CancelInv, TypeOK, Job
  <1>5. SubmitInv'
    BY DEF SubmitInv, Ended
  <1>6. QED
    BY <1>1, <1>2, <1>3, <1>4, <1>5

\* cancel() that was refused wakes the submit thread.
LEMMA CancelReturnsFalseKeeps ==
  ASSUME IInv, NEW f \in Futures, CancelReturnsFalse(f)
  PROVE  IInv'
  <1> USE DEF CancelReturnsFalse
  <1>1. TypeOK'
    BY DEF TypeOK
  <1>2. JobsInv'
    BY DEF JobsInv, JobInv, Ended
  <1>3. AttemptsInv'
    BY DEF AttemptsInv, Future, Past, Latest, Listed
  <1>4. CancelInv'
    BY DEF CancelInv
  <1>5. SubmitInv'
    BY DEF SubmitInv, Ended
  <1>6. QED
    BY <1>1, <1>2, <1>3, <1>4, <1>5

\* cancel() settles the future: nothing goes on behind it.
LEMMA CancelReturnsTrueKeeps ==
  ASSUME IInv, NEW f \in Futures, CancelReturnsTrue(f)
  PROVE  IInv'
  <1> USE DEF CancelReturnsTrue
  <1>1. TypeOK'
    BY DEF TypeOK
  <1>2. JobsInv'
    BY DEF JobsInv, JobInv, Ended
  <1>3. AttemptsInv'
    <2>1. /\ state[f] = "pending"
          /\ \/ \A j \in jobs : j.fut # f
             \/ tries[f] > 0 /\ dstate[f][tries[f]] = "cancelled"
          /\ \A g \in Futures : g # f => state'[g] = state[g]
      BY DEF CancelInv, TypeOK
    <2>2. ASSUME NEW n \in Numbers, n = tries[f]
          PROVE  Latest(f, n)'
      <3>1. Latest(f, n)
        BY <2>2 DEF AttemptsInv
      <3>2. CASE \A j \in jobs : j.fut # f
        <4>1. ~Listed(f, n)
          BY <3>2 DEF Listed
        <4>2. cb[f][n] \in {"rewake", "done"}
          BY <3>1, <4>1 DEF Latest
        <4>3. QED
          BY <3>1, <4>2 DEF Latest, Listed
      <3>3. CASE dstate[f][n] = "cancelled"
        BY <2>1, <3>1, <3>3 DEF Latest, Listed
      <3>4. QED
        BY <2>1, <2>2, <3>2, <3>3
    <2>3. ASSUME NEW n \in Numbers
          PROVE  /\ n > tries'[f] => Future(f, n)'
                 /\ n < tries'[f] => Past(f, n)'
      BY DEF AttemptsInv, Future, Past
    <2>4. ASSUME NEW g \in Futures, NEW n \in Numbers, g # f
          PROVE  /\ n > tries'[g] => Future(g, n)'
                 /\ n < tries'[g] => Past(g, n)'
                 /\ n = tries'[g] => Latest(g, n)'
      BY <2>1, <2>4 DEF AttemptsInv, Future, Past, Latest, Listed
    <2>5. tries' = tries
      OBVIOUS
    <2>6. QED
      BY <2>2, <2>3, <2>4, <2>5 DEF AttemptsInv
  <1>4. CancelInv'
    BY DEF CancelInv, TypeOK, Job
  <1>5. SubmitInv'
    BY DEF SubmitInv, Ended, TypeOK, Job
  <1>6. QED
    BY <1>1, <1>2, <1>3, <1>4, <1>5

-----------------------------------------------------------------------------
(* Delegate futures and their callbacks keep the invariant *)

\* A delegate future finishes.
LEMMA DelegateFinishKeeps ==
  ASSUME IInv, NEW f \in Futures, NEW n \in Numbers, DelegateFinish(f, n)
  PROVE  IInv'
  <1>1. PICK o \in Outcomes :
          /\ dstate[f][n] = "live"
          /\ dstate' = [dstate EXCEPT ![f][n] = o]
          /\ cb' = [cb EXCEPT ![f][n] = IF @ = "armed" THEN "find" ELSE @]
          /\ UNCHANGED <<futures, tries, thread, cancelling, jobs, event, now,
                         placing, shut>>
    BY DEF DelegateFinish
  <1>2. /\ dstate'[f][n] = o
        /\ cb'[f][n] = IF cb[f][n] = "armed" THEN "find" ELSE cb[f][n]
        /\ \A g \in Futures, m \in Numbers :
             g # f \/ m # n => dstate'[g][m] = dstate[g][m] /\ cb'[g][m] = cb[g][m]
    BY <1>1 DEF TypeOK
  <1>3. n = tries[f] /\ Latest(f, n)
    BY <1>1, LiveIsLatest
  <1>4. TypeOK'
    BY <1>1 DEF TypeOK
  <1>5. JobsInv'
    <2>1. \A j \in jobs : j.fut = f => j.running
      BY <1>1, <1>3 DEF JobsInv, JobInv, Ended
    <2>2. \A j \in jobs : JobInv(j)'
      BY <1>1, <1>2, <2>1 DEF JobsInv, JobInv, Ended, TypeOK, Job
    <2>3. QED
      BY <1>1, <2>2 DEF JobsInv
  <1>6. AttemptsInv'
    <2>1. Latest(f, n)'
      BY <1>1, <1>2, <1>3 DEF Latest, Listed
    <2>2. ASSUME NEW m \in Numbers, m # n
          PROVE  /\ m > tries'[f] => Future(f, m)'
                 /\ m < tries'[f] => Past(f, m)'
      BY <1>1, <1>2, <2>2 DEF AttemptsInv, Future, Past
    <2>3. ASSUME NEW g \in Futures, NEW m \in Numbers, g # f
          PROVE  /\ m > tries'[g] => Future(g, m)'
                 /\ m < tries'[g] => Past(g, m)'
                 /\ m = tries'[g] => Latest(g, m)'
      BY <1>1, <1>2, <2>3 DEF AttemptsInv, Future, Past, Latest, Listed
    <2>4. QED
      BY <1>1, <1>3, <2>1, <2>2, <2>3 DEF AttemptsInv, TypeOK
  <1>7. CancelInv'
    <2>1. \A g \in Futures :
            tries[g] > 0 /\ dstate[g][tries[g]] = "cancelled" =>
              dstate'[g][tries[g]] = "cancelled"
      BY <1>1, <1>2, <1>3 DEF TypeOK
    <2>2. QED
      BY <1>1, <2>1 DEF CancelInv
  <1>8. SubmitInv'
    <2>1. sub = "submitted" => cb'[sel.fut][sel.attempt + 1] = "none"
      BY <1>1, <1>2 DEF SubmitInv, Job
    <2>2. QED
      BY <1>1, <1>2, <2>1 DEF SubmitInv, Ended, Job
  <1>9. QED
    BY <1>4, <1>5, <1>6, <1>7, <1>8

\* A delegate future is cancelled behind the back of the executor.
LEMMA DelegateCancelledElsewhereKeeps ==
  ASSUME IInv, NEW f \in Futures, NEW n \in Numbers,
         DelegateCancelledElsewhere(f, n)
  PROVE  IInv'
  <1>1. /\ dstate[f][n] = "live"
        /\ dstate' = [dstate EXCEPT ![f][n] = "cancelled"]
        /\ cb' = [cb EXCEPT ![f][n] = IF @ = "armed" THEN "find" ELSE @]
        /\ UNCHANGED <<futures, tries, thread, cancelling, jobs, event, now,
                       placing, shut>>
    BY DEF DelegateCancelledElsewhere
  <1>2. /\ dstate'[f][n] = "cancelled"
        /\ cb'[f][n] = IF cb[f][n] = "armed" THEN "find" ELSE cb[f][n]
        /\ \A g \in Futures, m \in Numbers :
             g # f \/ m # n => dstate'[g][m] = dstate[g][m] /\ cb'[g][m] = cb[g][m]
    BY <1>1 DEF TypeOK
  <1>3. n = tries[f] /\ Latest(f, n)
    BY <1>1, LiveIsLatest
  <1>4. TypeOK'
    BY <1>1 DEF TypeOK
  <1>5. JobsInv'
    <2>1. \A j \in jobs : j.fut = f => j.running
      BY <1>1, <1>3 DEF JobsInv, JobInv, Ended
    <2>2. \A j \in jobs : JobInv(j)'
      BY <1>1, <1>2, <2>1 DEF JobsInv, JobInv, Ended, TypeOK, Job
    <2>3. QED
      BY <1>1, <2>2 DEF JobsInv
  <1>6. AttemptsInv'
    <2>1. Latest(f, n)'
      BY <1>1, <1>2, <1>3 DEF Latest, Listed
    <2>2. ASSUME NEW m \in Numbers, m # n
          PROVE  /\ m > tries'[f] => Future(f, m)'
                 /\ m < tries'[f] => Past(f, m)'
      BY <1>1, <1>2, <2>2 DEF AttemptsInv, Future, Past
    <2>3. ASSUME NEW g \in Futures, NEW m \in Numbers, g # f
          PROVE  /\ m > tries'[g] => Future(g, m)'
                 /\ m < tries'[g] => Past(g, m)'
                 /\ m = tries'[g] => Latest(g, m)'
      BY <1>1, <1>2, <2>3 DEF AttemptsInv, Future, Past, Latest, Listed
    <2>4. QED
      BY <1>1, <1>3, <2>1, <2>2, <2>3 DEF AttemptsInv, TypeOK
  <1>7. CancelInv'
    BY <1>1, <1>2 DEF CancelInv, TypeOK
  <1>8. SubmitInv'
    <2>1. sub = "submitted" => cb'[sel.fut][sel.attempt + 1] = "none"
      BY <1>1, <1>2 DEF SubmitInv, Job
    <2>2. QED
      BY <1>1, <1>2, <2>1 DEF SubmitInv, Ended, Job
  <1>9. QED
    BY <1>4, <1>5, <1>6, <1>7, <1>8

\* _delegate_callback finds the job and decides.
LEMMA CallbackFindKeeps ==
  ASSUME IInv, NEW f \in Futures, NEW n \in Numbers, CallbackFind(f, n)
  PROVE  IInv'
  <1>1. PICK j \in jobs :
          /\ cb[f][n] = "find"
          /\ j.fut = f /\ j.attempt = n /\ j.running
          /\ \/ /\ dstate[f][n] = "cancelled"
                /\ cb' = [cb EXCEPT ![f][n] = "done"]
             \/ /\ MayRetry(j, dstate[f][n])
                /\ dstate[f][n] # "cancelled"
                /\ cb' = [cb EXCEPT ![f][n] = "retry"]
             \/ /\ dstate[f][n] # "cancelled"
                /\ cb' = [cb EXCEPT ![f][n] = "final"]
          /\ UNCHANGED <<futures, tries, dstate, thread, cancelling, jobs, event,
                         now, placing, shut>>
    BY DEF CallbackFind
  <1>2. PICK c \in {"done", "retry", "final"} :
          /\ cb' = [cb EXCEPT ![f][n] = c]
          /\ c = "done" <=> dstate[f][n] = "cancelled"
          /\ c = "retry" => n < MaxAttempts
    BY <1>1 DEF MayRetry
  <1>3. /\ cb'[f][n] = c
        /\ \A g \in Futures, m \in Numbers : g # f \/ m # n => cb'[g][m] = cb[g][m]
    BY <1>2 DEF TypeOK
  <1>4. TypeOK'
    BY <1>1, <1>2 DEF TypeOK
  <1>5. JobsInv'
    BY <1>1 DEF JobsInv, JobInv, Ended
  <1>6. AttemptsInv'
    <2>1. n = tries[f] /\ Latest(f, n)
      BY <1>1, CallbackIsLatest
    <2>2. Latest(f, n)'
      BY <1>1, <1>2, <1>3, <2>1 DEF Latest, Listed, TypeOK
    <2>3. ASSUME NEW m \in Numbers, m # n
          PROVE  /\ m > tries'[f] => Future(f, m)'
                 /\ m < tries'[f] => Past(f, m)'
      BY <1>1, <1>3, <2>3 DEF AttemptsInv, Future, Past
    <2>4. ASSUME NEW g \in Futures, NEW m \in Numbers, g # f
          PROVE  /\ m > tries'[g] => Future(g, m)'
                 /\ m < tries'[g] => Past(g, m)'
                 /\ m = tries'[g] => Latest(g, m)'
      BY <1>1, <1>3, <2>4 DEF AttemptsInv, Future, Past, Latest, Listed
    <2>5. \A m \in Numbers :
            /\ m > tries'[f] => Future(f, m)'
            /\ m < tries'[f] => Past(f, m)'
            /\ m = tries'[f] => Latest(f, m)'
      BY <1>1, <2>1, <2>2, <2>3
    <2>6. QED
      BY <2>4, <2>5 DEF AttemptsInv
  <1>7. CancelInv'
    BY <1>1 DEF CancelInv
  <1>8. SubmitInv'
    <2>1. sub = "submitted" => cb'[sel.fut][sel.attempt + 1] = "none"
      BY <1>1, <1>3 DEF SubmitInv, Job
    <2>2. QED
      BY <1>1, <2>1 DEF SubmitInv, Ended
  <1>9. QED
    BY <1>4, <1>5, <1>6, <1>7, <1>8

\* _retry replaces the running job by a waiting one.
LEMMA CallbackRetryKeeps ==
  ASSUME IInv, NEW f \in Futures, NEW n \in Numbers, CallbackRetry(f, n)
  PROVE  IInv'
  <1>1. PICK j \in jobs, sleep \in Sleeps :
          /\ cb[f][n] = "retry"
          /\ j.fut = f /\ j.attempt = n /\ j.running
          /\ jobs' = Popped(j) \cup {RetriedJob(j, sleep)}
          /\ cb' = [cb EXCEPT ![f][n] = "rewake"]
          /\ UNCHANGED <<futures, tries, dstate, thread, cancelling, event, now,
                         placing, shut>>
    BY DEF CallbackRetry
  <1>2. PICK r \in Job :
          /\ r = RetriedJob(j, sleep)
          /\ r.fut = f /\ r.attempt = n /\ ~r.running /\ r.stop = j.stop
    <2> DEFINE r == RetriedJob(j, sleep)
    <2>1. j \in Job /\ now + sleep \in Nat
      BY BoundsAssumption DEF TypeOK
    <2>2. r \in Job /\ r.fut = f /\ r.attempt = n /\ ~r.running /\ r.stop = j.stop
      BY <1>1, <2>1 DEF RetriedJob, Job
    <2> HIDE DEF r
    <2>3. QED
      BY <2>2 DEF r
  <1>3. /\ n = tries[f]
        /\ cancels[f] > 0 => r.stop
        /\ \A k \in jobs : k.fut = f => k = j
    BY <1>1, <1>2 DEF JobsInv, JobInv
  <1>4. /\ \A k \in jobs' : k = r \/ (k \in jobs /\ k.fut # f)
        /\ \A k \in jobs : k.fut # f => k \in jobs'
        /\ r \in jobs'
    BY <1>1, <1>2, <1>3 DEF Popped
  <1>5. /\ dstate[f][n] \in Outcomes /\ state[f] = "pending" /\ n < MaxAttempts
        /\ canc[f] # "commit"
    <2>1. Latest(f, n)
      BY <1>1, CallbackIsLatest
    <2>2. dstate[f][n] \in Outcomes /\ state[f] = "pending" /\ n < MaxAttempts
      BY <1>1, <2>1 DEF Latest
    <2>3. QED
      BY <1>1, <1>3, <2>2 DEF CancelInv
  <1>6. /\ cb'[f][n] = "rewake"
        /\ \A g \in Futures, m \in Numbers : g # f \/ m # n => cb'[g][m] = cb[g][m]
    BY <1>1 DEF TypeOK
  <1>7. TypeOK'
    <2>1. jobs' \subseteq Job
      BY <1>2, <1>4 DEF TypeOK
    <2>2. QED
      BY <1>1, <2>1 DEF TypeOK
  <1>8. JobsInv'
    <2>1. \A k, l \in jobs' : k.fut = l.fut => k = l
      BY <1>2, <1>4 DEF JobsInv
    <2>2. JobInv(r)'
      BY <1>1, <1>2, <1>3, <1>5 DEF JobInv, Ended
    <2>3. \A k \in jobs : JobInv(k)'
      BY <1>1 DEF JobsInv, JobInv, Ended
    <2>4. QED
      BY <1>4, <2>1, <2>2, <2>3 DEF JobsInv
  <1>9. AttemptsInv'
    <2>1. \A g \in Futures, m \in Numbers : g # f /\ Listed(g, m) => Listed(g, m)'
      BY <1>4 DEF Listed
    <2>2. Latest(f, n)'
      BY <1>1, <1>3, <1>5, <1>6 DEF Latest, TypeOK
    <2>3. ASSUME NEW m \in Numbers, m # n
          PROVE  /\ m > tries'[f] => Future(f, m)'
                 /\ m < tries'[f] => Past(f, m)'
      BY <1>1, <1>6, <2>3 DEF AttemptsInv, Future, Past
    <2>4. ASSUME NEW g \in Futures, NEW m \in Numbers, g # f
          PROVE  /\ m > tries'[g] => Future(g, m)'
                 /\ m < tries'[g] => Past(g, m)'
                 /\ m = tries'[g] => Latest(g, m)'
      BY <1>1, <1>6, <2>1, <2>4 DEF AttemptsInv, Future, Past, Latest
    <2>5. QED
      BY <1>1, <1>3, <2>2, <2>3, <2>4 DEF AttemptsInv, TypeOK
  <1>10. CancelInv'
    <2>1. \A g \in Futures : (\A k \in jobs : k.fut # g) => \A k \in jobs' : k.fut # g
      BY <1>1, <1>2, <1>4
    <2>2. QED
      BY <1>1, <2>1 DEF CancelInv
  <1>11. SubmitInv'
    <2>1. \A g \in Futures : (\A k \in jobs : k.fut # g) => \A k \in jobs' : k.fut # g
      BY <1>1, <1>2, <1>4
    <2>2. sub = "picked" /\ sel \in jobs => sel \in jobs'
      BY <1>1, <1>3, <1>4 DEF SubmitInv
    <2>3. sub = "submitted" => cb'[sel.fut][sel.attempt + 1] = "none"
      BY <1>1, <1>6 DEF SubmitInv, Job
    <2>4. sub \in {"picked", "copy"} => sel.fut \in Futures
      BY DEF SubmitInv, Job
    <2>5. QED
      BY <1>1, <2>1, <2>2, <2>3, <2>4 DEF SubmitInv, Ended
  <1>12. QED
    BY <1>7, <1>8, <1>9, <1>10, <1>11

\* _retry wakes the submit thread.
LEMMA CallbackWakeKeeps ==
  ASSUME IInv, NEW f \in Futures, NEW n \in Numbers, CallbackWake(f, n)
  PROVE  IInv'
  <1> USE DEF CallbackWake
  <1>1. TypeOK'
    BY DEF TypeOK
  <1>2. JobsInv'
    BY DEF JobsInv, JobInv, Ended
  <1>3. AttemptsInv'
    BY DEF AttemptsInv, Future, Past, Latest, Listed
  <1>4. CancelInv'
    BY DEF CancelInv
  <1>5. SubmitInv'
    BY DEF SubmitInv, Ended
  <1>6. QED
    BY <1>1, <1>2, <1>3, <1>4, <1>5

\* copy_future settles the future, whose job is still listed.
LEMMA CallbackSettleKeeps ==
  ASSUME IInv, NEW f \in Futures, NEW n \in Numbers, CallbackSettle(f, n)
  PROVE  IInv'
  <1>1. /\ cb[f][n] = "final" /\ Unlocked(f) /\ state[f] = "pending"
        /\ state' = [state EXCEPT ![f] = dstate[f][n]]
        /\ link' = [link EXCEPT ![f] = 0]
        /\ cb' = [cb EXCEPT ![f][n] = "pop"]
        /\ UNCHANGED <<tries, dstate, thread, cancelling, jobs, event, now,
                       placing, shut>>
    BY DEF CallbackSettle
  <1>2. n = tries[f]
    BY <1>1, CallbackIsLatest
  <1>3. Latest(f, n)
    BY <1>1, CallbackIsLatest
  <1>4. PICK j \in jobs : j.fut = f /\ j.attempt = n /\ j.running
    BY <1>1, <1>3 DEF Latest, Listed
  <1>5. \A k \in jobs : k.fut = f => k.running
    BY <1>4 DEF JobsInv
  <1>6. /\ dstate[f][n] \in Outcomes
        /\ state'[f] = dstate[f][n] /\ link'[f] = 0 /\ cb'[f][n] = "pop"
        /\ \A g \in Futures, m \in Numbers : g # f \/ m # n => cb'[g][m] = cb[g][m]
        /\ \A g \in Futures : g # f => state'[g] = state[g] /\ link'[g] = link[g]
    BY <1>1, <1>3 DEF Latest, TypeOK
  <1>7. TypeOK'
    <2>1. cb' \in [Futures -> [Numbers -> {"none", "armed", "find", "retry", "rewake",
                                           "final", "pop", "done"}]]
      BY <1>1 DEF TypeOK
    <2>2. /\ state' \in [Futures -> {"unborn", "pending"} \cup Settled]
          /\ link' \in [Futures -> 0..MaxAttempts]
      BY <1>1, <1>6 DEF TypeOK
    <2>3. QED
      BY <1>1, <2>1, <2>2 DEF TypeOK
  <1>8. JobsInv'
    <2>1. ASSUME NEW k \in jobs PROVE JobInv(k)'
      <3>1. k.fut \in Futures /\ JobInv(k)
        BY DEF TypeOK, Job, JobsInv
      <3>2. state'[k.fut] # "unborn" /\ (~k.running => state'[k.fut] = state[k.fut])
        BY <1>5, <1>6, <3>1 DEF JobInv
      <3>3. QED
        BY <1>1, <3>1, <3>2 DEF JobInv, Ended
    <2>2. QED
      BY <1>1, <2>1 DEF JobsInv
  <1>9. AttemptsInv'
    <2>1. Latest(f, n)'
      BY <1>1, <1>3, <1>4, <1>6 DEF Latest, Listed
    <2>2. ASSUME NEW m \in Numbers, m # n
          PROVE  /\ m > tries'[f] => Future(f, m)'
                 /\ m < tries'[f] => Past(f, m)'
      BY <1>1, <1>6, <2>2 DEF AttemptsInv, Future, Past
    <2>3. ASSUME NEW g \in Futures, NEW m \in Numbers, g # f
          PROVE  /\ m > tries'[g] => Future(g, m)'
                 /\ m < tries'[g] => Past(g, m)'
                 /\ m = tries'[g] => Latest(g, m)'
      BY <1>1, <1>6, <2>3 DEF AttemptsInv, Future, Past, Latest, Listed
    <2>4. QED
      BY <1>1, <1>2, <2>1, <2>2, <2>3 DEF AttemptsInv, TypeOK
  <1>10. CancelInv'
    BY <1>1, <1>6 DEF CancelInv
  <1>11. SubmitInv'
    <2>1. sub = "submitted" => cb'[sel.fut][sel.attempt + 1] = "none"
      BY <1>1, <1>6 DEF SubmitInv, Job
    <2>2. sub \in {"picked", "copy"} => sel.fut \in Futures
      BY DEF SubmitInv, Job
    <2>3. QED
      BY <1>1, <1>6, <2>1, <2>2 DEF SubmitInv, Ended
  <1>12. QED
    BY <1>7, <1>8, <1>9, <1>10, <1>11

\* The callback takes away the job of the attempt, and no other.
LEMMA CallbackPopKeeps ==
  ASSUME IInv, NEW f \in Futures, NEW n \in Numbers, CallbackPop(f, n)
  PROVE  IInv'
  <1>1. /\ cb[f][n] = "pop"
        /\ jobs' = {j \in jobs : ~(j.fut = f /\ j.attempt = n /\ j.running)}
        /\ cb' = [cb EXCEPT ![f][n] = "done"]
        /\ UNCHANGED <<futures, tries, dstate, thread, cancelling, event, now,
                       placing, shut>>
    BY DEF CallbackPop
  <1>2. /\ cb'[f][n] = "done"
        /\ \A g \in Futures, m \in Numbers : g # f \/ m # n => cb'[g][m] = cb[g][m]
    BY <1>1 DEF TypeOK
  <1>3. TypeOK'
    BY <1>1 DEF TypeOK
  <1>4. JobsInv'
    BY <1>1 DEF JobsInv, JobInv, Ended
  <1>5. AttemptsInv'
    <2>1. \A g \in Futures, m \in Numbers :
            (g # f \/ m # n) /\ Listed(g, m) => Listed(g, m)'
      BY <1>1 DEF Listed
    <2>2. n = tries[f] /\ Latest(f, n)
      BY <1>1, CallbackIsLatest
    <2>3. Latest(f, n)'
      BY <1>1, <1>2, <2>2 DEF Latest
    <2>4. ASSUME NEW m \in Numbers, m # n
          PROVE  /\ m > tries'[f] => Future(f, m)'
                 /\ m < tries'[f] => Past(f, m)'
      BY <1>1, <1>2, <2>4 DEF AttemptsInv, Future, Past
    <2>5. ASSUME NEW g \in Futures, NEW m \in Numbers, g # f
          PROVE  /\ m > tries'[g] => Future(g, m)'
                 /\ m < tries'[g] => Past(g, m)'
                 /\ m = tries'[g] => Latest(g, m)'
      BY <1>1, <1>2, <2>1, <2>5 DEF AttemptsInv, Future, Past, Latest
    <2>6. QED
      BY <1>1, <2>2, <2>3, <2>4, <2>5 DEF AttemptsInv, TypeOK
  <1>6. CancelInv'
    BY <1>1 DEF CancelInv
  <1>7. SubmitInv'
    <2>1. sub = "submitted" => cb'[sel.fut][sel.attempt + 1] = "none"
      BY <1>1, <1>2 DEF SubmitInv, Job
    <2>2. sub = "picked" /\ sel \in jobs => sel \in jobs'
      BY <1>1 DEF SubmitInv
    <2>3. QED
      BY <1>1, <2>1, <2>2 DEF SubmitInv, Ended
  <1>8. QED
    BY <1>3, <1>4, <1>5, <1>6, <1>7

-----------------------------------------------------------------------------
(* The submit thread keeps the invariant *)

\* _get_next_job answers a waiting job of the list.
LEMMA ScanPicksKeeps ==
  ASSUME IInv, ScanPicks
  PROVE  IInv'
  <1>1. sel' \in jobs /\ ~sel'.running
    BY DEF ScanPicks, NextJobs
  <1>2. /\ sub = "scan" /\ sub' = "picked"
        /\ UNCHANGED <<futures, delegates, cancelling, jobs, event, now, placing, shut>>
    BY DEF ScanPicks
  <1>3. TypeOK'
    BY <1>1, <1>2 DEF TypeOK
  <1>4. JobsInv'
    BY <1>2 DEF JobsInv, JobInv, Ended
  <1>5. AttemptsInv'
    BY <1>2 DEF AttemptsInv, Future, Past, Latest, Listed
  <1>6. CancelInv'
    BY <1>2 DEF CancelInv
  <1>7. SubmitInv'
    BY <1>1, <1>2 DEF SubmitInv, Ended, TypeOK, Job, JobsInv, JobInv
  <1>8. QED
    BY <1>3, <1>4, <1>5, <1>6, <1>7

\* The submit thread settles the future of a job it has discarded.
LEMMA CopyOutcomeKeeps ==
  ASSUME IInv, CopyOutcome
  PROVE  IInv'
  <1> DEFINE f == sel.fut  n == sel.attempt
  <1>1. /\ sub = "copy" /\ Unlocked(f) /\ state[f] = "pending"
        /\ state' = [state EXCEPT ![f] = dstate[f][n]]
        /\ link' = [link EXCEPT ![f] = 0]
        /\ sub' = "top" /\ sel' = NoJob
        /\ UNCHANGED <<delegates, cancelling, jobs, event, now, placing, shut>>
    BY DEF CopyOutcome
  <1>2. /\ sel \in Job /\ f \in Futures /\ n = tries[f] /\ n > 0
        /\ dstate[f][n] \in Outcomes
        /\ \A j \in jobs : j.fut # f
    BY <1>1 DEF SubmitInv, Ended, Job
  <1> HIDE DEF f, n
  <1>3. /\ state'[f] = dstate[f][n] /\ link'[f] = 0
        /\ \A g \in Futures : g # f => state'[g] = state[g] /\ link'[g] = link[g]
    BY <1>1, <1>2 DEF TypeOK
  <1>4. TypeOK'
    BY <1>1, <1>2 DEF TypeOK
  <1>5. JobsInv'
    <2>1. \A j \in jobs : j.fut \in Futures /\ state'[j.fut] = state[j.fut]
      BY <1>2, <1>3 DEF TypeOK, Job
    <2>2. QED
      BY <1>1, <2>1 DEF JobsInv, JobInv, Ended
  <1>6. AttemptsInv'
    <2>1. \A m \in Numbers : ~Listed(f, m)
      BY <1>2 DEF Listed
    <2>2. QED
      BY <1>1, <1>2, <1>3, <2>1 DEF AttemptsInv, Future, Past, Latest, Listed
  <1>7. CancelInv'
    <2>1. \A g \in Futures : ~Unlocked(g) => state'[g] = state[g]
      BY <1>1, <1>3
    <2>2. \A g \in Futures : state'[g] = "unborn" => state[g] = "unborn"
      BY <1>1, <1>2, <1>3
    <2>3. QED
      BY <1>1, <2>1, <2>2 DEF CancelInv
  <1>8. SubmitInv'
    BY <1>1 DEF SubmitInv
  <1>9. QED
    BY <1>4, <1>5, <1>6, <1>7, <1>8

\* The submit thread finds the future of a discarded job cancelled.
LEMMA CopyMeetsCancelledKeeps ==
  ASSUME IInv, CopyMeetsCancelled
  PROVE  IInv'
  <1>1. /\ sub = "copy" /\ sel \in Job /\ sel.attempt = tries[sel.fut]
        /\ sel.attempt > 0 /\ Ended(sel.fut, sel.attempt)
    BY DEF CopyMeetsCancelled, SubmitInv
  <1> PICK f \in Futures : f = sel.fut
    BY <1>1 DEF Job
  <1>2. /\ link' = [link EXCEPT ![f] = 0]
        /\ sub' \in {"top", "dead"} /\ sel' = NoJob
        /\ UNCHANGED <<state, delegates, cancelling, jobs, event, now, placing,
                       shut>>
    BY DEF CopyMeetsCancelled
  <1>3. /\ dstate[f][tries[f]] # "live"
        /\ \A g \in Futures : g # f => link'[g] = link[g]
    BY <1>1, <1>2 DEF Ended, TypeOK
  <1>4. TypeOK'
    BY <1>2 DEF TypeOK
  <1>5. JobsInv'
    BY <1>2 DEF JobsInv, JobInv, Ended
  <1>6. AttemptsInv'
    BY <1>1, <1>2, <1>3 DEF AttemptsInv, Future, Past, Latest, Listed
  <1>7. CancelInv'
    BY <1>2 DEF CancelInv
  <1>8. SubmitInv'
    BY <1>2 DEF SubmitInv
  <1>9. QED
    BY <1>4, <1>5, <1>6, <1>7, <1>8

\* _submit_now makes the next delegate future of a waiting job.
LEMMA SubmitNowKeeps ==
  ASSUME IInv, SubmitNow
  PROVE  IInv'
  <1>0. /\ sub = "picked" /\ sel \in Job /\ sel.attempt < MaxAttempts
        /\ ~sel.running /\ sel.attempt = tries[sel.fut]
        /\ Ended(sel.fut, sel.attempt)
    BY DEF SubmitNow, Ready, SubmitInv
  <1> PICK f \in Futures, n \in Numbers : f = sel.fut /\ n = sel.attempt + 1
    BY <1>0 DEF Job
  <1>1. /\ sub = "picked" /\ ~sel.stop /\ Unlocked(f) /\ state[f] = "pending"
        /\ tries' = [tries EXCEPT ![f] = n]
        /\ link' = [link EXCEPT ![f] = n]
        /\ dstate' = [dstate EXCEPT ![f][n] = "live"]
        /\ jobs' = (jobs \ {sel}) \cup {StartedJob(sel)}
        /\ sub' = "submitted"
        /\ UNCHANGED <<state, cb, sel, cancelling, event, now, placing, shut>>
    BY DEF SubmitNow, Ready, StartAttempt, Popped
  <1>2. /\ sel \in jobs /\ tries[f] = n - 1
        /\ Ended(f, n - 1)
    BY <1>0, <1>1 DEF SubmitInv, Job
  <1>3. /\ \A k \in jobs : k.fut = f => k = sel
        /\ cancels[f] = 0
    BY <1>1, <1>2 DEF JobsInv, JobInv, TypeOK
  <1>4. PICK s \in Job :
          /\ s = StartedJob(sel)
          /\ s.fut = f /\ s.attempt = n /\ s.running
    <2> DEFINE s == StartedJob(sel)
    <2>1. sel.attempt + 1 \in 0..MaxAttempts
      BY <1>0 DEF Job
    <2>2. s \in Job
      BY <1>0, <2>1 DEF StartedJob, Job
    <2>3. s.fut = sel.fut /\ s.attempt = sel.attempt + 1 /\ s.running
      BY <1>0 DEF StartedJob, Job
    <2> HIDE DEF s
    <2>4. QED
      BY <2>2, <2>3 DEF s
  <1>5. /\ \A k \in jobs' : k = s \/ (k \in jobs /\ k.fut # f)
        /\ \A k \in jobs : k.fut # f => k \in jobs'
        /\ s \in jobs'
    BY <1>1, <1>3, <1>4
  <1>6. /\ tries'[f] = n /\ link'[f] = n /\ dstate'[f][n] = "live"
        /\ \A g \in Futures : g # f => tries'[g] = tries[g] /\ link'[g] = link[g]
        /\ \A g \in Futures, m \in Numbers :
             g # f \/ m # n => dstate'[g][m] = dstate[g][m]
    <2>1. /\ tries \in [Futures -> 0..MaxAttempts] /\ link \in [Futures -> 0..MaxAttempts]
          /\ dstate \in [Futures -> [Numbers -> {"none", "live"} \cup Settled]]
      BY DEF TypeOK
    <2>2. /\ tries'[f] = n /\ link'[f] = n
          /\ \A g \in Futures : g # f => tries'[g] = tries[g] /\ link'[g] = link[g]
      BY <1>1, <2>1
    <2>3. /\ dstate'[f][n] = "live"
          /\ \A g \in Futures, m \in Numbers :
               g # f \/ m # n => dstate'[g][m] = dstate[g][m]
      BY <1>1, <2>1
    <2>4. QED
      BY <2>2, <2>3
  <1>7. cb[f][n] = "none"
    <2>1. n \in Int /\ n > tries[f]
      BY <1>2
    <2>2. Future(f, n)
      BY <2>1 DEF AttemptsInv
    <2>3. QED
      BY <2>2 DEF Future
  <1>8. TypeOK'
    <2>1. jobs' \subseteq Job
      BY <1>4, <1>5 DEF TypeOK
    <2>2. n \in 0..MaxAttempts
      OBVIOUS
    <2>3. tries' \in [Futures -> 0..MaxAttempts] /\ link' \in [Futures -> 0..MaxAttempts]
      BY <1>1, <2>2 DEF TypeOK
    <2>4. dstate' \in [Futures -> [Numbers -> {"none", "live"} \cup Settled]]
      BY <1>1 DEF TypeOK
    <2>5. QED
      BY <1>1, <2>1, <2>3, <2>4 DEF TypeOK
  <1>9. JobsInv'
    <2>1. \A k, l \in jobs' : k.fut = l.fut => k = l
      BY <1>4, <1>5 DEF JobsInv
    <2>2. JobInv(s)'
      BY <1>1, <1>2, <1>3, <1>4, <1>6 DEF JobInv
    <2>3. ASSUME NEW k \in jobs, k.fut # f PROVE JobInv(k)'
      <3>1. k.fut \in Futures /\ k.attempt \in 0..MaxAttempts /\ JobInv(k)
        BY DEF TypeOK, Job, JobsInv
      <3>2. /\ tries'[k.fut] = tries[k.fut]
            /\ k.attempt > 0 => dstate'[k.fut][k.attempt] = dstate[k.fut][k.attempt]
        BY <1>6, <2>3, <3>1
      <3>3. QED
        BY <1>1, <3>1, <3>2 DEF JobInv, Ended
    <2>4. QED
      BY <1>5, <2>1, <2>2, <2>3 DEF JobsInv
  <1>10. AttemptsInv'
    <2>1. Latest(f, n)'
      BY <1>1, <1>4, <1>5, <1>6, <1>7 DEF Latest, Listed
    <2>2. ASSUME NEW m \in Numbers, m > n
          PROVE  Future(f, m)'
      <3>1. m > tries[f] /\ m # n
        BY <1>2, <2>2
      <3>2. Future(f, m)
        BY <1>2, <3>1 DEF AttemptsInv
      <3>3. QED
        BY <1>1, <1>2, <1>6, <3>1, <3>2 DEF Future
    <2>3. ASSUME NEW m \in Numbers, m < n
          PROVE  Past(f, m)'
      <3> m # n
        BY <1>2, <2>3
      <3>1. CASE m < n - 1
        <4>1. Past(f, m)
          BY <1>2, <3>1 DEF AttemptsInv
        <4>2. QED
          BY <1>1, <1>2, <1>6, <4>1 DEF Past
      <3>2. CASE m = n - 1
        <4>1. ~Listed(f, m)
          BY <1>0, <1>3 DEF Listed
        <4>2. Latest(f, m) /\ dstate[f][m] \in Outcomes
          BY <1>2, <3>2 DEF AttemptsInv, Ended
        <4>3. cb[f][m] \in {"rewake", "done"}
          BY <4>1, <4>2 DEF Latest
        <4>4. QED
          BY <1>1, <1>2, <1>6, <2>3, <4>2, <4>3 DEF Past
      <3>3. QED
        BY <1>2, <2>3, <3>1, <3>2
    <2>4. ASSUME NEW g \in Futures, NEW m \in Numbers, g # f
          PROVE  /\ m > tries'[g] => Future(g, m)'
                 /\ m < tries'[g] => Past(g, m)'
                 /\ m = tries'[g] => Latest(g, m)'
      <3>1. Listed(g, m) => Listed(g, m)'
        BY <1>5, <2>4 DEF Listed
      <3>2. cb[g][m] = "none" => m # tries[g]
        BY <1>1 DEF AttemptsInv, Latest
      <3>3. QED
        BY <1>1, <1>6, <2>4, <3>1, <3>2 DEF AttemptsInv, Future, Past, Latest
    <2>5. \A m \in Numbers :
            /\ m > tries'[f] => Future(f, m)'
            /\ m < tries'[f] => Past(f, m)'
            /\ m = tries'[f] => Latest(f, m)'
      BY <1>6, <2>1, <2>2, <2>3
    <2>6. QED
      BY <2>4, <2>5 DEF AttemptsInv
  <1>11. CancelInv'
    <2>1. \A g \in Futures :
            g # f /\ (\A k \in jobs : k.fut # g) => \A k \in jobs' : k.fut # g
      BY <1>4, <1>5
    <2>2. \A g \in Futures :
            g # f /\ tries[g] > 0 /\ dstate[g][tries[g]] = "cancelled" =>
              tries'[g] > 0 /\ dstate'[g][tries'[g]] = "cancelled"
      BY <1>1, <1>6 DEF TypeOK
    <2>3. canc[f] \notin {"delegate", "commit"} /\ state[f] = "pending"
      BY <1>1
    <2>4. QED
      BY <1>1, <1>6, <2>1, <2>2, <2>3 DEF CancelInv
  <1>12. SubmitInv'
    BY <1>0, <1>1, <1>2, <1>6, <1>7 DEF SubmitInv, Job
  <1>13. QED
    BY <1>8, <1>9, <1>10, <1>11, <1>12

\* The callback is attached to a live delegate future.
LEMMA AttachCallbackKeeps ==
  ASSUME IInv, AttachCallback
  PROVE  IInv'
  <1>1. /\ sub = "submitted" /\ sel \in Job
        /\ tries[sel.fut] = sel.attempt + 1 /\ sel.attempt < MaxAttempts
    BY DEF AttachCallback, SubmitInv
  <1> PICK f \in Futures, n \in Numbers : f = sel.fut /\ n = sel.attempt + 1
    BY <1>1 DEF Job
  <1>2. /\ dstate[f][n] = "live" /\ n = tries[f]
        /\ cb' = [cb EXCEPT ![f][n] = "armed"]
        /\ event' = TRUE /\ sub' = "top" /\ sel' = NoJob
        /\ UNCHANGED <<futures, tries, dstate, cancelling, jobs, now, placing, shut>>
    BY <1>1 DEF AttachCallback
  <1>3. /\ cb'[f][n] = "armed"
        /\ \A g \in Futures, m \in Numbers : g # f \/ m # n => cb'[g][m] = cb[g][m]
    BY <1>2 DEF TypeOK
  <1>4. Latest(f, n)
    BY <1>2, LiveIsLatest
  <1>5. TypeOK'
    BY <1>2 DEF TypeOK
  <1>6. JobsInv'
    BY <1>2 DEF JobsInv, JobInv, Ended
  <1>7. AttemptsInv'
    <2>1. Latest(f, n)'
      BY <1>1, <1>2, <1>3, <1>4 DEF Latest, Listed, SubmitInv
    <2>2. ASSUME NEW m \in Numbers, m # n
          PROVE  /\ m > tries'[f] => Future(f, m)'
                 /\ m < tries'[f] => Past(f, m)'
      BY <1>2, <1>3, <2>2 DEF AttemptsInv, Future, Past
    <2>3. ASSUME NEW g \in Futures, NEW m \in Numbers, g # f
          PROVE  /\ m > tries'[g] => Future(g, m)'
                 /\ m < tries'[g] => Past(g, m)'
                 /\ m = tries'[g] => Latest(g, m)'
      BY <1>2, <1>3, <2>3 DEF AttemptsInv, Future, Past, Latest, Listed
    <2>4. QED
      BY <1>2, <2>1, <2>2, <2>3 DEF AttemptsInv, TypeOK
  <1>8. CancelInv'
    BY <1>2 DEF CancelInv
  <1>9. SubmitInv'
    BY <1>2 DEF SubmitInv
  <1>10. QED
    BY <1>5, <1>6, <1>7, <1>8, <1>9

\* The callback runs at once, on the submit thread.
LEMMA RunCallbackKeeps ==
  ASSUME IInv, RunCallback
  PROVE  IInv'
  <1>1. /\ sub = "submitted" /\ sel \in Job
        /\ tries[sel.fut] = sel.attempt + 1 /\ sel.attempt < MaxAttempts
        /\ cb[sel.fut][sel.attempt + 1] = "none"
    BY DEF RunCallback, SubmitInv
  <1> PICK f \in Futures, n \in Numbers : f = sel.fut /\ n = sel.attempt + 1
    BY <1>1 DEF Job
  <1>2. /\ dstate[f][n] # "live" /\ n = tries[f] /\ cb[f][n] = "none"
        /\ cb' = [cb EXCEPT ![f][n] = "find"]
        /\ sub' = "incallback"
        /\ UNCHANGED <<futures, tries, dstate, sel, cancelling, jobs, event, now,
                       placing, shut>>
    BY <1>1 DEF RunCallback
  <1>3. /\ cb'[f][n] = "find"
        /\ \A g \in Futures, m \in Numbers : g # f \/ m # n => cb'[g][m] = cb[g][m]
    BY <1>2 DEF TypeOK
  <1>4. Latest(f, n)
    BY <1>2 DEF AttemptsInv
  <1>5. TypeOK'
    BY <1>2 DEF TypeOK
  <1>6. JobsInv'
    BY <1>2 DEF JobsInv, JobInv, Ended
  <1>7. AttemptsInv'
    <2>1. Latest(f, n)'
      BY <1>1, <1>2, <1>3, <1>4 DEF Latest, Listed
    <2>2. ASSUME NEW m \in Numbers, m # n
          PROVE  /\ m > tries'[f] => Future(f, m)'
                 /\ m < tries'[f] => Past(f, m)'
      BY <1>2, <1>3, <2>2 DEF AttemptsInv, Future, Past
    <2>3. ASSUME NEW g \in Futures, NEW m \in Numbers, g # f
          PROVE  /\ m > tries'[g] => Future(g, m)'
                 /\ m < tries'[g] => Past(g, m)'
                 /\ m = tries'[g] => Latest(g, m)'
      BY <1>2, <1>3, <2>3 DEF AttemptsInv, Future, Past, Latest, Listed
    <2>4. QED
      BY <1>2, <2>1, <2>2, <2>3 DEF AttemptsInv, TypeOK
  <1>8. CancelInv'
    BY <1>2 DEF CancelInv
  <1>9. SubmitInv'
    BY <1>1, <1>2 DEF SubmitInv
  <1>10. QED
    BY <1>5, <1>6, <1>7, <1>8, <1>9

\* Every step of _submit_loop keeps the invariant.
LEMMA SubmitThreadKeeps == IInv /\ SubmitThread => IInv'
  <1> SUFFICES ASSUME IInv, SubmitThread PROVE IInv'
    OBVIOUS
  <1>1. CASE CheckShutdown
    <2>1. sel' \in Job \cup {NoJob} /\ event' \in BOOLEAN
      BY <1>1 DEF CheckShutdown, TypeOK
    <2>2. QED
      BY <1>1, <2>1, ThreadKeeps DEF CheckShutdown
  <1>2. CASE ScanPicks
    BY <1>2, ScanPicksKeeps
  <1>3. CASE ScanFindsNothing
    <2>1. sel' \in Job \cup {NoJob} /\ event' \in BOOLEAN
      BY <1>3 DEF ScanFindsNothing, TypeOK
    <2>2. QED
      BY <1>3, <2>1, ThreadKeeps DEF ScanFindsNothing
  <1>4. CASE DiscardJob
    BY <1>4, PopKeeps DEF DiscardJob
  <1>5. CASE CopyOutcome
    BY <1>5, CopyOutcomeKeeps
  <1>6. CASE CopyMeetsCancelled
    BY <1>6, CopyMeetsCancelledKeeps
  <1>7. CASE SubmitNow
    BY <1>7, SubmitNowKeeps
  <1>8. CASE SubmitNowStale
    BY <1>8, PopKeeps DEF SubmitNowStale, Ready
  <1>9. CASE SubmitNowRefused
    BY <1>9, PopKeeps DEF SubmitNowRefused, Ready
  <1>10. CASE AttachCallback
    BY <1>10, AttachCallbackKeeps
  <1>11. CASE RunCallback
    BY <1>11, RunCallbackKeeps
  <1>12. CASE AfterCallback
    <2>1. sel' \in Job \cup {NoJob} /\ event' \in BOOLEAN
      BY <1>12 DEF AfterCallback, TypeOK
    <2>2. QED
      BY <1>12, <2>1, ThreadKeeps DEF AfterCallback
  <1>13. CASE SleepUntilDue
    <2>1. sel' \in Job \cup {NoJob} /\ event' \in BOOLEAN
      BY <1>13 DEF SleepUntilDue, TypeOK
    <2>2. QED
      BY <1>13, <2>1, ThreadKeeps DEF SleepUntilDue
  <1>14. CASE WaitReturns
    <2>1. sel' \in Job \cup {NoJob} /\ event' \in BOOLEAN
      BY <1>14 DEF WaitReturns, TypeOK
    <2>2. QED
      BY <1>14, <2>1, ThreadKeeps DEF WaitReturns
  <1>15. CASE ClearEvent
    <2>1. sel' \in Job \cup {NoJob} /\ event' \in BOOLEAN
      BY <1>15 DEF ClearEvent, TypeOK
    <2>2. QED
      BY <1>15, <2>1, ThreadKeeps DEF ClearEvent
  <1>16. QED
    BY <1>1, <1>2, <1>3, <1>4, <1>5, <1>6, <1>7, <1>8, <1>9, <1>10, <1>11,
       <1>12, <1>13, <1>14, <1>15 DEF SubmitThread

-----------------------------------------------------------------------------
(* The invariant is inductive *)

\* The invariant holds initially.
LEMMA InitIInv == Init => IInv
  <1> SUFFICES ASSUME Init PROVE IInv
    OBVIOUS
  <1> USE DEF Init
  <1>1. TypeOK
    <2>1. 0 \in 0..MaxAttempts /\ now \in Nat /\ \A f \in Futures : cancels[f] \in Nat
      OBVIOUS
    <2>2. /\ tries \in [Futures -> 0..MaxAttempts] /\ link \in [Futures -> 0..MaxAttempts]
          /\ target \in [Futures -> 0..MaxAttempts]
          /\ cancels \in [Futures -> Nat]
      BY <2>1
    <2>3. /\ state \in [Futures -> {"unborn", "pending"} \cup Settled]
          /\ canc \in [Futures -> {"idle", "delegate", "commit", "refused", "orphan"}]
          /\ dstate \in [Futures -> [Numbers -> {"none", "live"} \cup Settled]]
          /\ cb \in [Futures -> [Numbers -> {"none", "armed", "find", "retry", "rewake",
                                             "final", "pop", "done"}]]
      OBVIOUS
    <2>4. /\ jobs \subseteq Job /\ sel \in Job \cup {NoJob}
          /\ sub \in {"top", "scan", "picked", "copy", "submitted", "incallback",
                      "waiting", "clear", "exited", "dead"}
          /\ event \in BOOLEAN /\ placing \in Futures \cup {Nobody}
          /\ shut \in {"open", "flagged", "woken", "closing", "joining", "returned"}
      OBVIOUS
    <2>5. QED
      BY <2>1, <2>2, <2>3, <2>4 DEF TypeOK
  <1>2. JobsInv
    BY DEF JobsInv
  <1>3. AttemptsInv
    BY DEF AttemptsInv, Future
  <1>4. CancelInv
    BY DEF CancelInv
  <1>5. SubmitInv
    BY DEF SubmitInv
  <1>6. QED
    BY <1>1, <1>2, <1>3, <1>4, <1>5

\* The steps that touch nothing but the event, the clock, and the client that
\* submits or shuts down.
LEMMA OtherKeeps ==
  IInv /\ (SubmitWake \/ Shutdown \/ ShutdownStep \/ Tick) => IInv'
  <1> SUFFICES ASSUME IInv, SubmitWake \/ Shutdown \/ ShutdownStep \/ Tick
               PROVE  IInv'
    OBVIOUS
  <1>1. UNCHANGED <<futures, delegates, thread, cancelling, jobs>>
    BY DEF SubmitWake, Shutdown, ShutdownStep, ShutdownWake, ShutdownDelegate,
           DelegateShutdownReturns, JoinSubmitThread, Tick
  <1>2. event' \in {event, TRUE} /\ now' \in {now, now + 1}
    BY DEF SubmitWake, Shutdown, ShutdownStep, ShutdownWake, ShutdownDelegate,
           DelegateShutdownReturns, JoinSubmitThread, Tick
  <1>3. /\ placing' \in Futures \cup {Nobody}
        /\ shut' \in {"open", "flagged", "woken", "closing", "joining", "returned"}
    BY DEF SubmitWake, Shutdown, ShutdownStep, ShutdownWake, ShutdownDelegate,
           DelegateShutdownReturns, JoinSubmitThread, Tick, TypeOK
  <1>4. event' \in BOOLEAN /\ now' \in Nat
    <2>1. event \in BOOLEAN /\ now \in Nat
      BY DEF TypeOK
    <2>2. now' \in Nat
      BY <1>2, <2>1
    <2>3. event' \in BOOLEAN
      BY <1>2, <2>1, Zenon
    <2>4. QED
      BY <2>2, <2>3
  <1>5. QED
    BY <1>1, <1>3, <1>4, QuietKeeps

\* So does a step that changes nothing.
LEMMA StutterKeeps == IInv /\ UNCHANGED vars => IInv'
  <1> SUFFICES ASSUME IInv, UNCHANGED vars PROVE IInv'
    OBVIOUS
  <1>1. /\ UNCHANGED <<futures, delegates, thread, cancelling, jobs>>
        /\ UNCHANGED <<event, now, placing, shut>>
    BY DEF vars
  <1>2. QED
    BY <1>1, QuietKeeps DEF TypeOK

\* Every step keeps the invariant.
LEMMA NextIInv == IInv /\ [Next]_vars => IInv'
  <1> SUFFICES ASSUME IInv, Next PROVE IInv'
    BY StutterKeeps
  <1>1. CASE \E f \in Futures :
               \/ Submit(f)
               \/ CancelWaiting(f) \/ CancelRunning(f) \/ CancelOrphan(f)
               \/ CancelStep(f)
    BY <1>1, SubmitKeeps, CancelWaitingKeeps, CancelRunningKeeps,
       CancelOrphanKeeps, CancelDelegateKeeps, CancelDelegateFailsKeeps,
       CancelReturnsFalseKeeps, CancelReturnsTrueKeeps DEF CancelStep
  <1>2. CASE \E f \in Futures, n \in Numbers :
               \/ DelegateFinish(f, n) \/ DelegateCancelledElsewhere(f, n)
               \/ CallbackStep(f, n)
    BY <1>2, DelegateFinishKeeps, DelegateCancelledElsewhereKeeps,
       CallbackFindKeeps, CallbackRetryKeeps, CallbackWakeKeeps,
       CallbackSettleKeeps, CallbackPopKeeps DEF CallbackStep
  <1>3. CASE SubmitThread
    BY <1>3, SubmitThreadKeeps
  <1>4. CASE SubmitWake \/ Shutdown \/ ShutdownStep \/ Tick
    BY <1>4, OtherKeeps
  <1>5. QED
    BY <1>1, <1>2, <1>3, <1>4 DEF Next

\* The inductive invariant holds in every state the executor reaches:
\* what the list of jobs, the callbacks, cancel() and the submit thread may
\* rely on from one critical section to the next.
THEOREM Invariant == Spec => []IInv
  <1> HIDE DEF IInv
  <1>1. QED
    BY InitIInv, NextIInv, PTL DEF Spec

-----------------------------------------------------------------------------
(* What follows from it *)

\* The variables keep their types; attempts are never numbered beyond the
\* attempt at which the policy gives up (retry.py:419-453).
THEOREM TypeCorrect == Spec => []TypeOK
  <1>1. IInv => TypeOK
    OBVIOUS
  <1> HIDE DEF IInv
  <1>2. QED
    BY <1>1, Invariant, PTL

\* The list of jobs holds at most one job of a future, that of its latest
\* attempt, so the searches by first match are right (retry.py:374-433).
THEOREM JobsAreUnique == Spec => []OneJobPerFuture
  <1>1. IInv => OneJobPerFuture
    BY DEF OneJobPerFuture, JobsInv, JobInv
  <1> HIDE DEF IInv
  <1>2. QED
    BY <1>1, Invariant, PTL

\* The assertion of _delegate_callback holds (retry.py:430-433): whatever
\* cancel() and the submit thread do meanwhile, the callback finds its job,
\* and settles a future that is still pending.
THEOREM CallbacksFindTheirJob == Spec => []CallbackFindsJob
  <1>1. ASSUME IInv, NEW f \in Futures, NEW n \in Numbers,
               cb[f][n] \in {"find", "retry", "final", "pop"}
        PROVE  /\ Listed(f, n)
               /\ cb[f][n] \in {"retry", "final"} => state[f] = "pending"
    <2>1. Latest(f, n)
      BY <1>1, CallbackIsLatest
    <2>2. QED
      BY <1>1, <2>1 DEF Latest
  <1>2. IInv => CallbackFindsJob
    BY <1>1 DEF CallbackFindsJob, Listed
  <1> HIDE DEF IInv
  <1>3. QED
    BY <1>2, Invariant, PTL

\* No delegate future is live behind a settled future: _submit_now notices
\* a cancel() that came since the scan (retry.py:305-316).
THEOREM SettledFuturesAreIdle == Spec => []SettledMeansIdle
  <1>1. ASSUME IInv, NEW f \in Futures, NEW n \in Numbers, dstate[f][n] = "live"
        PROVE  state[f] \notin Settled
    <2>1. Latest(f, n)
      BY <1>1, LiveIsLatest
    <2>2. cb[f][n] \in {"none", "armed"}
      BY <1>1, <2>1 DEF Latest
    <2>3. QED
      BY <1>1, <2>1, <2>2 DEF Latest
  <1>2. IInv => SettledMeansIdle
    BY <1>1 DEF SettledMeansIdle
  <1> HIDE DEF IInv
  <1>3. QED
    BY <1>2, Invariant, PTL

\* Attempts of a future never overlap, and running() asks the live one
\* (retry.py:127-137).
THEOREM AttemptsDoNotOverlap == Spec => []OneAttemptAtATime
  <1>1. ASSUME IInv, NEW f \in Futures, NEW n \in Numbers, dstate[f][n] = "live"
        PROVE  n = tries[f] /\ n = link[f]
    <2>1. n = tries[f] /\ Latest(f, n)
      BY <1>1, LiveIsLatest
    <2>2. QED
      BY <1>1, <2>1 DEF Latest
  <1>2. IInv => OneAttemptAtATime
    BY <1>1 DEF OneAttemptAtATime
  <1> HIDE DEF IInv
  <1>3. QED
    BY <1>2, Invariant, PTL

\* No action but SubmitNow makes delegate futures.
LEMMA OnlySubmitNowTries ==
  ASSUME IInv, [Next]_vars, ~SubmitNow
  PROVE  tries' = tries
  <1>1. CASE UNCHANGED vars
    BY <1>1 DEF vars
  <1>2. CASE \E f \in Futures :
               \/ Submit(f)
               \/ CancelWaiting(f) \/ CancelRunning(f) \/ CancelOrphan(f)
               \/ CancelStep(f)
    BY <1>2 DEF Submit, CancelWaiting, CancelRunning, CancelOrphan, CallCancel,
                CancelStep, CancelDelegate, CancelDelegateFails,
                CancelReturnsFalse, CancelReturnsTrue
  <1>3. CASE \E f \in Futures, n \in Numbers :
               \/ DelegateFinish(f, n) \/ DelegateCancelledElsewhere(f, n)
               \/ CallbackStep(f, n)
    BY <1>3 DEF DelegateFinish, DelegateCancelledElsewhere, CallbackStep,
                CallbackFind, CallbackRetry, CallbackWake, CallbackSettle,
                CallbackPop
  <1>4. CASE SubmitThread
    BY <1>4 DEF SubmitThread, CheckShutdown, ScanPicks, ScanFindsNothing,
                DiscardJob, CopyOutcome, CopyMeetsCancelled, SubmitNowStale,
                SubmitNowRefused, AttachCallback, RunCallback, AfterCallback,
                SleepUntilDue, WaitReturns, ClearEvent
  <1>5. CASE SubmitWake \/ Shutdown \/ ShutdownStep \/ Tick
    BY <1>5 DEF SubmitWake, Shutdown, ShutdownStep, ShutdownWake,
                ShutdownDelegate, DelegateShutdownReturns, JoinSubmitThread,
                Tick
  <1>6. QED
    BY <1>1, <1>2, <1>3, <1>4, <1>5 DEF Next

\* A call of cancel() prevents any more retries, even if it fails
\* (retry.py:186-187).
THEOREM CancelStopsRetries == Spec => NoRetryAfterCancel
  <1>1. ASSUME IInv, SubmitNow, NEW f \in Futures, cancels[f] > 0
        PROVE  tries'[f] = tries[f]
    <2>1. /\ ~sel.stop /\ state[sel.fut] = "pending" /\ Unlocked(sel.fut)
          /\ sub = "picked"
          /\ tries' = [tries EXCEPT ![sel.fut] = sel.attempt + 1]
      BY <1>1 DEF SubmitNow, Ready, StartAttempt
    <2>2. sel \in jobs
      BY <1>1, <2>1 DEF SubmitInv
    <2>3. sel.fut # f
      BY <1>1, <2>1, <2>2 DEF JobsInv, JobInv
    <2>4. QED
      BY <1>1, <2>1, <2>3 DEF TypeOK
  <1>2. IInv /\ [Next]_vars =>
          [\A f \in Futures : cancels[f] > 0 => tries'[f] = tries[f]]_vars
    <2> SUFFICES ASSUME IInv, [Next]_vars, NEW f \in Futures, cancels[f] > 0
                 PROVE  tries'[f] = tries[f]
      OBVIOUS
    <2>1. QED
      BY <1>1, OnlySubmitNowTries
  <1> HIDE DEF IInv
  <1>3. QED
    BY <1>2, Invariant, PTL DEF Spec, NoRetryAfterCancel

-----------------------------------------------------------------------------
(* No future is forgotten *)

\* Somebody still knows of f: the list, the submit thread or cancel().
Accounted(f) ==
  \/ \E j \in jobs : j.fut = f
  \/ sub = "copy" /\ sel.fut = f
  \/ canc[f] = "commit"

\* Steps that leave the list alone lose nobody, unless the submit thread or
\* cancel() drops what it holds.
LEMMA SameListAccounts ==
  ASSUME NEW f \in Futures, Accounted(f), jobs' = jobs,
         sub = "copy" => sub' = "copy" /\ sel' = sel,
         canc[f] = "commit" => canc'[f] = "commit"
  PROVE  Accounted(f)'
  BY DEF Accounted

\* A step of cancel() leaves a future accounted for, or settled.
LEMMA CancelAccounts ==
  ASSUME IInv, NEW f \in Futures, NEW g \in Futures, Accounted(f), state'[f] = "pending",
         CancelWaiting(g) \/ CancelRunning(g) \/ CancelOrphan(g) \/ CancelStep(g)
  PROVE  Accounted(f)'
  <1> USE DEF TypeOK, CallCancel
  <1>1. CASE CancelWaiting(g)
    BY <1>1 DEF CancelWaiting, Accounted
  <1>2. CASE CancelRunning(g)
    <2>1. PICK j \in jobs :
            /\ j.fut = g
            /\ jobs' = (jobs \ {j}) \cup {[j EXCEPT !.stop = TRUE]}
            /\ Unlocked(g) /\ UNCHANGED thread
            /\ canc' = [canc EXCEPT ![g] = "delegate"]
      BY <1>2 DEF CancelRunning
    <2>2. [j EXCEPT !.stop = TRUE].fut = j.fut
      BY <2>1 DEF Job
    <2>3. QED
      BY <2>1, <2>2 DEF Accounted
  <1>3. CASE CancelOrphan(g)
    BY <1>3 DEF CancelOrphan, Accounted
  <1>4. CASE CancelStep(g)
    BY <1>4 DEF CancelStep, CancelDelegate, CancelDelegateFails, CancelReturnsFalse,
       CancelReturnsTrue, Accounted
  <1>5. QED
    BY <1>1, <1>2, <1>3, <1>4

\* A delegate future that ends and its callback leave a future accounted for,
\* or settled: only a settled future's job is popped.
LEMMA CallbackAccounts ==
  ASSUME IInv, NEW f \in Futures, NEW g \in Futures, NEW n \in Numbers,
         Accounted(f), state'[f] = "pending",
         DelegateFinish(g, n) \/ DelegateCancelledElsewhere(g, n) \/ CallbackStep(g, n)
  PROVE  Accounted(f)'
  <1> USE DEF TypeOK
  <1>1. CASE CallbackRetry(g, n)
    <2>1. PICK j \in jobs, sleep \in Sleeps :
            /\ j.fut = g
            /\ jobs' = Popped(j) \cup {RetriedJob(j, sleep)}
            /\ UNCHANGED <<thread, cancelling>>
      BY <1>1 DEF CallbackRetry
    <2>2. RetriedJob(j, sleep).fut = j.fut
      BY <2>1 DEF Job, RetriedJob
    <2>3. QED
      BY <2>1, <2>2 DEF Accounted, Popped
  <1>2. CASE CallbackPop(g, n)
    <2>1. state[g] \in Outcomes
      BY <1>2, CallbackIsLatest DEF CallbackPop, Latest
    <2>2. f # g
      BY <1>2, <2>1 DEF CallbackPop
    <2>3. QED
      BY <1>2, <2>2 DEF CallbackPop, Accounted
  <1>3. CASE \/ DelegateFinish(g, n) \/ DelegateCancelledElsewhere(g, n)
             \/ CallbackFind(g, n) \/ CallbackWake(g, n) \/ CallbackSettle(g, n)
    BY <1>3, SameListAccounts DEF DelegateFinish, DelegateCancelledElsewhere,
       CallbackFind, CallbackWake, CallbackSettle
  <1>4. QED
    BY <1>1, <1>2, <1>3 DEF CallbackStep

\* The submit thread drops a job only to hand over its outcome, or because the
\* future has settled, or after the delegate was shut down.
LEMMA SubmitThreadAccounts ==
  ASSUME IInv, NEW f \in Futures, Accounted(f), state'[f] = "pending", ~DelegateClosed,
         SubmitThread
  PROVE  Accounted(f)'
  <1> USE DEF TypeOK
  <1>1. CASE DiscardJob
    BY <1>1 DEF DiscardJob, Popped, Accounted
  <1>2. CASE SubmitNow
    <2>1. StartedJob(sel).fut = sel.fut
      BY <1>2 DEF SubmitNow, Ready, SubmitInv, StartedJob, Job
    <2>2. QED
      BY <1>2, <2>1 DEF SubmitNow, Ready, StartAttempt, Popped, Accounted
  <1>3. CASE SubmitNowStale
    BY <1>3 DEF SubmitNowStale, Ready, Popped, Accounted
  <1>4. CASE SubmitNowRefused
    BY <1>4 DEF SubmitNowRefused
  <1>5. CASE CopyOutcome \/ CopyMeetsCancelled
    <2>1. f # sel.fut
      BY <1>5 DEF CopyOutcome, CopyMeetsCancelled, SubmitInv, Ended, Job
    <2>2. QED
      BY <1>5, <2>1 DEF CopyOutcome, CopyMeetsCancelled, Accounted
  <1>6. CASE \/ CheckShutdown \/ ScanPicks \/ ScanFindsNothing
             \/ AttachCallback \/ RunCallback \/ AfterCallback
             \/ SleepUntilDue \/ WaitReturns \/ ClearEvent
    BY <1>6, SameListAccounts DEF CheckShutdown, ScanPicks, ScanFindsNothing,
       AttachCallback, RunCallback, AfterCallback, SleepUntilDue, WaitReturns, ClearEvent
  <1>7. QED
    BY <1>1, <1>2, <1>3, <1>4, <1>5, <1>6 DEF SubmitThread

\* No step forgets a pending future while the executor is in service.
LEMMA NextAccounts ==
  ASSUME IInv, PendingIsAccountedFor, [Next]_vars
  PROVE  PendingIsAccountedFor'
  <1> USE DEF DelegateClosed
  <1> SUFFICES ASSUME ~DelegateClosed', NEW f \in Futures, state'[f] = "pending"
               PROVE  Accounted(f)'
    BY DEF PendingIsAccountedFor, Accounted
  <1>1. ~DelegateClosed /\ state[f] = "pending" => Accounted(f)
    BY DEF PendingIsAccountedFor, Accounted
  <1>2. CASE UNCHANGED vars
    BY <1>1, <1>2 DEF vars, Accounted
  <1>3. CASE \E g \in Futures : Submit(g)
    <2>1. PICK g \in Futures : Submit(g)
      BY <1>3
    <2>2. NewJob(g).fut = g
      BY DEF NewJob
    <2>3. CASE g = f
      BY <2>1, <2>2, <2>3 DEF Submit, Accounted
    <2>4. CASE g # f
      BY <1>1, <2>1, <2>4 DEF Submit, Accounted, TypeOK
    <2>5. QED
      BY <2>3, <2>4
  <1>4. CASE \E g \in Futures :
               \/ CancelWaiting(g) \/ CancelRunning(g) \/ CancelOrphan(g)
               \/ CancelStep(g)
    <2>1. PICK g \in Futures :
            \/ CancelWaiting(g) \/ CancelRunning(g) \/ CancelOrphan(g)
            \/ CancelStep(g)
      BY <1>4
    <2>2. ~DelegateClosed /\ state[f] = "pending"
      BY <2>1 DEF CancelWaiting, CancelRunning, CancelOrphan, CallCancel, CancelStep,
         CancelDelegate, CancelDelegateFails, CancelReturnsFalse, CancelReturnsTrue,
         TypeOK
    <2>3. QED
      BY <1>1, <2>1, <2>2, CancelAccounts
  <1>5. CASE \E g \in Futures, n \in Numbers :
               \/ DelegateFinish(g, n) \/ DelegateCancelledElsewhere(g, n)
               \/ CallbackStep(g, n)
    <2>1. PICK g \in Futures, n \in Numbers :
            \/ DelegateFinish(g, n) \/ DelegateCancelledElsewhere(g, n)
            \/ CallbackStep(g, n)
      BY <1>5
    <2>2. ~DelegateClosed /\ state[f] = "pending"
      BY <2>1, CallbackIsLatest DEF DelegateFinish, DelegateCancelledElsewhere,
         CallbackStep, CallbackFind, CallbackRetry, CallbackWake, CallbackSettle,
         CallbackPop, TypeOK
    <2>3. QED
      BY <1>1, <2>1, <2>2, CallbackAccounts
  <1>6. CASE SubmitThread
    <2>1. ~DelegateClosed
      BY <1>6 DEF SubmitThread, CheckShutdown, ScanPicks, ScanFindsNothing, DiscardJob,
         CopyOutcome, CopyMeetsCancelled, SubmitNow, StartAttempt, SubmitNowStale,
         SubmitNowRefused, AttachCallback, RunCallback, AfterCallback, SleepUntilDue,
         WaitReturns, ClearEvent
    <2>2. state[f] = "pending"
      BY <1>6 DEF SubmitThread, CheckShutdown, ScanPicks, ScanFindsNothing, DiscardJob,
         CopyOutcome, CopyMeetsCancelled, SubmitNow, StartAttempt, SubmitNowStale,
         SubmitNowRefused, AttachCallback, RunCallback, AfterCallback, SleepUntilDue,
         WaitReturns, ClearEvent, TypeOK, SubmitInv, Job
    <2>3. QED
      BY <1>1, <1>6, <2>1, <2>2, SubmitThreadAccounts
  <1>7. CASE SubmitWake \/ Shutdown \/ ShutdownStep \/ Tick
    BY <1>1, <1>7 DEF SubmitWake, Shutdown, ShutdownStep, ShutdownWake, ShutdownDelegate,
       DelegateShutdownReturns, JoinSubmitThread, Tick, Accounted
  <1>8. QED
    BY <1>2, <1>3, <1>4, <1>5, <1>6, <1>7 DEF Next

\* No future is forgotten: while the executor is in service, the list, the
\* submit thread or cancel() still knows of every pending future, though jobs
\* move between them under two locks (retry.py:290-430).
THEOREM NoneIsForgotten == Spec => []PendingIsAccountedFor
  <1>1. Init => PendingIsAccountedFor
    BY DEF Init, PendingIsAccountedFor
  <1>2. IInv /\ PendingIsAccountedFor /\ [Next]_vars => PendingIsAccountedFor'
    BY NextAccounts
  <1> HIDE DEF IInv
  <1>3. QED
    BY <1>1, <1>2, Invariant, PTL DEF Spec

-----------------------------------------------------------------------------
(* No wake up is lost *)

\* The submit thread will not sleep through its next wait.
Warned == event \/ WakeComing

\* What the submit thread that nobody warns has found out still holds.
SleepInv ==
  ~Warned =>
    /\ sub \in {"scan", "picked", "waiting"} => shut = "open"
    /\ \/ sub = "picked" /\ ~sel.stop /\ sel.when > now
       \/ sub = "waiting"
       => \A j \in jobs : ~j.running => ~j.stop /\ sel # NoJob /\ sel.when <= j.when

\* A set of numbers has a least one.
LEMMA LeastExists ==
  ASSUME NEW S, S \subseteq Nat, S # {}
  PROVE  \E m \in S : \A k \in S : m <= k
  <1>1. \E x \in S : \A y \in S : ~ (<<y, x>> \in OpToRel(<, Nat))
    BY WFMin, NatLessThanWellFounded
  <1>2. \A x, y \in Nat : x < y => <<x, y>> \in OpToRel(<, Nat)
    BY Zenon DEF OpToRel
  <1>3. PICK x \in S : \A y \in S : ~ (y < x)
    BY <1>1, <1>2, Zenon
  <1>4. QED
    BY <1>3

\* If a job waits, _get_next_job returns one.
LEMMA NextJobExists ==
  ASSUME IInv, NEW j \in jobs, ~j.running
  PROVE  NextJobs # {}
  <1> DEFINE idle == {k \in jobs : ~k.running}
             times == {k.when : k \in idle}
  <1>1. times \subseteq Nat /\ times # {}
    BY DEF TypeOK, Job
  <1>2. PICK m \in times : \A t \in times : m <= t
    BY <1>1, LeastExists
  <1>3. PICK k \in idle : m = k.when
    OBVIOUS
  <1>4. \A l \in idle : k.when <= l.when
    BY <1>2, <1>3
  <1>5. QED
    BY <1>3, <1>4 DEF NextJobs

\* Only the submit thread takes a warning away, as it clears the event.
LEMMA WarningLasts ==
  ASSUME IInv, [Next]_vars, Warned, ~ClearEvent
  PROVE  Warned'
  <1> USE DEF Warned, WakeComing
  <1>1. ASSUME UNCHANGED <<event, placing, shut, cb>> PROVE Warned'
    BY <1>1
  <1>2. ASSUME NEW f \in Futures, Submit(f) PROVE Warned'
    BY <1>2 DEF Submit, TypeOK
  <1>3. ASSUME NEW f \in Futures,
               CancelWaiting(f) \/ CancelRunning(f) \/ CancelOrphan(f)
        PROVE  Warned'
    BY <1>1, <1>3 DEF CancelWaiting, CancelRunning, CancelOrphan, CallCancel
  <1>4. ASSUME NEW f \in Futures, CancelStep(f) PROVE Warned'
    <2>1. CASE CancelDelegate(f)
      BY <2>1 DEF CancelDelegate, TypeOK, CancelInv
    <2>2. CASE CancelDelegateFails(f) \/ CancelReturnsFalse(f) \/ CancelReturnsTrue(f)
      BY <1>1, <2>2 DEF CancelDelegateFails, CancelReturnsFalse, CancelReturnsTrue
    <2>3. QED
      BY <1>4, <2>1, <2>2 DEF CancelStep
  <1>5. ASSUME NEW f \in Futures, NEW n \in Numbers, NEW v, cb[f][n] # "rewake",
               cb' = [cb EXCEPT ![f][n] = v], UNCHANGED <<event, placing, shut>>
        PROVE  Warned'
    <2>1. \A g \in Futures, m \in Numbers :
            cb[g][m] = "rewake" => cb'[g][m] = "rewake"
      BY <1>5 DEF TypeOK
    <2>2. QED
      BY <1>5, <2>1
  <1>6. ASSUME NEW f \in Futures, NEW n \in Numbers,
               \/ DelegateFinish(f, n) \/ DelegateCancelledElsewhere(f, n)
        PROVE  Warned'
    <2>1. /\ cb' = [cb EXCEPT ![f][n] = IF @ = "armed" THEN "find" ELSE @]
          /\ UNCHANGED <<event, placing, shut>>
      BY <1>6 DEF DelegateFinish, DelegateCancelledElsewhere
    <2>2. \A g \in Futures, m \in Numbers :
            cb[g][m] = "rewake" => cb'[g][m] = "rewake"
      BY <2>1 DEF TypeOK
    <2>3. QED
      BY <2>1, <2>2
  <1>7. ASSUME NEW f \in Futures, NEW n \in Numbers, CallbackStep(f, n) PROVE Warned'
    <2>1. CASE CallbackFind(f, n)
      <3>1. PICK v \in {"done", "retry", "final"} : cb' = [cb EXCEPT ![f][n] = v]
        BY <2>1 DEF CallbackFind
      <3>2. cb[f][n] # "rewake" /\ UNCHANGED <<event, placing, shut>>
        BY <2>1 DEF CallbackFind
      <3>3. QED
        BY <1>5, <3>1, <3>2
    <2>2. CASE CallbackRetry(f, n) \/ CallbackSettle(f, n) \/ CallbackPop(f, n)
      <3>1. PICK v \in {"done", "rewake", "pop"} : cb' = [cb EXCEPT ![f][n] = v]
        BY <2>2 DEF CallbackRetry, CallbackSettle, CallbackPop
      <3>2. cb[f][n] # "rewake" /\ UNCHANGED <<event, placing, shut>>
        BY <2>2 DEF CallbackRetry, CallbackSettle, CallbackPop
      <3>3. QED
        BY <1>5, <3>1, <3>2
    <2>3. CASE CallbackWake(f, n)
      BY <2>3 DEF CallbackWake
    <2>4. QED
      BY <1>7, <2>1, <2>2, <2>3 DEF CallbackStep
  <1>8. CASE AttachCallback \/ RunCallback \/ AfterCallback
    <2>1. CASE RunCallback
      BY <2>1 DEF RunCallback, TypeOK, SubmitInv
    <2>2. CASE AttachCallback \/ AfterCallback
      BY <2>2 DEF AttachCallback, AfterCallback
    <2>3. QED
      BY <1>8, <2>1, <2>2
  <1>9. CASE SubmitThread /\ ~(AttachCallback \/ RunCallback \/ AfterCallback)
    BY <1>1, <1>9 DEF SubmitThread, CheckShutdown, ScanPicks, ScanFindsNothing, DiscardJob,
       CopyOutcome, CopyMeetsCancelled, SubmitNow, StartAttempt, SubmitNowStale,
       SubmitNowRefused, SleepUntilDue, WaitReturns
  <1>10. CASE SubmitWake \/ Shutdown \/ ShutdownStep \/ Tick
    BY <1>10 DEF SubmitWake, Shutdown, ShutdownStep, ShutdownWake, ShutdownDelegate,
       DelegateShutdownReturns, JoinSubmitThread, Tick
  <1>11. CASE UNCHANGED vars
    BY <1>1, <1>11 DEF vars
  <1>12. QED
    BY <1>2, <1>3, <1>4, <1>6, <1>7, <1>8, <1>9, <1>10, <1>11 DEF Next

\* Steps of others: a job that starts to wait comes with a warning.
LEMMA OthersKeepSleep ==
  ASSUME IInv, SleepInv, ~Warned, ~Warned', [Next]_vars, ~SubmitThread
  PROVE  SleepInv'
  <1>1. ASSUME UNCHANGED <<thread, now, shut>>,
               \A j \in jobs' : ~j.running => j \in jobs
        PROVE  SleepInv'
    BY <1>1 DEF SleepInv
  <1>2. ASSUME NEW f \in Futures, Submit(f) PROVE FALSE
    BY <1>2 DEF Submit, Warned, WakeComing
  <1>3. ASSUME NEW f \in Futures,
               CancelWaiting(f) \/ CancelRunning(f) \/ CancelOrphan(f)
        PROVE  SleepInv'
    <2>1. CASE CancelRunning(f)
      <3>1. PICK j \in jobs :
              /\ j.running /\ CallCancel(f)
              /\ jobs' = (jobs \ {j}) \cup {[j EXCEPT !.stop = TRUE]}
        BY <2>1 DEF CancelRunning
      <3>2. [j EXCEPT !.stop = TRUE].running
        BY <3>1 DEF TypeOK, Job
      <3>3. QED
        BY <1>1, <3>1, <3>2 DEF CallCancel
    <2>2. CASE CancelWaiting(f) \/ CancelOrphan(f)
      BY <1>1, <2>2 DEF CancelWaiting, CancelOrphan, CallCancel
    <2>3. QED
      BY <1>3, <2>1, <2>2
  <1>4. ASSUME NEW f \in Futures, CancelStep(f) PROVE SleepInv'
    BY <1>1, <1>4 DEF CancelStep, CancelDelegate, CancelDelegateFails, CancelReturnsFalse,
       CancelReturnsTrue
  <1>5. ASSUME NEW f \in Futures, NEW n \in Numbers,
               \/ DelegateFinish(f, n) \/ DelegateCancelledElsewhere(f, n)
        PROVE  SleepInv'
    BY <1>1, <1>5 DEF DelegateFinish, DelegateCancelledElsewhere
  <1>6. ASSUME NEW f \in Futures, NEW n \in Numbers, CallbackStep(f, n) PROVE SleepInv'
    <2>1. ~CallbackRetry(f, n)
      BY DEF CallbackRetry, Warned, WakeComing, TypeOK
    <2>2. QED
      BY <1>1, <1>6, <2>1 DEF CallbackStep, CallbackFind, CallbackWake, CallbackSettle,
         CallbackPop
  <1>7. CASE Tick
    <2>1. now' >= now /\ now \in Nat /\ UNCHANGED <<thread, jobs, shut>>
      BY <1>7 DEF Tick, TypeOK
    <2>2. sub = "picked" => sel.when \in Nat
      BY DEF SubmitInv, Job
    <2>3. now' \in Nat
      BY <1>7 DEF Tick, TypeOK
    <2>4. QED
      BY <2>1, <2>2, <2>3 DEF SleepInv
  <1>8. CASE Shutdown \/ ShutdownStep
    <2>1. shut # "open"
      BY <1>8 DEF Shutdown, ShutdownStep, ShutdownWake, ShutdownDelegate,
         DelegateShutdownReturns, JoinSubmitThread, Warned, WakeComing
    <2>2. UNCHANGED thread
      BY <1>8 DEF Shutdown, ShutdownStep, ShutdownWake, ShutdownDelegate,
         DelegateShutdownReturns, JoinSubmitThread
    <2>3. QED
      BY <2>1, <2>2 DEF SleepInv
  <1>9. CASE SubmitWake \/ UNCHANGED vars
    BY <1>1, <1>9 DEF SubmitWake, vars
  <1>10. QED
    BY <1>2, <1>3, <1>4, <1>5, <1>6, <1>7, <1>8, <1>9 DEF Next

\* Steps of the submit thread: it goes to sleep on what it has just found out.
LEMMA ThreadKeepsSleep ==
  ASSUME IInv, SleepInv, ~Warned, SubmitThread
  PROVE  SleepInv'
  <1>1. ASSUME sub' \notin {"scan", "picked", "waiting"} PROVE SleepInv'
    BY <1>1 DEF SleepInv
  <1>2. CASE CheckShutdown
    BY <1>2 DEF CheckShutdown, SleepInv
  <1>3. CASE ScanPicks
    <2>1. /\ sel' \in NextJobs /\ sub = "scan" /\ sub' = "picked"
          /\ UNCHANGED <<jobs, now, shut>>
      BY <1>3 DEF ScanPicks
    <2>2. shut = "open"
      BY <2>1 DEF SleepInv
    <2>3. ~sel'.stop /\ sel'.when > now =>
            \A j \in jobs : ~j.running => ~j.stop /\ sel'.when <= j.when
      <3>1. sel' \in Job /\ now \in Nat /\ \A j \in jobs : j \in Job
        BY <2>1 DEF NextJobs, TypeOK
      <3>2. sel'.when \in Nat /\ \A j \in jobs : j.when \in Nat
        BY <3>1 DEF Job
      <3>3. QED
        BY <2>1, <3>1, <3>2 DEF NextJobs
    <2>4. sel' # NoJob
      BY <2>1 DEF NextJobs, TypeOK
    <2>5. QED
      BY <2>1, <2>2, <2>3, <2>4 DEF SleepInv
  <1>4. CASE ScanFindsNothing
    <2>1. \A j \in jobs : j.running
      BY <1>4, NextJobExists DEF ScanFindsNothing
    <2>2. QED
      BY <1>4, <2>1 DEF ScanFindsNothing, SleepInv
  <1>5. CASE SleepUntilDue
    BY <1>5 DEF SleepUntilDue, SleepInv
  <1>6. CASE \/ DiscardJob \/ CopyOutcome \/ CopyMeetsCancelled
             \/ SubmitNow \/ SubmitNowStale \/ SubmitNowRefused
             \/ AttachCallback \/ RunCallback \/ AfterCallback
             \/ WaitReturns \/ ClearEvent
    BY <1>1, <1>6 DEF DiscardJob, CopyOutcome, CopyMeetsCancelled, SubmitNow, StartAttempt,
       SubmitNowStale, SubmitNowRefused, AttachCallback, RunCallback, AfterCallback,
       WaitReturns, ClearEvent
  <1>7. QED
    BY <1>2, <1>3, <1>4, <1>5, <1>6 DEF SubmitThread

\* No lost wake up (_submit_wait, retry.py:538-540): a submit thread that
\* nobody is about to wake sleeps no longer than the earliest job allows.
THEOREM NoWakeUpIsLost == Spec => []NoOversleep
  <1>1. Init => SleepInv
    BY DEF Init, SleepInv
  <1>2. ASSUME IInv, SleepInv, [Next]_vars PROVE SleepInv'
    <2>1. CASE Warned'
      BY <2>1 DEF SleepInv
    <2>2. CASE ClearEvent
      BY <2>2 DEF ClearEvent, SleepInv
    <2>3. CASE ~Warned' /\ ~ClearEvent
      BY <1>2, <2>3, WarningLasts, OthersKeepSleep, ThreadKeepsSleep
    <2>4. QED
      BY <2>1, <2>2, <2>3
  <1>3. SleepInv => NoOversleep
    BY DEF SleepInv, NoOversleep, Warned
  <1> HIDE DEF IInv
  <1>4. QED
    BY <1>1, <1>2, <1>3, Invariant, PTL DEF Spec
-----------------------------------------------------------------------------
(* What is left behind *)

\* What becomes of a job that is retried, started, or told to stop.
LEMMA JobFields ==
  ASSUME NEW j \in Job
  PROVE  /\ \A sleep \in Sleeps :
              LET k == RetriedJob(j, sleep) IN
              k.fut = j.fut /\ k.attempt = j.attempt /\ k.stop = j.stop /\ ~k.running
         /\ LET k == StartedJob(j) IN
              k.fut = j.fut /\ k.attempt = j.attempt + 1 /\ k.stop = j.stop /\ k.running
         /\ LET k == [j EXCEPT !.stop = TRUE] IN
              k.fut = j.fut /\ k.attempt = j.attempt /\ k.stop /\ k.running = j.running
  BY DEF Job, RetriedJob, StartedJob

\* A callback that has returned, or has only the wake up ahead of it, has taken
\* its running job off the list, unless the delegate future was cancelled.
LeftInv ==
  \A f \in Futures, n \in Numbers :
    Listed(f, n) =>
      /\ cb[f][n] # "rewake"
      /\ cb[f][n] = "done" => dstate[f][n] = "cancelled"

\* Steps that leave the callbacks alone and list no running job.
LEMMA SameCallbacksLeave ==
  ASSUME LeftInv, UNCHANGED <<cb, dstate>>,
         \A f \in Futures, n \in Numbers : Listed(f, n)' => Listed(f, n)
  PROVE  LeftInv'
  BY DEF LeftInv

\* Every step of cancel(), and of a delegate future that ends.
LEMMA CancelLeaves ==
  ASSUME IInv, LeftInv, NEW f \in Futures,
         CancelWaiting(f) \/ CancelRunning(f) \/ CancelOrphan(f) \/ CancelStep(f)
  PROVE  LeftInv'
  <1>1. CASE CancelRunning(f)
    <2>1. PICK j \in jobs :
            /\ j.running /\ CallCancel(f)
            /\ jobs' = (jobs \ {j}) \cup {[j EXCEPT !.stop = TRUE]}
      BY <1>1 DEF CancelRunning
    <2>2. j \in Job
      BY DEF TypeOK
    <2>3. PICK k :
            /\ k.fut = j.fut /\ k.attempt = j.attempt /\ k.running = j.running
            /\ jobs' = (jobs \ {j}) \cup {k}
      BY <2>1, <2>2, JobFields
    <2>4. \A g \in Futures, n \in Numbers : Listed(g, n)' => Listed(g, n)
      BY <2>1, <2>3 DEF Listed
    <2>5. QED
      BY <2>1, <2>4, SameCallbacksLeave DEF CallCancel
  <1>2. CASE CancelDelegate(f)
    <2>1. target[f] \in Numbers
      BY <1>2 DEF CancelDelegate, CancelInv, TypeOK
    <2>2. /\ dstate'[f][target[f]] = "cancelled"
          /\ cb'[f][target[f]] = IF cb[f][target[f]] = "armed" THEN "done"
                                  ELSE cb[f][target[f]]
      BY <1>2, <2>1 DEF CancelDelegate, TypeOK
    <2>3. \A g \in Futures, n \in Numbers : g # f \/ n # target[f] =>
            dstate'[g][n] = dstate[g][n] /\ cb'[g][n] = cb[g][n]
      BY <1>2, <2>1 DEF CancelDelegate, TypeOK
    <2>4. \A g \in Futures, n \in Numbers : Listed(g, n)' = Listed(g, n)
      BY <1>2 DEF CancelDelegate, Listed
    <2>5. QED
      BY <2>1, <2>2, <2>3, <2>4 DEF LeftInv
  <1>3. CASE \/ CancelWaiting(f) \/ CancelOrphan(f)
             \/ CancelDelegateFails(f) \/ CancelReturnsFalse(f) \/ CancelReturnsTrue(f)
    BY <1>3, SameCallbacksLeave DEF CancelWaiting, CancelOrphan, CallCancel, Listed,
       CancelDelegateFails, CancelReturnsFalse, CancelReturnsTrue
  <1>4. QED
    BY <1>1, <1>2, <1>3 DEF CancelStep

\* Every step of a callback.
LEMMA CallbackLeaves ==
  ASSUME IInv, LeftInv, NEW f \in Futures, NEW n \in Numbers,
         \/ DelegateFinish(f, n) \/ DelegateCancelledElsewhere(f, n)
         \/ CallbackStep(f, n)
  PROVE  LeftInv'
  <1> USE DEF TypeOK
  <1>1. CASE DelegateFinish(f, n) \/ DelegateCancelledElsewhere(f, n)
    <2>1. /\ \A g \in Futures, m \in Numbers : g # f \/ m # n =>
               dstate'[g][m] = dstate[g][m] /\ cb'[g][m] = cb[g][m]
          /\ cb'[f][n] \in {cb[f][n], "find"}
          /\ dstate[f][n] = "live" /\ jobs' = jobs
      BY <1>1 DEF DelegateFinish, DelegateCancelledElsewhere
    <2>2. \A g \in Futures, m \in Numbers : Listed(g, m)' = Listed(g, m)
      BY <2>1 DEF Listed
    <2>3. Listed(f, n) => cb'[f][n] \notin {"rewake", "done"}
      BY <2>1 DEF LeftInv
    <2>4. ASSUME NEW g \in Futures, NEW m \in Numbers, Listed(g, m)
          PROVE  /\ cb'[g][m] # "rewake"
                 /\ cb'[g][m] = "done" => dstate'[g][m] = "cancelled"
      <3>1. CASE g = f /\ m = n
        BY <2>3, <2>4, <3>1
      <3>2. CASE g # f \/ m # n
        <4>1. dstate'[g][m] = dstate[g][m] /\ cb'[g][m] = cb[g][m]
          BY <2>1, <3>2
        <4>2. cb[g][m] # "rewake" /\ (cb[g][m] = "done" => dstate[g][m] = "cancelled")
          BY <2>4 DEF LeftInv
        <4>3. QED
          BY <4>1, <4>2
      <3>3. QED
        BY <3>1, <3>2
    <2>5. QED
      BY <2>2, <2>4 DEF LeftInv
  <1>2. CASE CallbackFind(f, n)
    <2>1. PICK v \in {"done", "retry", "final"} :
            /\ cb' = [cb EXCEPT ![f][n] = v]
            /\ v = "done" => dstate[f][n] = "cancelled"
      BY <1>2 DEF CallbackFind
    <2>2. \A g \in Futures, m \in Numbers :
            cb'[g][m] = IF g = f /\ m = n THEN v ELSE cb[g][m]
      BY <2>1
    <2>3. UNCHANGED <<jobs, dstate>>
      BY <1>2 DEF CallbackFind
    <2>4. QED
      BY <2>1, <2>2, <2>3 DEF LeftInv, Listed
  <1>3. CASE CallbackRetry(f, n)
    <2>1. PICK j \in jobs, sleep \in Sleeps :
            /\ j.fut = f /\ j.attempt = n /\ j.running
            /\ jobs' = Popped(j) \cup {RetriedJob(j, sleep)}
            /\ cb' = [cb EXCEPT ![f][n] = "rewake"] /\ dstate' = dstate
      BY <1>3 DEF CallbackRetry
    <2>2. ~RetriedJob(j, sleep).running
      BY JobFields
    <2>3. ~Listed(f, n)' /\ \A g \in Futures, m \in Numbers : Listed(g, m)' => Listed(g, m)
      BY <2>1, <2>2 DEF Listed, Popped, JobsInv
    <2>4. \A g \in Futures, m \in Numbers : g # f \/ m # n => cb'[g][m] = cb[g][m]
      BY <2>1
    <2>5. QED
      BY <2>1, <2>3, <2>4 DEF LeftInv
  <1>4. CASE CallbackPop(f, n)
    <2>1. ~Listed(f, n)' /\ \A g \in Futures, m \in Numbers : Listed(g, m)' => Listed(g, m)
      BY <1>4 DEF CallbackPop, Listed
    <2>2. \A g \in Futures, m \in Numbers : g # f \/ m # n => cb'[g][m] = cb[g][m]
      BY <1>4 DEF CallbackPop
    <2>3. QED
      BY <1>4, <2>1, <2>2 DEF LeftInv, CallbackPop
  <1>5. CASE CallbackWake(f, n)
    <2>1. ~Listed(f, n)
      BY <1>5 DEF LeftInv, CallbackWake
    <2>2. \A g \in Futures, m \in Numbers : g # f \/ m # n => cb'[g][m] = cb[g][m]
      BY <1>5 DEF CallbackWake
    <2>3. QED
      BY <1>5, <2>1, <2>2 DEF LeftInv, CallbackWake, Listed
  <1>6. CASE CallbackSettle(f, n)
    <2>1. \A g \in Futures, m \in Numbers :
            cb'[g][m] = IF g = f /\ m = n THEN "pop" ELSE cb[g][m]
      BY <1>6 DEF CallbackSettle
    <2>2. QED
      BY <1>6, <2>1 DEF LeftInv, CallbackSettle, Listed
  <1>7. QED
    BY <1>1, <1>2, <1>3, <1>4, <1>5, <1>6 DEF CallbackStep

\* Every step of the submit thread: a job it starts has a callback ahead of it.
LEMMA ThreadLeaves ==
  ASSUME IInv, LeftInv, SubmitThread
  PROVE  LeftInv'
  <1>1. CASE SubmitNow
    <2>1. /\ sub = "picked" /\ sel \in Job /\ sel.attempt = tries[sel.fut]
          /\ sel.attempt < MaxAttempts
      BY <1>1 DEF SubmitNow, Ready, SubmitInv
    <2>2. /\ sel.fut \in Futures /\ sel.attempt + 1 \in Numbers
          /\ sel.attempt + 1 > tries[sel.fut]
      BY <2>1 DEF Job, TypeOK
    <2>3. cb[sel.fut][sel.attempt + 1] = "none"
      BY <2>2 DEF AttemptsInv, Future
    <2>4. /\ jobs' = Popped(sel) \cup {StartedJob(sel)} /\ cb' = cb
          /\ \A g \in Futures, m \in Numbers :
               g # sel.fut \/ m # sel.attempt + 1 => dstate'[g][m] = dstate[g][m]
      BY <1>1, <2>2 DEF SubmitNow, StartAttempt, TypeOK
    <2>5. \A g \in Futures, m \in Numbers :
            Listed(g, m)' => Listed(g, m) \/ (g = sel.fut /\ m = sel.attempt + 1)
      BY <2>1, <2>4, JobFields DEF Listed, Popped
    <2>6. QED
      BY <2>3, <2>4, <2>5 DEF LeftInv
  <1>2. CASE AttachCallback \/ RunCallback
    <2>1. /\ sub = "submitted" /\ sel.fut \in Futures /\ sel.attempt + 1 \in Numbers
      BY <1>2 DEF AttachCallback, RunCallback, SubmitInv, Job
    <2>2. PICK v \in {"armed", "find"} : cb' = [cb EXCEPT ![sel.fut][sel.attempt + 1] = v]
      BY <1>2 DEF AttachCallback, RunCallback
    <2>3. /\ cb'[sel.fut][sel.attempt + 1] \in {"armed", "find"}
          /\ \A g \in Futures, m \in Numbers :
               g # sel.fut \/ m # sel.attempt + 1 => cb'[g][m] = cb[g][m]
      BY <2>1, <2>2 DEF TypeOK
    <2>4. UNCHANGED <<jobs, dstate>>
      BY <1>2 DEF AttachCallback, RunCallback
    <2>5. QED
      BY <2>3, <2>4 DEF LeftInv, Listed
  <1>3. CASE \/ CheckShutdown \/ ScanPicks \/ ScanFindsNothing
             \/ DiscardJob \/ CopyOutcome \/ CopyMeetsCancelled
             \/ SubmitNowStale \/ SubmitNowRefused \/ AfterCallback
             \/ SleepUntilDue \/ WaitReturns \/ ClearEvent
    BY <1>3, SameCallbacksLeave DEF CheckShutdown, ScanPicks, ScanFindsNothing, DiscardJob,
       CopyOutcome, CopyMeetsCancelled, SubmitNowStale, SubmitNowRefused, AfterCallback,
       SleepUntilDue, WaitReturns, ClearEvent, Popped, Listed
  <1>4. QED
    BY <1>1, <1>2, <1>3 DEF SubmitThread

\* Every step.
LEMMA NextLeaves == IInv /\ LeftInv /\ [Next]_vars => LeftInv'
  <1> SUFFICES ASSUME IInv, LeftInv, [Next]_vars PROVE LeftInv'
    OBVIOUS
  <1>1. ASSUME NEW f \in Futures, Submit(f) PROVE LeftInv'
    BY <1>1, SameCallbacksLeave DEF Submit, NewJob, Listed
  <1>2. CASE SubmitWake \/ Shutdown \/ ShutdownStep \/ Tick \/ UNCHANGED vars
    BY <1>2, SameCallbacksLeave DEF SubmitWake, Shutdown, ShutdownStep, ShutdownWake,
       ShutdownDelegate, DelegateShutdownReturns, JoinSubmitThread, Tick, Listed, vars
  <1>3. QED
    BY <1>1, <1>2, CancelLeaves, CallbackLeaves, ThreadLeaves DEF Next

\* The invariant holds in every state the executor reaches.
LEMMA LeftInvariant == Spec => []LeftInv
  <1>1. Init => LeftInv
    BY DEF Init, LeftInv, Listed
  <1> HIDE DEF IInv
  <1>2. QED
    BY <1>1, NextLeaves, Invariant, PTL DEF Spec
-----------------------------------------------------------------------------
(* What the submit thread can meet as it hands over an old outcome *)

\* The outcome of an attempt is final.
LEMMA OutcomeIsFinal ==
  ASSUME IInv, [Next]_vars, NEW f \in Futures, NEW n \in Numbers,
         dstate[f][n] \in Outcomes
  PROVE  dstate'[f][n] = dstate[f][n]
  <1> USE DEF TypeOK
  <1>1. ASSUME NEW g \in Futures, CancelStep(g) PROVE dstate'[f][n] = dstate[f][n]
    <2>1. CASE CancelDelegate(g)
      <3>1. target[g] \in Numbers
        BY <2>1 DEF CancelDelegate, CancelInv
      <3>2. g # f \/ target[g] # n
        BY <2>1 DEF CancelDelegate
      <3>3. QED
        BY <2>1, <3>1, <3>2 DEF CancelDelegate
    <2>2. CASE CancelDelegateFails(g) \/ CancelReturnsFalse(g) \/ CancelReturnsTrue(g)
      BY <2>2 DEF CancelDelegateFails, CancelReturnsFalse, CancelReturnsTrue
    <2>3. QED
      BY <1>1, <2>1, <2>2 DEF CancelStep
  <1>2. ASSUME NEW g \in Futures, NEW m \in Numbers,
               DelegateFinish(g, m) \/ DelegateCancelledElsewhere(g, m)
        PROVE  dstate'[f][n] = dstate[f][n]
    <2>1. g # f \/ m # n
      BY <1>2 DEF DelegateFinish, DelegateCancelledElsewhere
    <2>2. QED
      BY <1>2, <2>1 DEF DelegateFinish, DelegateCancelledElsewhere
  <1>3. CASE SubmitNow
    <2>1. /\ sel.attempt < MaxAttempts /\ sel \in Job /\ sel.attempt = tries[sel.fut]
          /\ dstate' = [dstate EXCEPT ![sel.fut][sel.attempt + 1] = "live"]
      BY <1>3 DEF SubmitNow, Ready, StartAttempt, SubmitInv
    <2>2. sel.fut \in Futures /\ sel.attempt + 1 \in Numbers
      BY <2>1 DEF Job
    <2>3. dstate[sel.fut][sel.attempt + 1] = "none"
      BY <2>1, <2>2 DEF AttemptsInv, Future
    <2>4. sel.fut # f \/ sel.attempt + 1 # n
      BY <2>3
    <2>5. QED
      BY <2>1, <2>2, <2>4
  <1>4. CASE \/ \E g \in Futures : \/ Submit(g) \/ CancelWaiting(g)
                                   \/ CancelRunning(g) \/ CancelOrphan(g)
             \/ \E g \in Futures, m \in Numbers : CallbackStep(g, m)
             \/ SubmitWake \/ Shutdown \/ ShutdownStep \/ Tick \/ UNCHANGED vars
    BY <1>4 DEF Submit, CancelWaiting, CancelRunning, CancelOrphan, CallCancel, CallbackStep,
       CallbackFind, CallbackRetry, CallbackWake, CallbackSettle, CallbackPop, SubmitWake,
       Shutdown, ShutdownStep, ShutdownWake, ShutdownDelegate, DelegateShutdownReturns,
       JoinSubmitThread, Tick, vars
  <1>5. CASE SubmitThread /\ ~SubmitNow
    BY <1>5 DEF SubmitThread, CheckShutdown, ScanPicks, ScanFindsNothing, DiscardJob,
       CopyOutcome, CopyMeetsCancelled, SubmitNowStale, SubmitNowRefused, AttachCallback,
       RunCallback, AfterCallback, SleepUntilDue, WaitReturns, ClearEvent
  <1>6. QED
    BY <1>1, <1>2, <1>3, <1>4, <1>5 DEF Next

\* A policy may ask for a retry after the n-th attempt of f.
Retriable(f, n) == dstate[f][n] = "error" \/ RetryResults

\* Jobs are told to stop by cancel(), and wait after an attempt that the policy
\* let be retried.
WaitInv ==
  /\ \A j \in jobs :
       /\ j.stop => cancels[j.fut] > 0
       /\ ~j.running /\ j.attempt > 0 => Retriable(j.fut, j.attempt)
  /\ \A f \in Futures, n \in Numbers : cb[f][n] = "retry" => Retriable(f, n)

\* So does the job that the submit thread has picked.  Its future may be cancelled
\* meanwhile: if the job was told to stop before, by a second call.
PickedInv ==
  sub \in {"picked", "copy"} =>
    /\ sel.attempt > 0 => Retriable(sel.fut, sel.attempt)
    /\ state[sel.fut] \in {"pending", "cancelled"}
    /\ sub = "copy" => sel.stop
    /\ sel.stop =>
         /\ cancels[sel.fut] > 0
         /\ canc[sel.fut] = "commit" \/ state[sel.fut] = "cancelled" => cancels[sel.fut] > 1

\* Calls of cancel() are never taken back.
LEMMA CancelsGrow ==
  ASSUME IInv, [Next]_vars, NEW f \in Futures
  PROVE  cancels'[f] \in Nat /\ cancels'[f] >= cancels[f]
  <1> USE DEF TypeOK
  <1>1. ASSUME NEW g \in Futures, CancelWaiting(g) \/ CancelRunning(g) \/ CancelOrphan(g)
        PROVE  cancels'[f] \in Nat /\ cancels'[f] >= cancels[f]
    <2>1. cancels' = [cancels EXCEPT ![g] = @ + 1]
      BY <1>1 DEF CancelWaiting, CancelRunning, CancelOrphan, CallCancel
    <2>2. QED
      BY <2>1
  <1>2. CASE \/ \E g \in Futures : Submit(g) \/ CancelStep(g)
             \/ \E g \in Futures, m \in Numbers :
                  \/ DelegateFinish(g, m) \/ DelegateCancelledElsewhere(g, m)
                  \/ CallbackStep(g, m)
             \/ SubmitWake \/ Shutdown \/ ShutdownStep \/ Tick \/ UNCHANGED vars
    <2>1. cancels' = cancels
      BY <1>2 DEF Submit, CancelStep, CancelDelegate, CancelDelegateFails,
         CancelReturnsFalse, CancelReturnsTrue, DelegateFinish,
         DelegateCancelledElsewhere, CallbackStep, CallbackFind, CallbackRetry,
         CallbackWake, CallbackSettle, CallbackPop, SubmitWake, Shutdown, ShutdownStep,
         ShutdownWake, ShutdownDelegate, DelegateShutdownReturns, JoinSubmitThread,
         Tick, vars
    <2>2. QED
      BY <2>1
  <1>3. CASE SubmitThread
    <2>1. cancels' = cancels
      BY <1>3 DEF SubmitThread, CheckShutdown, ScanPicks, ScanFindsNothing, DiscardJob,
         CopyOutcome, CopyMeetsCancelled, SubmitNow, StartAttempt, SubmitNowStale,
         SubmitNowRefused, AttachCallback, RunCallback, AfterCallback, SleepUntilDue,
         WaitReturns, ClearEvent
    <2>2. QED
      BY <2>1
  <1>4. QED
    BY <1>1, <1>2, <1>3 DEF Next

\* Every step keeps WaitInv.
LEMMA NextWaits ==
  ASSUME IInv, WaitInv, [Next]_vars
  PROVE  WaitInv'
  <1>1. ASSUME NEW j \in jobs
        PROVE  /\ j.stop => cancels'[j.fut] > 0
               /\ ~j.running /\ j.attempt > 0 => Retriable(j.fut, j.attempt)'
    <2>1. j \in Job
      BY DEF TypeOK
    <2>2. j.fut \in Futures /\ (j.attempt > 0 => j.attempt \in Numbers)
      BY <2>1 DEF Job
    <2>3. ~j.running /\ j.attempt > 0 => dstate[j.fut][j.attempt] \in Outcomes
      BY DEF JobsInv, JobInv, Ended
    <2>4. ~j.running /\ j.attempt > 0 => dstate'[j.fut][j.attempt] = dstate[j.fut][j.attempt]
      BY <2>2, <2>3, OutcomeIsFinal
    <2>5. cancels[j.fut] \in Nat /\ cancels'[j.fut] \in Nat /\ cancels'[j.fut] >= cancels[j.fut]
      BY <2>2, CancelsGrow DEF TypeOK
    <2>6. QED
      BY <2>4, <2>5 DEF WaitInv, Retriable
  <1>2. ASSUME NEW f \in Futures, NEW n \in Numbers, cb[f][n] = "retry"
        PROVE  Retriable(f, n)'
    <2>1. dstate[f][n] \in Outcomes
      BY <1>2, CallbackIsLatest DEF Latest
    <2>2. QED
      BY <1>2, <2>1, OutcomeIsFinal DEF WaitInv, Retriable
  <1>3. ASSUME jobs' \subseteq jobs,
               \A f \in Futures, n \in Numbers : cb'[f][n] = "retry" => cb[f][n] = "retry"
        PROVE  WaitInv'
    BY <1>1, <1>2, <1>3 DEF WaitInv
  <1>4. ASSUME NEW k, jobs' \subseteq jobs \cup {k},
               k.stop => cancels'[k.fut] > 0,
               ~k.running /\ k.attempt > 0 => Retriable(k.fut, k.attempt)',
               \A f \in Futures, n \in Numbers : cb'[f][n] = "retry" => cb[f][n] = "retry"
        PROVE  WaitInv'
    BY <1>1, <1>2, <1>4 DEF WaitInv
  <1>5. ASSUME NEW f \in Futures, Submit(f) PROVE WaitInv'
    <2>1. NewJob(f).attempt = 0 /\ ~NewJob(f).stop
      BY DEF NewJob
    <2>2. QED
      BY <1>4, <1>5, <2>1 DEF Submit
  <1>6. ASSUME NEW f \in Futures, CancelRunning(f) PROVE WaitInv'
    <2>1. PICK j \in jobs :
            /\ j.fut = f /\ j.running /\ CallCancel(f)
            /\ jobs' = (jobs \ {j}) \cup {[j EXCEPT !.stop = TRUE]}
      BY <1>6 DEF CancelRunning
    <2>2. PICK k : /\ k.fut = f /\ k.running
                   /\ jobs' = (jobs \ {j}) \cup {k}
      BY <2>1, JobFields DEF TypeOK
    <2>3. cancels'[f] > 0
      BY <2>1 DEF CallCancel, TypeOK
    <2>4. QED
      BY <1>4, <2>1, <2>2, <2>3 DEF CallCancel
  <1>7. ASSUME NEW f \in Futures, NEW n \in Numbers, CallbackRetry(f, n) PROVE WaitInv'
    <2>1. PICK j \in jobs, sleep \in Sleeps :
            /\ cb[f][n] = "retry" /\ j.fut = f /\ j.attempt = n
            /\ jobs' = Popped(j) \cup {RetriedJob(j, sleep)}
            /\ cb' = [cb EXCEPT ![f][n] = "rewake"]
      BY <1>7 DEF CallbackRetry
    <2>2. PICK k : /\ k.fut = f /\ k.attempt = n /\ k.stop = j.stop
                   /\ jobs' = Popped(j) \cup {k}
      <3>1. j \in Job
        BY DEF TypeOK
      <3>2. QED
        BY <2>1, <3>1, JobFields
    <2>3. /\ k.stop => cancels'[k.fut] > 0
          /\ Retriable(f, n)'
      BY <1>1, <1>2, <2>1, <2>2
    <2>4. \A g \in Futures, m \in Numbers : cb'[g][m] = "retry" => cb[g][m] = "retry"
      BY <2>1 DEF TypeOK
    <2>5. QED
      BY <1>4, <2>2, <2>3, <2>4 DEF Popped
  <1>8. CASE SubmitNow
    <2>1. /\ sel \in Job /\ sub = "picked" /\ ~sel.stop
          /\ jobs' = Popped(sel) \cup {StartedJob(sel)} /\ cb' = cb
      BY <1>8 DEF SubmitNow, Ready, StartAttempt, SubmitInv
    <2>2. PICK k : k.running /\ k.stop = sel.stop /\ jobs' = Popped(sel) \cup {k}
      BY <2>1, JobFields
    <2>3. QED
      BY <1>4, <2>1, <2>2 DEF Popped
  <1>9. ASSUME NEW f \in Futures, NEW n \in Numbers, CallbackFind(f, n) PROVE WaitInv'
    <2>1. PICK v \in {"done", "retry", "final"} :
            /\ cb' = [cb EXCEPT ![f][n] = v]
            /\ v = "retry" => Retriable(f, n)
      BY <1>9 DEF CallbackFind, MayRetry, Retriable
    <2>2. UNCHANGED <<jobs, dstate>>
      BY <1>9 DEF CallbackFind
    <2>3. \A g \in Futures, m \in Numbers :
            cb'[g][m] = "retry" => (g = f /\ m = n /\ v = "retry") \/ cb[g][m] = "retry"
      BY <2>1 DEF TypeOK
    <2>4. \A g \in Futures, m \in Numbers : cb'[g][m] = "retry" => Retriable(g, m)
      BY <2>1, <2>3 DEF WaitInv
    <2>5. QED
      BY <1>1, <2>2, <2>4 DEF WaitInv, Retriable
  <1>10. ASSUME NEW f \in Futures, NEW n \in Numbers,
                \/ DelegateFinish(f, n) \/ DelegateCancelledElsewhere(f, n)
                \/ CallbackWake(f, n) \/ CallbackSettle(f, n) \/ CallbackPop(f, n)
         PROVE  WaitInv'
    <2>1. \/ cb' = [cb EXCEPT ![f][n] = IF @ = "armed" THEN "find" ELSE @]
          \/ \E v \in {"done", "pop"} : cb' = [cb EXCEPT ![f][n] = v]
      BY <1>10 DEF DelegateFinish, DelegateCancelledElsewhere, CallbackWake,
         CallbackSettle, CallbackPop
    <2>2. PICK v : cb' = [cb EXCEPT ![f][n] = v] /\ (v = "retry" => v = cb[f][n])
      BY <2>1
    <2>2a. \A g \in Futures, m \in Numbers : cb'[g][m] = "retry" => cb[g][m] = "retry"
      BY <2>2 DEF TypeOK
    <2>3. jobs' \subseteq jobs
      BY <1>10 DEF DelegateFinish, DelegateCancelledElsewhere, CallbackWake,
         CallbackSettle, CallbackPop
    <2>4. QED
      BY <1>3, <2>2a, <2>3
  <1>11. ASSUME NEW f \in Futures, CancelStep(f) PROVE WaitInv'
    <2>1. jobs' = jobs
      BY <1>11 DEF CancelStep, CancelDelegate, CancelDelegateFails, CancelReturnsFalse,
         CancelReturnsTrue
    <2>2. \A g \in Futures, m \in Numbers : cb'[g][m] = "retry" => cb[g][m] = "retry"
      <3>1. CASE CancelDelegate(f)
        BY <3>1 DEF CancelDelegate, CancelInv, TypeOK
      <3>2. CASE ~CancelDelegate(f)
        BY <1>11, <3>2 DEF CancelStep, CancelDelegateFails, CancelReturnsFalse,
           CancelReturnsTrue
      <3>3. QED
        BY <3>1, <3>2
    <2>3. QED
      BY <1>3, <2>1, <2>2
  <1>12. CASE AttachCallback \/ RunCallback
    <2>1. sel.fut \in Futures /\ sel.attempt + 1 \in Numbers
      BY <1>12 DEF AttachCallback, RunCallback, SubmitInv, Job
    <2>2. PICK v \in {"armed", "find"} : cb' = [cb EXCEPT ![sel.fut][sel.attempt + 1] = v]
      BY <1>12 DEF AttachCallback, RunCallback
    <2>3. \A g \in Futures, m \in Numbers : cb'[g][m] = "retry" => cb[g][m] = "retry"
      BY <2>1, <2>2 DEF TypeOK
    <2>4. QED
      BY <1>3, <1>12, <2>3 DEF AttachCallback, RunCallback
  <1>13. CASE \/ \E f \in Futures : CancelWaiting(f) \/ CancelOrphan(f)
              \/ SubmitWake \/ Shutdown \/ ShutdownStep \/ Tick \/ UNCHANGED vars
    <2>1. jobs' \subseteq jobs /\ cb' = cb
      BY <1>13 DEF CancelWaiting, CancelOrphan, CallCancel, SubmitWake, Shutdown,
         ShutdownStep, ShutdownWake, ShutdownDelegate, DelegateShutdownReturns,
         JoinSubmitThread, Tick, vars
    <2>2. QED
      BY <1>3, <2>1
  <1>14. CASE SubmitThread /\ ~(SubmitNow \/ AttachCallback \/ RunCallback)
    <2>1. jobs' \subseteq jobs /\ cb' = cb
      BY <1>14 DEF SubmitThread, CheckShutdown, ScanPicks, ScanFindsNothing, DiscardJob,
         CopyOutcome, CopyMeetsCancelled, SubmitNowStale, SubmitNowRefused, AfterCallback,
         SleepUntilDue, WaitReturns, ClearEvent, Popped
    <2>2. QED
      BY <1>3, <2>1
  <1>15. QED
    BY <1>5, <1>6, <1>7, <1>8, <1>9, <1>10, <1>11, <1>12, <1>13, <1>14
       DEF Next, CallbackStep

\* Steps of others while the submit thread holds the job it has picked.
LEMMA PickedStays ==
  ASSUME IInv, PickedInv, [Next]_vars, UNCHANGED thread, sub \in {"picked", "copy"},
         state'[sel.fut] \in {"pending", "cancelled"},
         sel.stop /\ (canc'[sel.fut] = "commit" \/ state'[sel.fut] = "cancelled") =>
           \/ canc[sel.fut] = "commit" \/ state[sel.fut] = "cancelled"
           \/ cancels'[sel.fut] > 1
  PROVE  PickedInv'
  <1>1. sel \in Job
    BY DEF SubmitInv
  <1>2. sel.fut \in Futures /\ sel.attempt \in 0..MaxAttempts
    BY <1>1 DEF Job
  <1>3. /\ cancels[sel.fut] \in Nat /\ cancels'[sel.fut] \in Nat
        /\ cancels'[sel.fut] >= cancels[sel.fut]
    BY <1>2, CancelsGrow DEF TypeOK
  <1>4. sel.attempt > 0 => Retriable(sel.fut, sel.attempt)'
    <2>1. CASE sel.attempt > 0
      <3>1. sel.attempt \in Numbers
        BY <1>2, <2>1
      <3>2. dstate[sel.fut][sel.attempt] \in Outcomes
        BY <2>1 DEF SubmitInv, Ended
      <3>3. dstate'[sel.fut][sel.attempt] = dstate[sel.fut][sel.attempt]
        BY <1>2, <3>1, <3>2, OutcomeIsFinal
      <3>4. Retriable(sel.fut, sel.attempt)
        BY <2>1 DEF PickedInv
      <3>5. QED
        BY <3>3, <3>4 DEF Retriable
    <2>2. QED
      BY <2>1
  <1>5. QED
    BY <1>3, <1>4 DEF PickedInv

\* Nothing can settle or cancel the delegate future of a picked job: it has ended.
LEMMA PickedIsQuiet ==
  ASSUME IInv, sub \in {"picked", "copy"}
  PROVE  /\ \A n \in Numbers : ~CallbackSettle(sel.fut, n)
         /\ ~CancelDelegate(sel.fut)
  <1>1. sel \in Job /\ ~sel.running
    BY DEF SubmitInv
  <1>2. sel.fut \in Futures /\ sel.attempt = tries[sel.fut]
    BY <1>1 DEF Job, SubmitInv
  <1>3. ASSUME NEW n \in Numbers, CallbackSettle(sel.fut, n) PROVE FALSE
    <2>1. Listed(sel.fut, n)
      <3>1. cb[sel.fut][n] = "final"
        BY <1>3 DEF CallbackSettle
      <3>2. Latest(sel.fut, n)
        BY <1>2, <3>1, CallbackIsLatest
      <3>3. QED
        BY <3>1, <3>2 DEF Latest
    <2>2. QED
      BY <1>1, <2>1 DEF Listed, SubmitInv, JobsInv
  <1>4. ASSUME CancelDelegate(sel.fut) PROVE FALSE
    <2>1. /\ target[sel.fut] > 0 /\ target[sel.fut] <= tries[sel.fut]
          /\ dstate[sel.fut][target[sel.fut]] \in {"live", "cancelled"}
      BY <1>2, <1>4 DEF CancelDelegate, CancelInv
    <2>2. target[sel.fut] \in Numbers /\ tries[sel.fut] \in Nat
      BY <1>2, <2>1 DEF TypeOK
    <2>3. CASE target[sel.fut] < tries[sel.fut]
      BY <1>2, <2>1, <2>2, <2>3 DEF AttemptsInv, Past
    <2>4. CASE target[sel.fut] = tries[sel.fut]
      BY <1>2, <2>1, <2>4 DEF SubmitInv, Ended
    <2>5. QED
      BY <2>1, <2>2, <2>3, <2>4
  <1>5. QED
    BY <1>3, <1>4

\* Every step keeps PickedInv.
LEMMA NextPicked ==
  ASSUME IInv, WaitInv, PickedInv, [Next]_vars
  PROVE  PickedInv'
  <1>1. CASE sub' \notin {"picked", "copy"}
    BY <1>1 DEF PickedInv
  <1>2. CASE ScanPicks
    <2>1. sel' \in jobs /\ ~sel'.running /\ sub' = "picked"
          /\ UNCHANGED <<futures, delegates, cancelling>>
      BY <1>2 DEF ScanPicks, NextJobs
    <2>2. state[sel'.fut] = "pending" /\ canc[sel'.fut] # "commit"
      BY <2>1 DEF JobsInv, JobInv
    <2>3. /\ sel'.stop => cancels[sel'.fut] > 0
          /\ sel'.attempt > 0 => Retriable(sel'.fut, sel'.attempt)
      BY <2>1 DEF WaitInv
    <2>4. QED
      BY <2>1, <2>2, <2>3 DEF PickedInv, Retriable
  <1>3. CASE DiscardJob
    BY <1>3 DEF DiscardJob, PickedInv, Retriable
  <1>4. CASE sub' \in {"picked", "copy"} /\ UNCHANGED thread
    <2> SUFFICES /\ state'[sel.fut] \in {"pending", "cancelled"}
                 /\ sel.stop /\ (canc'[sel.fut] = "commit" \/ state'[sel.fut] = "cancelled") =>
                      \/ canc[sel.fut] = "commit" \/ state[sel.fut] = "cancelled"
                      \/ cancels'[sel.fut] > 1
      BY <1>4, PickedStays
    <2>1. sel.fut \in Futures /\ sub \in {"picked", "copy"}
      BY <1>4 DEF SubmitInv, Job
    <2>2. state[sel.fut] \in {"pending", "cancelled"}
      BY <2>1 DEF PickedInv
    <2>3. ASSUME UNCHANGED state, canc'[sel.fut] = "commit" => canc[sel.fut] = "commit"
          PROVE  /\ state'[sel.fut] \in {"pending", "cancelled"}
                 /\ canc'[sel.fut] = "commit" \/ state'[sel.fut] = "cancelled" =>
                      canc[sel.fut] = "commit" \/ state[sel.fut] = "cancelled"
      BY <2>2, <2>3
    <2>4. ASSUME NEW f \in Futures, Submit(f)
          PROVE  state'[sel.fut] = state[sel.fut] /\ canc' = canc
      <3>1. f # sel.fut
        BY <2>2, <2>4 DEF Submit
      <3>2. QED
        BY <2>4, <3>1 DEF Submit, TypeOK
    <2>5. ASSUME NEW f \in Futures, CancelWaiting(f)
          PROVE  /\ state' = state
                 /\ \/ canc'[sel.fut] = canc[sel.fut]
                    \/ sel.stop => cancels'[sel.fut] > 1
      <3>1. /\ state' = state
            /\ canc' = [canc EXCEPT ![f] = "commit"]
            /\ cancels' = [cancels EXCEPT ![f] = @ + 1]
        BY <2>5 DEF CancelWaiting, CallCancel
      <3>2. sel.stop => cancels[sel.fut] > 0
        BY <2>1 DEF PickedInv
      <3>3. CASE f = sel.fut
        BY <2>1, <3>1, <3>2, <3>3 DEF TypeOK
      <3>4. CASE f # sel.fut
        BY <2>1, <3>1, <3>4 DEF TypeOK
      <3>5. QED
        BY <3>1, <3>3, <3>4
    <2>6. ASSUME NEW f \in Futures, CancelRunning(f) \/ CancelOrphan(f)
          PROVE  state' = state /\ (canc'[sel.fut] = "commit" => canc[sel.fut] = "commit")
      <3>1. PICK v \in {"delegate", "orphan"} : canc' = [canc EXCEPT ![f] = v]
        BY <2>6 DEF CancelRunning, CancelOrphan
      <3>2. QED
        BY <2>1, <2>6, <3>1 DEF CancelRunning, CancelOrphan, CallCancel, TypeOK
    <2>7. ASSUME NEW f \in Futures, CancelStep(f)
          PROVE  /\ state'[sel.fut] \in {"pending", "cancelled"}
                 /\ canc'[sel.fut] = "commit" \/ state'[sel.fut] = "cancelled" =>
                      canc[sel.fut] = "commit" \/ state[sel.fut] = "cancelled"
      <3>1. CASE CancelDelegate(f)
        <4>1. f # sel.fut
          BY <2>1, <3>1, PickedIsQuiet
        <4>2. state' = state /\ canc'[sel.fut] = canc[sel.fut]
          BY <2>1, <3>1, <4>1 DEF CancelDelegate, TypeOK
        <4>3. QED
          BY <2>2, <4>2
      <3>2. CASE CancelDelegateFails(f) \/ CancelReturnsFalse(f)
        <4>1. PICK v \in {"refused", "idle"} : canc' = [canc EXCEPT ![f] = v]
          BY <3>2 DEF CancelDelegateFails, CancelReturnsFalse
        <4>2. state' = state
          BY <3>2 DEF CancelDelegateFails, CancelReturnsFalse
        <4>3. QED
          BY <2>1, <2>3, <4>1, <4>2 DEF TypeOK
      <3>3. CASE CancelReturnsTrue(f)
        <4>1. /\ canc[f] = "commit"
              /\ state' = [state EXCEPT ![f] = "cancelled"]
              /\ canc' = [canc EXCEPT ![f] = "idle"]
          BY <3>3 DEF CancelReturnsTrue
        <4>2. CASE f = sel.fut
          BY <2>1, <4>1, <4>2 DEF TypeOK
        <4>3. CASE f # sel.fut
          <5>1. state'[sel.fut] = state[sel.fut] /\ canc'[sel.fut] = canc[sel.fut]
            BY <2>1, <4>1, <4>3 DEF TypeOK
          <5>2. QED
            BY <2>2, <5>1
        <4>4. QED
          BY <4>2, <4>3
      <3>4. QED
        BY <2>7, <3>1, <3>2, <3>3 DEF CancelStep
    <2>8. ASSUME NEW f \in Futures, NEW n \in Numbers, CallbackSettle(f, n)
          PROVE  state'[sel.fut] = state[sel.fut] /\ canc' = canc
      <3>1. f # sel.fut
        BY <2>1, <2>8, PickedIsQuiet
      <3>2. QED
        BY <2>1, <2>8, <3>1 DEF CallbackSettle, TypeOK
    <2>9. CASE \/ \E f \in Futures, n \in Numbers :
                    \/ DelegateFinish(f, n) \/ DelegateCancelledElsewhere(f, n)
                    \/ CallbackStep(f, n) /\ ~CallbackSettle(f, n)
               \/ SubmitWake \/ Shutdown \/ ShutdownStep \/ Tick \/ UNCHANGED vars
      <3>1. UNCHANGED <<state, canc>>
        BY <2>9 DEF DelegateFinish, DelegateCancelledElsewhere, CallbackStep,
           CallbackFind, CallbackRetry, CallbackWake, CallbackPop, SubmitWake, Shutdown,
           ShutdownStep, ShutdownWake, ShutdownDelegate, DelegateShutdownReturns,
           JoinSubmitThread, Tick, vars
      <3>2. QED
        BY <2>3, <3>1
    <2>10. CASE SubmitThread
      <3>1. FALSE
        BY <1>4, <2>1, <2>10 DEF SubmitThread, CheckShutdown, ScanPicks, ScanFindsNothing,
           DiscardJob, CopyOutcome, CopyMeetsCancelled, SubmitNow, StartAttempt,
           SubmitNowStale, SubmitNowRefused, AttachCallback, RunCallback, AfterCallback,
           SleepUntilDue, WaitReturns, ClearEvent
      <3>2. QED
        BY <3>1
    <2>11. QED
      BY <2>2, <2>3, <2>4, <2>5, <2>6, <2>7, <2>8, <2>9, <2>10 DEF Next, CallbackStep
  <1>5. CASE SubmitThread
    BY <1>1, <1>2, <1>3, <1>5 DEF SubmitThread, CheckShutdown, ScanFindsNothing,
       CopyOutcome, CopyMeetsCancelled, SubmitNow, StartAttempt, SubmitNowStale,
       SubmitNowRefused, AttachCallback, RunCallback, AfterCallback, SleepUntilDue,
       WaitReturns, ClearEvent
  <1>6. CASE ~SubmitThread
    <2>1. UNCHANGED thread
      BY <1>6 DEF Next, Submit, CancelWaiting, CancelRunning, CancelOrphan, CallCancel,
         CancelStep, CancelDelegate, CancelDelegateFails, CancelReturnsFalse,
         CancelReturnsTrue, DelegateFinish, DelegateCancelledElsewhere, CallbackStep,
         CallbackFind, CallbackRetry, CallbackWake, CallbackSettle, CallbackPop,
         SubmitWake, Shutdown, ShutdownStep, ShutdownWake, ShutdownDelegate,
         DelegateShutdownReturns, JoinSubmitThread, Tick, vars
    <2>2. QED
      BY <1>1, <1>4, <2>1
  <1>7. QED
    BY <1>5, <1>6

\* The invariant holds in every state the executor reaches.
LEMMA PickedInvariant == Spec => [](WaitInv /\ PickedInv)
  <1>1. Init => WaitInv /\ PickedInv
    BY DEF Init, WaitInv, PickedInv
  <1> HIDE DEF IInv
  <1>2. QED
    BY <1>1, NextWaits, NextPicked, Invariant, PTL DEF Spec

\* A future that the submit thread finds cancelled ends it (retry.py:511-513) in one
\* way only: the policy let a result be retried, and the second of two calls of
\* cancel() overtook the thread, which was to hand that result over because of the
\* first.
KilledByLateResult ==
  sub' = "dead" =>
    \/ sub = "dead"
    \/ /\ RetryResults
       /\ dstate[sel.fut][sel.attempt] = "result"
       /\ state[sel.fut] = "cancelled" /\ cancels[sel.fut] > 1

\* The only way the submit thread dies.
THEOREM OnlyLateResultKills == Spec => [][KilledByLateResult]_vars
  <1>1. ASSUME IInv, PickedInv, Next, sub' = "dead", sub # "dead"
        PROVE  /\ RetryResults
               /\ dstate[sel.fut][sel.attempt] = "result"
               /\ state[sel.fut] = "cancelled" /\ cancels[sel.fut] > 1
    <2>1. CASE SubmitThread
      <3>1. CopyMeetsCancelled
        BY <1>1, <2>1 DEF SubmitThread, CheckShutdown, ScanPicks, ScanFindsNothing,
           DiscardJob, CopyOutcome, SubmitNow, StartAttempt, SubmitNowStale,
           SubmitNowRefused, AttachCallback, RunCallback, AfterCallback, SleepUntilDue,
           WaitReturns, ClearEvent
      <3>2. /\ sub = "copy" /\ state[sel.fut] # "pending"
            /\ dstate[sel.fut][sel.attempt] # "error"
        BY <1>1, <3>1 DEF CopyMeetsCancelled
      <3>3. /\ state[sel.fut] = "cancelled" /\ cancels[sel.fut] > 1
            /\ sel.attempt > 0 => Retriable(sel.fut, sel.attempt)
        BY <1>1, <3>2 DEF PickedInv
      <3>4. sel.attempt > 0 /\ dstate[sel.fut][sel.attempt] \in Outcomes
        BY <1>1, <3>2 DEF SubmitInv, Ended
      <3>5. QED
        BY <3>2, <3>3, <3>4 DEF Retriable
    <2>2. CASE ~SubmitThread
      <3>1. UNCHANGED thread
        BY <1>1, <2>2 DEF Next, Submit, CancelWaiting, CancelRunning, CancelOrphan,
           CallCancel, CancelStep, CancelDelegate, CancelDelegateFails,
           CancelReturnsFalse, CancelReturnsTrue, DelegateFinish,
           DelegateCancelledElsewhere, CallbackStep, CallbackFind, CallbackRetry,
           CallbackWake, CallbackSettle, CallbackPop, SubmitWake, Shutdown,
           ShutdownStep, ShutdownWake, ShutdownDelegate, DelegateShutdownReturns,
           JoinSubmitThread, Tick, vars
      <3>2. QED
        BY <1>1, <3>1
    <2>3. QED
      BY <2>1, <2>2
  <1>2. IInv /\ PickedInv /\ [Next]_vars => [KilledByLateResult]_vars
    BY <1>1 DEF KilledByLateResult
  <1> HIDE DEF IInv
  <1>3. QED
    BY <1>2, Invariant, PickedInvariant, PTL DEF Spec

\* The submit thread survives every order of calls if policies retry errors only, as
\* ExceptionRetryPolicy does (retry.py:80-88).
THEOREM ErrorRetriesAreSafe ==
  ASSUME ~RetryResults
  PROVE  Spec => []SubmitThreadSurvives
  <1>1. Init => SubmitThreadSurvives
    BY DEF Init, SubmitThreadSurvives
  <1>2. SubmitThreadSurvives /\ [KilledByLateResult]_vars => SubmitThreadSurvives'
    BY DEF SubmitThreadSurvives, KilledByLateResult, vars
  <1>3. QED
    BY <1>1, <1>2, OnlyLateResultKills, PTL DEF Spec

-----------------------------------------------------------------------------
(* The assertion of _cancel, and what a callback leaves in the list *)

\* The assertion of _cancel (retry.py:395-400) fails only for a second call of
\* cancel(), or once the delegate has been told to shut down.
FirstCancelFindsJob ==
  \A f \in Futures : canc[f] = "orphan" => cancels[f] > 1 \/ DelegateClosed

\* The steps of everybody but cancel().
LEMMA OthersKeepOrphans ==
  ASSUME IInv, [Next]_vars, NEW f \in Futures, canc'[f] = "orphan", ~CancelOrphan(f)
  PROVE  canc[f] = "orphan" /\ (DelegateClosed => DelegateClosed')
  <1> USE DEF TypeOK
  <1>1. ASSUME NEW g \in Futures, CancelWaiting(g) \/ CancelRunning(g)
        PROVE  canc[f] = "orphan" /\ shut' = shut
    <2>1. PICK v \in {"commit", "delegate"} : canc' = [canc EXCEPT ![g] = v]
      BY <1>1 DEF CancelWaiting, CancelRunning
    <2>2. QED
      BY <1>1, <2>1 DEF CancelWaiting, CancelRunning, CallCancel
  <1>2. ASSUME NEW g \in Futures, CancelOrphan(g)
        PROVE  canc[f] = "orphan" /\ shut' = shut
    BY <1>2 DEF CancelOrphan, CallCancel
  <1>3. ASSUME NEW g \in Futures, CancelStep(g)
        PROVE  canc[f] = "orphan" /\ shut' = shut
    <2>1. PICK v \in {"commit", "refused", "idle"} : canc' = [canc EXCEPT ![g] = v]
      BY <1>3 DEF CancelStep, CancelDelegate, CancelDelegateFails, CancelReturnsFalse,
         CancelReturnsTrue
    <2>2. shut' = shut
      BY <1>3 DEF CancelStep, CancelDelegate, CancelDelegateFails, CancelReturnsFalse,
         CancelReturnsTrue
    <2>3. QED
      BY <2>1, <2>2
  <1>4. CASE \/ \E g \in Futures : Submit(g)
             \/ \E g \in Futures, m \in Numbers :
                  \/ DelegateFinish(g, m) \/ DelegateCancelledElsewhere(g, m)
                  \/ CallbackStep(g, m)
             \/ SubmitWake \/ Shutdown \/ ShutdownStep \/ Tick \/ UNCHANGED vars
    BY <1>4 DEF Submit, DelegateFinish, DelegateCancelledElsewhere, CallbackStep,
       CallbackFind, CallbackRetry, CallbackWake, CallbackSettle, CallbackPop, SubmitWake,
       Shutdown, ShutdownStep, ShutdownWake, ShutdownDelegate, DelegateShutdownReturns,
       JoinSubmitThread, Tick, vars, DelegateClosed
  <1>5. CASE SubmitThread
    BY <1>5 DEF SubmitThread, CheckShutdown, ScanPicks, ScanFindsNothing, DiscardJob,
       CopyOutcome, CopyMeetsCancelled, SubmitNow, StartAttempt, SubmitNowStale,
       SubmitNowRefused, AttachCallback, RunCallback, AfterCallback, SleepUntilDue,
       WaitReturns, ClearEvent, DelegateClosed
  <1>6. QED
    BY <1>1, <1>2, <1>3, <1>4, <1>5 DEF Next, DelegateClosed

\* How the assertion can fail.
THEOREM OrphansAreCancelledTwice == Spec => []FirstCancelFindsJob
  <1>1. Init => FirstCancelFindsJob
    BY DEF Init, FirstCancelFindsJob
  <1>2. ASSUME IInv, PickedInv, PendingIsAccountedFor, FirstCancelFindsJob, [Next]_vars
        PROVE  FirstCancelFindsJob'
    <2> SUFFICES ASSUME NEW f \in Futures, canc'[f] = "orphan"
                 PROVE  cancels'[f] > 1 \/ DelegateClosed'
      BY DEF FirstCancelFindsJob
    <2>1. /\ cancels[f] \in Nat /\ cancels'[f] \in Nat /\ cancels'[f] >= cancels[f]
      BY <1>2, CancelsGrow DEF TypeOK
    <2>2. CASE CancelOrphan(f)
      <3>1. /\ state[f] = "pending" /\ canc[f] # "commit" /\ \A j \in jobs : j.fut # f
            /\ cancels'[f] = cancels[f] + 1 /\ shut' = shut
        BY <1>2, <2>2 DEF CancelOrphan, CallCancel, TypeOK
      <3>2. sub = "copy" /\ sel.fut = f => cancels[f] > 0
        BY <1>2 DEF PickedInv
      <3>3. QED
        BY <1>2, <2>1, <3>1, <3>2 DEF PendingIsAccountedFor, DelegateClosed
    <2>3. CASE ~CancelOrphan(f)
      <3>1. canc[f] = "orphan" /\ (DelegateClosed => DelegateClosed')
        BY <1>2, <2>3, OthersKeepOrphans
      <3>2. cancels[f] > 1 \/ DelegateClosed
        BY <1>2, <3>1 DEF FirstCancelFindsJob
      <3>3. QED
        BY <2>1, <3>1, <3>2
    <2>4. QED
      BY <2>2, <2>3
  <1> HIDE DEF IInv
  <1>3. QED
    BY <1>1, <1>2, Invariant, PickedInvariant, NoneIsForgotten, PTL DEF Spec

\* A callback that has returned leaves a running job in the list only if its delegate
\* future was cancelled (retry.py:435-438).
LeftByCancelOnly ==
  \A j \in jobs :
    j.running /\ cb[j.fut][j.attempt] = "done" => dstate[j.fut][j.attempt] = "cancelled"

\* What a callback leaves in the list.
THEOREM CallbacksLeaveCancelled == Spec => []LeftByCancelOnly
  <1>1. IInv /\ LeftInv => LeftByCancelOnly
    <2> SUFFICES ASSUME IInv, LeftInv, NEW j \in jobs,
                        j.running, cb[j.fut][j.attempt] = "done"
                 PROVE  dstate[j.fut][j.attempt] = "cancelled"
      BY DEF LeftByCancelOnly
    <2>1. j.fut \in Futures /\ j.attempt \in Numbers
      BY DEF TypeOK, Job, JobsInv, JobInv
    <2>2. Listed(j.fut, j.attempt)
      BY DEF Listed
    <2>3. QED
      BY <2>1, <2>2 DEF LeftInv
  <1> HIDE DEF IInv
  <1>2. QED
    BY <1>1, Invariant, LeftInvariant, PTL

-----------------------------------------------------------------------------
(* Nothing is stuck: what FuturesSettle and ShutdownReturns rest on *)

\* Each thread has ended or waits: for an event, a timer, or a lock; and no time is
\* left to pass.  These are the negated guards of the actions of Fairness.
ThreadRests ==
  \/ sub \in {"exited", "dead"}
  \/ sub = "waiting" /\ ~event /\ ~TimerFired
  \/ sub = "picked" /\ ~sel.stop /\ sel.when <= now /\ ~Unlocked(sel.fut)
  \/ sub = "copy" /\ ~Unlocked(sel.fut)
  \/ sub = "incallback" /\ cb[sel.fut][sel.attempt + 1] # "done"

CallbackRests(f, n) ==
  /\ dstate[f][n] # "live"
  /\ cb[f][n] \notin {"rewake", "pop"}
  /\ cb[f][n] \in {"find", "retry"} => ~Listed(f, n)
  /\ cb[f][n] = "final" => ~Unlocked(f) \/ state[f] # "pending"

ShutdownRests ==
  /\ shut \notin {"flagged", "woken"}
  /\ shut = "closing" => \E f \in Futures, n \in Numbers : WorkerBusy(f, n)
  /\ shut = "joining" => sub \notin {"exited", "dead"}

AtRest ==
  /\ ThreadRests /\ ShutdownRests /\ placing = Nobody
  /\ \A f \in Futures : canc[f] \notin {"delegate", "commit", "refused"}
  /\ \A f \in Futures, n \in Numbers : CallbackRests(f, n)
  /\ \A j \in jobs : ~j.running => j.when <= now

\* What is true then: shutdown() has not been called or has returned; and with the
\* executor in service a future is pending only behind a delegate future that
\* somebody else cancelled, or if the submit thread is dead.
NothingIsStuck ==
  AtRest =>
    /\ shut \in {"open", "returned"}
    /\ shut = "open" /\ sub # "dead" =>
         \A f \in Futures : state[f] = "pending" => LatestAttempt[f] = "cancelled"

\* The submit thread leaves its loop after a shutdown only.
LEMMA ExitsOnShutdown == Spec => [](sub = "exited" => shut # "open")
  <1> DEFINE Exits == sub = "exited" => shut # "open"
  <1>1. Init => Exits
    BY DEF Init
  <1>2. Exits /\ [Next]_vars => Exits'
    <2> SUFFICES ASSUME Exits, [Next]_vars PROVE Exits'
      OBVIOUS
    <2>1. CASE SubmitThread
      BY <2>1 DEF SubmitThread, CheckShutdown, ScanPicks, ScanFindsNothing, DiscardJob,
         CopyOutcome, CopyMeetsCancelled, SubmitNow, StartAttempt, SubmitNowStale,
         SubmitNowRefused, AttachCallback, RunCallback, AfterCallback, SleepUntilDue,
         WaitReturns, ClearEvent, DelegateClosed
    <2>2. CASE Shutdown \/ ShutdownStep
      BY <2>2 DEF Shutdown, ShutdownStep, ShutdownWake, ShutdownDelegate,
         DelegateShutdownReturns, JoinSubmitThread
    <2>3. CASE ~SubmitThread /\ ~Shutdown /\ ~ShutdownStep
      <3>1. UNCHANGED <<sub, shut>>
        BY <2>3 DEF Next, Submit, CancelWaiting, CancelRunning, CancelOrphan, CallCancel,
           CancelStep, CancelDelegate, CancelDelegateFails, CancelReturnsFalse,
           CancelReturnsTrue, DelegateFinish, DelegateCancelledElsewhere, CallbackStep,
           CallbackFind, CallbackRetry, CallbackWake, CallbackSettle, CallbackPop,
           SubmitWake, Tick, vars
      <3>2. QED
        BY <3>1
    <2>4. QED
      BY <2>1, <2>2, <2>3
  <1>3. QED
    BY <1>1, <1>2, PTL DEF Spec

\* No lock is kept at rest, and every callback has returned.
LEMMA RestIsQuiet ==
  ASSUME IInv, AtRest
  PROVE  /\ \A f \in Futures : Unlocked(f)
         /\ \A f \in Futures, n \in Numbers : n = tries[f] => cb[f][n] = "done"
         /\ \A f \in Futures, n \in Numbers : cb[f][n] \in {"none", "done"}
         /\ sub \in {"exited", "dead"} \/ (sub = "waiting" /\ ~event /\ ~TimerFired)
  <1>1. ASSUME NEW f \in Futures PROVE Unlocked(f)
    BY DEF AtRest
  <1>2. sub \notin {"picked", "copy"}
    BY <1>1 DEF AtRest, ThreadRests, SubmitInv, Job
  <1>3. sub # "submitted"
    BY DEF AtRest, ThreadRests
  <1>4. ASSUME NEW f \in Futures, NEW n \in Numbers, n = tries[f]
        PROVE  cb[f][n] = "done"
    <2>1. Latest(f, n) /\ CallbackRests(f, n)
      BY <1>4 DEF AttemptsInv, AtRest
    <2>2. cb[f][n] \in {"none", "armed", "find", "retry", "rewake", "final", "pop", "done"}
      BY DEF TypeOK
    <2>3. cb[f][n] # "none"
      BY <1>3, <2>1 DEF Latest
    <2>4. cb[f][n] \notin {"armed", "rewake", "pop"}
      BY <2>1 DEF Latest, CallbackRests
    <2>5. cb[f][n] \notin {"find", "retry", "final"}
      BY <1>1, <2>1 DEF Latest, CallbackRests
    <2>6. QED
      BY <2>2, <2>3, <2>4, <2>5
  <1>5. ASSUME NEW f \in Futures, NEW n \in Numbers PROVE cb[f][n] \in {"none", "done"}
    <2>1. tries[f] \in Nat
      BY DEF TypeOK
    <2>2. CASE n > tries[f]
      BY <2>2 DEF AttemptsInv, Future
    <2>3. CASE n < tries[f]
      BY <2>3 DEF AttemptsInv, Past, AtRest, CallbackRests
    <2>4. CASE n = tries[f]
      BY <1>4, <2>4
    <2>5. QED
      BY <2>1, <2>2, <2>3, <2>4
  <1>6. sub # "incallback"
    <2>1. SUFFICES ASSUME sub = "incallback" PROVE FALSE
      OBVIOUS
    <2>2. sel.fut \in Futures /\ sel.attempt + 1 \in Numbers /\ tries[sel.fut] = sel.attempt + 1
      BY <2>1 DEF SubmitInv, Job
    <2>3. cb[sel.fut][sel.attempt + 1] = "done"
      BY <1>4, <2>2
    <2>4. QED
      BY <2>1, <2>3 DEF AtRest, ThreadRests
  <1>7. QED
    BY <1>1, <1>2, <1>4, <1>5, <1>6 DEF AtRest, ThreadRests

\* When no step is left to take, every future has settled and every call returned.
THEOREM ExecutorIsNeverStuck == Spec => []NothingIsStuck
  <1> DEFINE Exits == sub = "exited" => shut # "open"
  <1>1. ASSUME IInv, LeftInv, Exits, NoOversleep, PendingIsAccountedFor, AtRest
        PROVE  /\ shut \in {"open", "returned"}
               /\ shut = "open" /\ sub # "dead" =>
                    \A f \in Futures :
                      state[f] = "pending" => LatestAttempt[f] = "cancelled"
    <2>1. /\ \A f \in Futures : Unlocked(f)
          /\ \A f \in Futures, n \in Numbers : cb[f][n] \in {"none", "done"}
          /\ sub \in {"exited", "dead"} \/ (sub = "waiting" /\ ~event /\ ~TimerFired)
      BY <1>1, RestIsQuiet
    <2>2. ~WakeComing
      BY <1>1, <2>1 DEF WakeComing, AtRest, ShutdownRests
    <2>3. sub = "waiting" => shut = "open"
      BY <2>1, <2>2, <1>1 DEF NoOversleep
    <2>4. shut \in {"open", "returned"}
      <3>1. \A f \in Futures, n \in Numbers : ~WorkerBusy(f, n)
        BY <1>1, <2>1 DEF WorkerBusy, AtRest, CallbackRests
      <3>2. shut \notin {"flagged", "woken", "closing", "joining"}
        BY <1>1, <2>1, <2>3, <3>1 DEF AtRest, ShutdownRests
      <3>3. QED
        BY <1>1, <3>2 DEF TypeOK
    <2>5. ASSUME shut = "open", sub # "dead", NEW f \in Futures, state[f] = "pending"
          PROVE  LatestAttempt[f] = "cancelled"
      <3>1. sub = "waiting" /\ ~event /\ ~TimerFired
        BY <1>1, <2>1, <2>5
      <3>2. ASSUME NEW j \in jobs, ~j.running PROVE FALSE
        <4>1. sel # NoJob /\ sel.when <= j.when /\ j.when <= now
          BY <1>1, <2>2, <3>1, <3>2 DEF NoOversleep, AtRest
        <4>2. sel \in Job /\ j \in Job
          BY <1>1, <4>1 DEF TypeOK
        <4>3. sel.when \in Nat /\ j.when \in Nat /\ now \in Nat
          BY <1>1, <4>2 DEF Job, TypeOK
        <4>4. QED
          BY <3>1, <4>1, <4>3 DEF TimerFired
      <3>3. PICK j \in jobs : j.fut = f
        BY <1>1, <2>1, <2>5, <3>1 DEF PendingIsAccountedFor, DelegateClosed
      <3>4. j.running /\ j.attempt > 0 /\ j.attempt = tries[f]
        BY <1>1, <3>2, <3>3 DEF JobsInv, JobInv
      <3>5. tries[f] \in Numbers
        BY <1>1, <3>4 DEF TypeOK
      <3>6. cb[f][tries[f]] = "done"
        BY <1>1, <3>5, RestIsQuiet
      <3>7. Listed(f, tries[f])
        BY <3>3, <3>4 DEF Listed
      <3>8. dstate[f][tries[f]] = "cancelled"
        BY <1>1, <3>5, <3>6, <3>7 DEF LeftInv
      <3>9. QED
        BY <3>5, <3>8 DEF LatestAttempt
    <2>6. QED
      BY <2>4, <2>5
  <1>2. IInv /\ LeftInv /\ Exits /\ NoOversleep /\ PendingIsAccountedFor => NothingIsStuck
    BY <1>1 DEF NothingIsStuck
  <1> HIDE DEF IInv
  <1>3. QED
    BY <1>2, Invariant, LeftInvariant, ExitsOnShutdown, NoWakeUpIsLost, NoneIsForgotten, PTL
=============================================================================
