------------------------ MODULE ThrottleExecutorProofs ------------------------
(***************************************************************************)
(* Proofs about ThrottleExecutor, for any finite set of futures, any       *)
(* limits and any changes of them.                                         *)
(***************************************************************************)
EXTENDS ThrottleExecutor, SequenceTheorems, FiniteSetTheorems, TLAPS

\* The submit thread has submitted f and is not done with it.
Submitting(f) ==
  Current(f) /\ sub \in {"tally", "intally", "link", "resolve", "inresolve"}

\* No job is listed twice.
QueueInv ==
  /\ IsInjective(queue) /\ IsInjective(batch)
  /\ Range(queue) \cap Range(batch) = {}

\* When the submit thread has a batch.
ThreadInv ==
  /\ batch # <<>> =>
       sub \in {"fill", "start", "tally", "intally", "link", "resolve",
                "inresolve", "exited"}
  /\ sub \in {"tally", "intally", "link", "resolve", "inresolve"} => batch # <<>>

\* The batch was taken under the limit, and the count has only gone down since.
LimitInv == batch # <<>> /\ limit # None => running <= limit

\* A future without a delegate future is in the queue or in the batch, unless
\* cancel() has taken it away.
Waiting(f) ==
  /\ tally[f] = "none" /\ resolve[f] = "none" /\ ~linked[f]
  /\ ~Submitting(f)
  /\ f \in Range(queue) \cup Range(batch) => state[f] = "pending" /\ canc[f] = "idle"
  /\ f \notin Range(queue) \cup Range(batch) =>
       \/ state[f] \in {"unborn", "cancelled"} /\ canc[f] = "idle"
       \/ state[f] = "pending" /\ canc[f] = "commit"

\* What is true of a delegate future and its callbacks.
Callbacks(f) ==
  /\ tally[f] = "none" <=> Current(f) /\ sub = "tally"
  /\ tally[f] = "armed" => dstate[f] = "live"
  /\ dstate[f] = "live" => tally[f] \in {"none", "armed"} /\ resolve[f] \in {"none", "armed"}
  /\ resolve[f] = "none" <=> Current(f) /\ sub \in {"tally", "intally", "link", "resolve"}
  /\ resolve[f] = "armed" => dstate[f] = "live"
  /\ resolve[f] = "settle" => dstate[f] \in Outcomes
  /\ linked[f] <=> resolve[f] \in {"armed", "unlink"} \/ (Current(f) /\ sub = "resolve")

\* A future with a delegate future.
Begun(f) ==
  /\ f \notin Range(queue)
  /\ f \in Range(batch) => Submitting(f)
  /\ Callbacks(f)
  /\ dstate[f] = "live" => state[f] = "pending"
  /\ dstate[f] \in Outcomes =>
       state[f] = IF resolve[f] = "done" THEN dstate[f] ELSE "pending"
  /\ dstate[f] = "cancelled" => state[f] \in {"pending", "cancelled"}
  /\ canc[f] # "idle" => dstate[f] = "cancelled" /\ state[f] = "pending"

FuturesInv ==
  \A f \in Futures : IF dstate[f] = "none" THEN Waiting(f) ELSE Begun(f)

IInv ==
  TypeOK /\ QueueInv /\ ThreadInv /\ LimitInv /\ FuturesInv /\ CountIsExact

-----------------------------------------------------------------------------
(* Sequences and counting *)

\* A sequence without repetitions, such as the queue and the batch: its first
\* element, and the sequence without it.
LEMMA HeadAndTail ==
  ASSUME NEW S, NEW s \in Seq(S), s # <<>>, IsInjective(s)
  PROVE  /\ Head(s) \in S /\ Head(s) \in Range(s)
         /\ Tail(s) \in Seq(S) /\ IsInjective(Tail(s))
         /\ Range(Tail(s)) = Range(s) \ {Head(s)}
<1>1. Len(s) \in Nat /\ Len(s) > 0 /\ DOMAIN s = 1..Len(s) /\ Head(s) = s[1]
  OBVIOUS
<1>2. /\ Tail(s) \in Seq(S) /\ DOMAIN Tail(s) = 1..(Len(s) - 1)
      /\ \A i \in 1..(Len(s) - 1) : Tail(s)[i] = s[i + 1]
  OBVIOUS
<1>3. Head(s) \in S /\ Head(s) \in Range(s)
  BY <1>1 DEF Range
<1>4. IsInjective(Tail(s))
  BY <1>1, <1>2 DEF IsInjective
<1>5. ASSUME NEW x \in Range(s), x # Head(s) PROVE x \in Range(Tail(s))
  <2>1. PICK i \in 1..Len(s) : x = s[i]
    BY <1>1 DEF Range
  <2>2. i - 1 \in 1..(Len(s) - 1) /\ Tail(s)[i - 1] = x
    BY <1>1, <1>2, <1>5, <2>1
  <2> QED
    BY <1>2, <2>2 DEF Range
<1>6. ASSUME NEW x \in Range(Tail(s)) PROVE x \in Range(s) /\ x # Head(s)
  <2>1. PICK i \in 1..(Len(s) - 1) : x = s[i + 1]
    BY <1>2 DEF Range
  <2>2. i + 1 \in 1..Len(s) /\ i + 1 # 1
    BY <1>1, <2>1
  <2> QED
    BY <1>1, <2>1, <2>2 DEF Range, IsInjective
<1> QED
  BY <1>2, <1>3, <1>4, <1>5, <1>6

\* ... one element longer.
LEMMA Appended ==
  ASSUME NEW S, NEW s \in Seq(S), NEW x \in S, IsInjective(s), x \notin Range(s)
  PROVE  /\ Append(s, x) \in Seq(S) /\ IsInjective(Append(s, x))
         /\ Append(s, x) # <<>>
         /\ Range(Append(s, x)) = Range(s) \cup {x}
         /\ Head(Append(s, x)) = IF s = <<>> THEN x ELSE Head(s)
<1>1. Len(s) \in Nat /\ DOMAIN s = 1..Len(s)
  OBVIOUS
<1>2. /\ Append(s, x) \in Seq(S) /\ DOMAIN Append(s, x) = 1..(Len(s) + 1)
      /\ \A i \in 1..Len(s) : Append(s, x)[i] = s[i]
      /\ Append(s, x)[Len(s) + 1] = x
  OBVIOUS
<1>3. \A i \in 1..Len(s) : s[i] # x
  BY <1>1 DEF Range
<1>4. IsInjective(Append(s, x))
  BY <1>1, <1>2, <1>3 DEF IsInjective
<1>5. Range(Append(s, x)) \subseteq Range(s) \cup {x}
  BY <1>1, <1>2 DEF Range
<1>6. Range(s) \cup {x} \subseteq Range(Append(s, x))
  BY <1>1, <1>2 DEF Range
<1>7. Append(s, x) # <<>> /\ Head(Append(s, x)) = IF s = <<>> THEN x ELSE Head(s)
  BY <1>1, <1>2
<1> QED
  BY <1>2, <1>4, <1>5, <1>6, <1>7

\* ... with an element taken out in the middle, as cancel() does.
LEMMA Removed ==
  ASSUME NEW S, NEW s \in Seq(S), IsInjective(s), NEW i \in 1..Len(s)
  PROVE  /\ RemoveAt(s, i) \in Seq(S) /\ IsInjective(RemoveAt(s, i))
         /\ Range(RemoveAt(s, i)) = Range(s) \ {s[i]}
<1> DEFINE r == RemoveAt(s, i)
<1>1. Len(s) \in Nat /\ DOMAIN s = 1..Len(s)
  OBVIOUS
<1>2. /\ r \in Seq(S) /\ DOMAIN r = 1..(Len(s) - 1)
      /\ \A k \in 1..(Len(s) - 1) : r[k] = IF k < i THEN s[k] ELSE s[k + 1]
  <2> DEFINE a == SubSeq(s, 1, i - 1)
             b == SubSeq(s, i + 1, Len(s))
  <2>1. /\ a \in Seq(S) /\ Len(a) = i - 1
        /\ \A k \in 1..(i - 1) : a[k] = s[k]
    <3>1. /\ a \in Seq(S) /\ Len(a) = IF 1 <= i - 1 THEN i - 1 - 1 + 1 ELSE 0
          /\ \A k \in 1..(i - 1 - 1 + 1) : a[k] = s[1 + k - 1]
      BY <1>1, SubSeqProperties
    <3> QED
      BY <3>1
  <2>2. /\ b \in Seq(S) /\ Len(b) = Len(s) - i
        /\ \A k \in 1..(Len(s) - i) : b[k] = s[i + k]
    <3>1. /\ b \in Seq(S)
          /\ Len(b) = IF i + 1 <= Len(s) THEN Len(s) - (i + 1) + 1 ELSE 0
          /\ \A k \in 1..(Len(s) - (i + 1) + 1) : b[k] = s[i + 1 + k - 1]
      BY <1>1, SubSeqProperties
    <3> QED
      BY <3>1
  <2> HIDE DEF a, b
  <2>3. /\ a \o b \in Seq(S) /\ Len(a \o b) = Len(s) - 1
        /\ \A k \in 1..(Len(s) - 1) : (a \o b)[k] = IF k < i THEN s[k] ELSE s[k + 1]
    <3>1. /\ a \o b \in Seq(S) /\ Len(a \o b) = Len(a) + Len(b)
          /\ \A k \in 1..Len(a) + Len(b) :
               (a \o b)[k] = IF k <= Len(a) THEN a[k] ELSE b[k - Len(a)]
      BY <2>1, <2>2, ConcatProperties
    <3>2. ASSUME NEW k \in 1..(Len(s) - 1)
          PROVE  (a \o b)[k] = IF k < i THEN s[k] ELSE s[k + 1]
      <4>1. CASE k < i
        BY <1>1, <2>1, <2>2, <3>1, <4>1
      <4>2. CASE k >= i
        <5>1. k - (i - 1) \in 1..(Len(s) - i) /\ i + (k - (i - 1)) = k + 1
          BY <1>1, <4>2
        <5>2. b[k - (i - 1)] = s[k + 1]
          BY <2>2, <5>1
        <5>3. ~(k <= Len(a)) /\ k \in 1..Len(a) + Len(b) /\ k - Len(a) = k - (i - 1)
          BY <1>1, <2>1, <2>2, <4>2
        <5>4. (a \o b)[k] = b[k - (i - 1)]
          BY <3>1, <5>3
        <5>5. ~(k < i)
          BY <4>2
        <5> QED
          BY <5>2, <5>4, <5>5
      <4>3. k < i \/ k >= i
        BY <1>1
      <4> QED
        BY <4>1, <4>2, <4>3
    <3>3. Len(a \o b) = Len(s) - 1
      BY <1>1, <2>1, <2>2, <3>1
    <3> QED
      BY <3>1, <3>2, <3>3
  <2>4. r = a \o b
    BY DEF RemoveAt, a, b, r
  <2> HIDE DEF r
  <2>5. DOMAIN r = 1..Len(r) /\ Len(r) = Len(s) - 1
    BY <2>3, <2>4
  <2> QED
    BY <2>3, <2>4, <2>5
<1> HIDE DEF r
<1>3. IsInjective(r)
  <2>1. ASSUME NEW k \in 1..(Len(s) - 1), NEW l \in 1..(Len(s) - 1), r[k] = r[l]
        PROVE  k = l
    <3> DEFINE p(j) == IF j < i THEN j ELSE j + 1
    <3>1. p(k) \in 1..Len(s) /\ p(l) \in 1..Len(s) /\ r[k] = s[p(k)] /\ r[l] = s[p(l)]
      BY <1>1, <1>2
    <3>2. p(k) = p(l)
      BY <1>1, <2>1, <3>1 DEF IsInjective
    <3> QED
      BY <1>1, <3>2
  <2> QED
    BY <1>2, <2>1 DEF IsInjective
<1>4. ASSUME NEW x \in Range(s), x # s[i] PROVE x \in Range(r)
  <2>1. PICK k \in 1..Len(s) : x = s[k]
    BY <1>1 DEF Range
  <2>2. CASE k < i
    <3>1. k \in 1..(Len(s) - 1) /\ r[k] = x
      BY <1>1, <1>2, <2>1, <2>2
    <3> QED
      BY <1>2, <3>1 DEF Range
  <2>3. CASE k > i
    <3>1. k - 1 \in 1..(Len(s) - 1) /\ r[k - 1] = x
      BY <1>1, <1>2, <2>1, <2>3
    <3> QED
      BY <1>2, <3>1 DEF Range
  <2> QED
    BY <1>1, <1>4, <2>1, <2>2, <2>3
<1>5. ASSUME NEW x \in Range(r) PROVE x \in Range(s) /\ x # s[i]
  <2>1. PICK k \in 1..(Len(s) - 1) : x = r[k]
    BY <1>2 DEF Range
  <2>2. CASE k < i
    BY <1>1, <1>2, <2>1, <2>2 DEF Range, IsInjective
  <2>3. CASE k >= i
    <3>1. k + 1 \in 1..Len(s) /\ k + 1 # i /\ x = s[k + 1]
      BY <1>1, <1>2, <2>1, <2>3
    <3> QED
      BY <1>1, <3>1 DEF Range, IsInjective
  <2> QED
    BY <1>1, <2>1, <2>2, <2>3
<1> QED
  BY <1>2, <1>3, <1>4, <1>5 DEF r

\* Once the batch is not empty, its first future is in it.
LEMMA CurrentIsBatched ==
  ASSUME TypeOK, QueueInv, batch # <<>>
  PROVE  Head(batch) \in Range(batch) /\ Head(batch) \in Futures
BY HeadAndTail DEF TypeOK, QueueInv

\* The count stays exact as long as neither it nor the futures it counts change.
LEMMA CountKept ==
  ASSUME CountIsExact, UNCHANGED running,
         \A f \in Futures : InProgress(f)' <=> InProgress(f)
  PROVE  CountIsExact'
<1>1. {f \in Futures : InProgress(f)'} = {f \in Futures : InProgress(f)}
  OBVIOUS
<1> QED
  BY <1>1 DEF CountIsExact

\* Most steps leave the futures, the queue and the batch alone: they need only
\* keep the types, and the submit thread outside or inside _do_submit.
LEMMA FrameKeeps ==
  ASSUME IInv, TypeOK', ThreadInv', LimitInv',
         UNCHANGED <<futures, delegates, queue, batch, running>>,
         \/ UNCHANGED sub
         \/ {sub, sub'} \cap {"tally", "intally", "link", "resolve", "inresolve"} = {}
  PROVE  IInv'
<1> USE DEF futures, delegates
<1>1. QueueInv'
  BY DEF IInv, QueueInv
<1>2. FuturesInv'
  <2>1. \A g \in Futures : Submitting(g)' <=> Submitting(g)
    BY DEF Submitting, Current
  <2>2. ASSUME NEW g \in Futures PROVE Callbacks(g)' <=> Callbacks(g)
    BY DEF Callbacks, Current
  <2> QED
    BY <2>1, <2>2 DEF IInv, FuturesInv, Waiting, Begun
<1>3. \A g \in Futures : InProgress(g)' <=> InProgress(g)
  BY DEF InProgress
<1> QED
  BY <1>1, <1>2, <1>3, CountKept DEF IInv

\* Such are the steps of clients, apart from the enqueueing and cancel() ...
LEMMA ClientKeeps ==
  ASSUME IInv,
         \/ CallSubmit \/ SubmitRaises \/ SubmitSleeps \/ SubmitTimer \/ SubmitWake
         \/ Shutdown \/ ShutdownNoWait \/ ShutdownStep \/ ChangeCount
  PROVE  IInv'
<1> USE DEF CallSubmit, SubmitRaises, SubmitSleeps, SubmitTimer, SubmitWake, Shutdown,
      ShutdownNoWait, ShutdownStep, ShutdownDelegate, DelegateShutdownReturns,
      ShutdownWake, JoinSubmitThread, ChangeCount
<1>1. UNCHANGED <<futures, delegates, queue, batch, running, sub, limit, block>>
  OBVIOUS
<1>2. event' \in BOOLEAN
  BY Zenon DEF IInv, TypeOK
<1>3. last' \in Limits /\ bound' \in Limits
  BY CountAssumption DEF IInv, TypeOK, Limits, EvalThrottle, client
<1>4. count' \in Counts /\ changes' \in 0..MaxChanges
  BY ChangesAssumption DEF IInv, TypeOK, counting
<1>5. /\ placing' \in {"idle", "check", "asleep", "wake"}
      /\ shut' \in {"open", "flagged", "closing", "closed", "joining", "returned"}
  BY DEF IInv, TypeOK, client
<1>6. TypeOK'
  BY <1>1, <1>2, <1>3, <1>4, <1>5 DEF IInv, TypeOK, futures, delegates
<1>7. ThreadInv' /\ LimitInv'
  BY <1>1 DEF IInv, ThreadInv, LimitInv
<1> QED
  BY <1>1, <1>6, <1>7, FrameKeeps

\* ... and those of the submit thread outside of the batch.
LEMMA ThreadKeeps ==
  ASSUME IInv,
         \/ CheckShutdown \/ Evaluate \/ FillDone \/ StartRefused \/ AllStarted
         \/ WaitReturns \/ ClearEvent
  PROVE  IInv'
<1> USE DEF CheckShutdown, Evaluate, FillDone, StartRefused, AllStarted, WaitReturns,
      ClearEvent
<1>1. /\ UNCHANGED <<futures, delegates, counting, client, queue, batch, running, block, shut>>
      /\ {sub, sub'} \cap {"tally", "intally", "link", "resolve", "inresolve"} = {}
  OBVIOUS
<1>2. event' \in BOOLEAN
  BY Zenon DEF IInv, TypeOK
<1>3. last' \in Limits /\ limit' \in Limits
  BY CountAssumption DEF IInv, TypeOK, Limits, EvalThrottle
<1>4. TypeOK'
  BY <1>1, <1>2, <1>3 DEF IInv, TypeOK, futures, delegates, counting, client
<1>5. ThreadInv' /\ LimitInv'
  BY <1>1 DEF IInv, ThreadInv, LimitInv
<1> QED
  BY <1>1, <1>4, <1>5, FrameKeeps

\* The callbacks are due on a delegate future that is cancelled.
LEMMA CancelDelegateKeeps ==
  ASSUME IInv, NEW f \in Futures, CancelDelegate(f)
  PROVE  IInv'
<1> USE DEF CancelDelegate
<1>1. TypeOK'
  BY DEF IInv, TypeOK, Outcomes, Settled, counting, client
<1>2. QueueInv' /\ ThreadInv' /\ LimitInv'
  BY DEF IInv, QueueInv, ThreadInv, LimitInv
<1>3. FuturesInv'
  BY CurrentIsBatched DEF IInv, TypeOK, FuturesInv, Waiting, Begun, Callbacks,
    Submitting, Current, Unlocked, ResolvedInline, Outcomes, Settled, counting,
    client
<1>4. UNCHANGED running /\ \A g \in Futures : InProgress(g)' <=> InProgress(g)
  BY CurrentIsBatched DEF IInv, TypeOK, FuturesInv, Waiting, Begun, Callbacks,
    Submitting, InProgress, Current, Unlocked, Outcomes, Settled, counting, client
<1> QED
  BY <1>1, <1>2, <1>3, <1>4, CountKept DEF IInv

\* The delegate future was cancelled before.
LEMMA CancelAgainKeeps ==
  ASSUME IInv, NEW f \in Futures, CancelAgain(f)
  PROVE  IInv'
<1> USE DEF CancelAgain
<1>1. TypeOK'
  BY DEF IInv, TypeOK, Outcomes, Settled, delegates, counting, client
<1>2. QueueInv' /\ ThreadInv' /\ LimitInv'
  BY DEF IInv, QueueInv, ThreadInv, LimitInv
<1>3. FuturesInv'
  BY CurrentIsBatched DEF IInv, TypeOK, FuturesInv, Waiting, Begun, Callbacks,
    Submitting, Current, Unlocked, ResolvedInline, Outcomes, Settled, delegates,
    counting, client
<1>4. UNCHANGED running /\ \A g \in Futures : InProgress(g)' <=> InProgress(g)
  BY CurrentIsBatched DEF IInv, TypeOK, FuturesInv, Waiting, Begun, Callbacks,
    Submitting, InProgress, Current, Unlocked, Outcomes, Settled, delegates,
    counting, client
<1> QED
  BY <1>1, <1>2, <1>3, <1>4, CountKept DEF IInv

\* cancel() goes on after the callbacks.
LEMMA CancelCallbacksReturnKeeps ==
  ASSUME IInv, NEW f \in Futures, CancelCallbacksReturn(f)
  PROVE  IInv'
<1> USE DEF CancelCallbacksReturn
<1>1. TypeOK'
  BY DEF IInv, TypeOK, Outcomes, Settled, delegates, counting, client
<1>2. QueueInv' /\ ThreadInv' /\ LimitInv'
  BY DEF IInv, QueueInv, ThreadInv, LimitInv
<1>3. FuturesInv'
  BY CurrentIsBatched DEF IInv, TypeOK, FuturesInv, Waiting, Begun, Callbacks,
    Submitting, Current, Unlocked, ResolvedInline, Outcomes, Settled, delegates,
    counting, client
<1>4. UNCHANGED running /\ \A g \in Futures : InProgress(g)' <=> InProgress(g)
  BY CurrentIsBatched DEF IInv, TypeOK, FuturesInv, Waiting, Begun, Callbacks,
    Submitting, InProgress, Current, Unlocked, Outcomes, Settled, delegates,
    counting, client
<1> QED
  BY <1>1, <1>2, <1>3, <1>4, CountKept DEF IInv

\* The future is cancelled once its delegate future is, or its job is gone.
LEMMA CancelReturnsTrueKeeps ==
  ASSUME IInv, NEW f \in Futures, CancelReturnsTrue(f)
  PROVE  IInv'
<1> USE DEF CancelReturnsTrue
<1>1. TypeOK'
  BY DEF IInv, TypeOK, Outcomes, Settled, delegates, counting, client
<1>2. QueueInv' /\ ThreadInv' /\ LimitInv'
  BY DEF IInv, QueueInv, ThreadInv, LimitInv
<1>3. FuturesInv'
  BY CurrentIsBatched DEF IInv, TypeOK, FuturesInv, Waiting, Begun, Callbacks,
    Submitting, Current, Unlocked, ResolvedInline, Outcomes, Settled, delegates,
    counting, client
<1>4. UNCHANGED running /\ \A g \in Futures : InProgress(g)' <=> InProgress(g)
  BY CurrentIsBatched DEF IInv, TypeOK, FuturesInv, Waiting, Begun, Callbacks,
    Submitting, InProgress, Current, Unlocked, Outcomes, Settled, delegates,
    counting, client
<1> QED
  BY <1>1, <1>2, <1>3, <1>4, CountKept DEF IInv

\* The delegate future ends, by itself or because somebody else cancels it.
LEMMA DelegateEndsKeeps ==
  ASSUME IInv, NEW f \in Futures, NEW o \in Settled, DelegateEnds(f, o)
  PROVE  IInv'
<1> USE DEF DelegateEnds
<1>1. TypeOK'
  BY DEF IInv, TypeOK, Outcomes, Settled, futures, counting, client
<1>2. QueueInv' /\ ThreadInv' /\ LimitInv'
  BY DEF IInv, QueueInv, ThreadInv, LimitInv
<1>3. FuturesInv'
  BY CurrentIsBatched DEF IInv, TypeOK, FuturesInv, Waiting, Begun, Callbacks,
    Submitting, Current, Unlocked, ResolvedInline, Outcomes, Settled, futures,
    counting, client
<1>4. UNCHANGED running /\ \A g \in Futures : InProgress(g)' <=> InProgress(g)
  BY CurrentIsBatched DEF IInv, TypeOK, FuturesInv, Waiting, Begun, Callbacks,
    Submitting, InProgress, Current, Unlocked, Outcomes, Settled, futures, counting,
    client
<1> QED
  BY <1>1, <1>2, <1>3, <1>4, CountKept DEF IInv

\* The end is counted before the event is set.
LEMMA TallyWakeKeeps ==
  ASSUME IInv, NEW f \in Futures, TallyWake(f)
  PROVE  IInv'
<1> USE DEF TallyWake, SetEvent
<1>1. TypeOK'
  BY DEF IInv, TypeOK, Outcomes, Settled, futures, counting
<1>2. QueueInv' /\ ThreadInv' /\ LimitInv'
  BY DEF IInv, QueueInv, ThreadInv, LimitInv
<1>3. FuturesInv'
  BY CurrentIsBatched DEF IInv, TypeOK, FuturesInv, Waiting, Begun, Callbacks,
    Submitting, Current, Unlocked, ResolvedInline, Outcomes, Settled, futures,
    counting
<1>4. UNCHANGED running /\ \A g \in Futures : InProgress(g)' <=> InProgress(g)
  BY CurrentIsBatched DEF IInv, TypeOK, FuturesInv, Waiting, Begun, Callbacks,
    Submitting, InProgress, Current, Unlocked, Outcomes, Settled, futures, counting
<1> QED
  BY <1>1, <1>2, <1>3, <1>4, CountKept DEF IInv

\* _delegate is cleared once.
LEMMA ResolveUnlinkKeeps ==
  ASSUME IInv, NEW f \in Futures, ResolveUnlink(f)
  PROVE  IInv'
<1> USE DEF ResolveUnlink
<1>1. TypeOK'
  BY DEF IInv, TypeOK, Outcomes, Settled, counting, client
<1>2. QueueInv' /\ ThreadInv' /\ LimitInv'
  BY DEF IInv, QueueInv, ThreadInv, LimitInv
<1>3. FuturesInv'
  BY CurrentIsBatched DEF IInv, TypeOK, FuturesInv, Waiting, Begun, Callbacks,
    Submitting, Current, Unlocked, ResolvedInline, Outcomes, Settled, counting,
    client
<1>4. UNCHANGED running /\ \A g \in Futures : InProgress(g)' <=> InProgress(g)
  BY CurrentIsBatched DEF IInv, TypeOK, FuturesInv, Waiting, Begun, Callbacks,
    Submitting, InProgress, Current, Unlocked, Outcomes, Settled, counting, client
<1> QED
  BY <1>1, <1>2, <1>3, <1>4, CountKept DEF IInv

\* The future gets the outcome while it is pending.
LEMMA ResolveSettleKeeps ==
  ASSUME IInv, NEW f \in Futures, ResolveSettle(f)
  PROVE  IInv'
<1> USE DEF ResolveSettle
<1>1. TypeOK'
  <2>1. dstate[f] \in Outcomes
    BY DEF IInv, TypeOK, FuturesInv, Waiting, Begun, Callbacks
  <2> QED
    BY <2>1 DEF IInv, TypeOK, Outcomes, Settled, counting, client
<1>2. QueueInv' /\ ThreadInv' /\ LimitInv'
  BY DEF IInv, QueueInv, ThreadInv, LimitInv
<1>3. FuturesInv'
  BY CurrentIsBatched DEF IInv, TypeOK, FuturesInv, Waiting, Begun, Callbacks,
    Submitting, Current, Unlocked, ResolvedInline, Outcomes, Settled, counting,
    client
<1>4. UNCHANGED running /\ \A g \in Futures : InProgress(g)' <=> InProgress(g)
  BY CurrentIsBatched DEF IInv, TypeOK, FuturesInv, Waiting, Begun, Callbacks,
    Submitting, InProgress, Current, Unlocked, Outcomes, Settled, counting, client
<1> QED
  BY <1>1, <1>2, <1>3, <1>4, CountKept DEF IInv

\* The first of the batch gets a delegate future.
LEMMA StartKeeps ==
  ASSUME IInv, NEW f \in Futures, Start(f)
  PROVE  IInv'
<1> USE DEF Start
<1>1. TypeOK'
  BY DEF IInv, TypeOK, Outcomes, Settled, futures, counting, client
<1>2. QueueInv' /\ ThreadInv' /\ LimitInv'
  BY DEF IInv, QueueInv, ThreadInv, LimitInv, Current
<1>3. FuturesInv'
  BY CurrentIsBatched DEF IInv, TypeOK, QueueInv, FuturesInv, Waiting, Begun,
    Callbacks, Submitting, Current, Unlocked, ResolvedInline, Outcomes, Settled,
    futures, counting, client
<1>4. UNCHANGED running /\ \A g \in Futures : InProgress(g)' <=> InProgress(g)
  BY CurrentIsBatched DEF IInv, TypeOK, FuturesInv, Waiting, Begun, Callbacks,
    Submitting, InProgress, Current, Unlocked, Outcomes, Settled, futures, counting,
    client
<1> QED
  BY <1>1, <1>2, <1>3, <1>4, CountKept DEF IInv

\* The first callback is attached, or due at once.
LEMMA AttachTallyKeeps ==
  ASSUME IInv, NEW f \in Futures, AttachTally(f)
  PROVE  IInv'
<1> USE DEF AttachTally
<1>1. TypeOK'
  BY DEF IInv, TypeOK, Outcomes, Settled, futures, counting, client
<1>2. QueueInv' /\ ThreadInv' /\ LimitInv'
  BY DEF IInv, QueueInv, ThreadInv, LimitInv
<1>3. FuturesInv'
  BY CurrentIsBatched DEF IInv, TypeOK, FuturesInv, Waiting, Begun, Callbacks,
    Submitting, Current, Unlocked, ResolvedInline, Outcomes, Settled, futures,
    counting, client
<1>4. UNCHANGED running /\ \A g \in Futures : InProgress(g)' <=> InProgress(g)
  BY CurrentIsBatched DEF IInv, TypeOK, FuturesInv, Waiting, Begun, Callbacks,
    Submitting, InProgress, Current, Unlocked, Outcomes, Settled, futures, counting,
    client
<1> QED
  BY <1>1, <1>2, <1>3, <1>4, CountKept DEF IInv

\* The submit thread has counted the end itself.
LEMMA TallyReturnsKeeps ==
  ASSUME IInv, NEW f \in Futures, TallyReturns(f)
  PROVE  IInv'
<1> USE DEF TallyReturns
<1>1. TypeOK'
  BY DEF IInv, TypeOK, Outcomes, Settled, futures, delegates, counting, client
<1>2. QueueInv' /\ ThreadInv' /\ LimitInv'
  BY DEF IInv, QueueInv, ThreadInv, LimitInv
<1>3. FuturesInv'
  BY CurrentIsBatched DEF IInv, TypeOK, FuturesInv, Waiting, Begun, Callbacks,
    Submitting, Current, Unlocked, ResolvedInline, Outcomes, Settled, futures,
    delegates, counting, client
<1>4. UNCHANGED running /\ \A g \in Futures : InProgress(g)' <=> InProgress(g)
  BY CurrentIsBatched DEF IInv, TypeOK, FuturesInv, Waiting, Begun, Callbacks,
    Submitting, InProgress, Current, Unlocked, Outcomes, Settled, futures,
    delegates, counting, client
<1> QED
  BY <1>1, <1>2, <1>3, <1>4, CountKept DEF IInv

\* _delegate is set once.
LEMMA LinkKeeps ==
  ASSUME IInv, NEW f \in Futures, Link(f)
  PROVE  IInv'
<1> USE DEF Link
<1>1. TypeOK'
  BY DEF IInv, TypeOK, Outcomes, Settled, delegates, counting, client
<1>2. QueueInv' /\ ThreadInv' /\ LimitInv'
  BY DEF IInv, QueueInv, ThreadInv, LimitInv
<1>3. FuturesInv'
  BY CurrentIsBatched DEF IInv, TypeOK, FuturesInv, Waiting, Begun, Callbacks,
    Submitting, Current, Unlocked, ResolvedInline, Outcomes, Settled, delegates,
    counting, client
<1>4. UNCHANGED running /\ \A g \in Futures : InProgress(g)' <=> InProgress(g)
  BY CurrentIsBatched DEF IInv, TypeOK, FuturesInv, Waiting, Begun, Callbacks,
    Submitting, InProgress, Current, Unlocked, Outcomes, Settled, delegates,
    counting, client
<1> QED
  BY <1>1, <1>2, <1>3, <1>4, CountKept DEF IInv

\* A new future joins the queue.
LEMMA EnqueueKeeps ==
  ASSUME IInv, NEW f \in Futures, Enqueue(f)
  PROVE  IInv'
<1> USE DEF Enqueue
<1>1. dstate[f] = "none" /\ canc[f] = "idle" /\ f \notin Range(queue) \cup Range(batch)
  BY DEF IInv, TypeOK, FuturesInv, Waiting, Begun, Outcomes, Settled
<1>2. /\ queue' \in Seq(Futures) /\ IsInjective(queue')
      /\ Range(queue') = Range(queue) \cup {f}
  BY <1>1, Appended DEF IInv, TypeOK, QueueInv
<1>3. TypeOK'
  BY <1>2 DEF IInv, TypeOK, delegates, counting
<1>4. QueueInv' /\ ThreadInv' /\ LimitInv'
  BY <1>1, <1>2 DEF IInv, QueueInv, ThreadInv, LimitInv
<1>5. FuturesInv'
  <2> SUFFICES ASSUME NEW g \in Futures
               PROVE  (IF dstate[g] = "none" THEN Waiting(g) ELSE Begun(g))'
    BY DEF FuturesInv
  <2>1. CASE g = f
    BY <1>1, <1>2, <2>1 DEF IInv, TypeOK, FuturesInv, Waiting, Submitting, Current, delegates
  <2>2. CASE g # f
    BY <1>2, <2>2 DEF IInv, TypeOK, FuturesInv, Waiting, Begun, Callbacks, Submitting,
      Current, delegates
  <2> QED
    BY <2>1, <2>2
<1>6. CountIsExact'
  <2>1. UNCHANGED running /\ \A g \in Futures : InProgress(g)' <=> InProgress(g)
    BY DEF InProgress, delegates
  <2> QED
    BY <2>1, CountKept DEF IInv
<1> QED
  BY <1>3, <1>4, <1>5, <1>6 DEF IInv

\* cancel() takes a job out of the queue.
LEMMA CancelQueuedKeeps ==
  ASSUME IInv, NEW f \in Futures, CancelQueued(f)
  PROVE  IInv'
<1>1. PICK i \in 1..Len(queue) : queue[i] = f /\ queue' = RemoveAt(queue, i)
  BY DEF CancelQueued
<1>2. /\ queue' \in Seq(Futures) /\ IsInjective(queue')
      /\ Range(queue') = Range(queue) \ {f}
  BY <1>1, Removed DEF IInv, TypeOK, QueueInv
<1>3. f \in Range(queue)
  BY <1>1 DEF Range, IInv, TypeOK
<1>4. f \notin Range(batch) /\ dstate[f] = "none"
  BY <1>3 DEF IInv, QueueInv, FuturesInv, Begun
<1> USE DEF CancelQueued
<1>5. TypeOK'
  BY <1>2 DEF IInv, TypeOK, delegates, counting, client
<1>6. QueueInv' /\ ThreadInv' /\ LimitInv'
  BY <1>2 DEF IInv, QueueInv, ThreadInv, LimitInv
<1>7. FuturesInv'
  <2> SUFFICES ASSUME NEW g \in Futures
               PROVE  (IF dstate[g] = "none" THEN Waiting(g) ELSE Begun(g))'
    BY DEF FuturesInv
  <2>1. CASE g = f
    BY <1>2, <1>4, <2>1 DEF IInv, TypeOK, FuturesInv, Waiting, Submitting, Current, delegates
  <2>2. CASE g # f
    BY <1>2, <2>2 DEF IInv, TypeOK, FuturesInv, Waiting, Begun, Callbacks, Submitting,
      Current, delegates
  <2> QED
    BY <2>1, <2>2
<1>8. CountIsExact'
  <2>1. UNCHANGED running /\ \A g \in Futures : InProgress(g)' <=> InProgress(g)
    BY DEF InProgress, delegates
  <2> QED
    BY <2>1, CountKept DEF IInv
<1> QED
  BY <1>5, <1>6, <1>7, <1>8 DEF IInv

\* The futures in progress are finitely many.
LEMMA CountIsNatural ==
  /\ IsFiniteSet({g \in Futures : InProgress(g)})
  /\ Cardinality({g \in Futures : InProgress(g)}) \in Nat
<1>1. IsFiniteSet({g \in Futures : InProgress(g)})
  BY FuturesAssumption, FS_Subset
<1> QED
  BY <1>1, FS_CardinalityType

\* Taken off the count, a future is no longer in progress.
LEMMA TallyDecrKeeps ==
  ASSUME IInv, NEW f \in Futures, TallyDecr(f)
  PROVE  IInv'
<1> DEFINE P == {g \in Futures : InProgress(g)}
           Q == {g \in Futures : InProgress(g)'}
<1>1. dstate[f] # "none"
  BY DEF TallyDecr, IInv, TypeOK, FuturesInv, Waiting
<1>2. InProgress(f) /\ ~InProgress(f)'
  BY <1>1 DEF TallyDecr, IInv, TypeOK, InProgress
<1>3. \A g \in Futures : g # f => (InProgress(g)' <=> InProgress(g))
  BY DEF TallyDecr, IInv, TypeOK, InProgress
<1>4. Q = P \ {f} /\ f \in P
  BY <1>2, <1>3
<1> HIDE DEF P, Q
<1>5. IsFiniteSet(P) /\ Cardinality(P) \in Nat
  BY CountIsNatural DEF P
<1>6. IsFiniteSet(Q) /\ Cardinality(Q) = Cardinality(P) - 1
  BY <1>4, <1>5, FS_RemoveElement
<1>7. Cardinality(Q) \in Nat
  BY <1>6, FS_CardinalityType
<1>8. running = Cardinality(P) /\ running' = running - 1
  BY DEF TallyDecr, IInv, CountIsExact, P
<1>9. CountIsExact'
  BY <1>5, <1>6, <1>8 DEF CountIsExact, Q
<1>10. running' \in Nat /\ running' <= running
  BY <1>5, <1>6, <1>7, <1>8
<1>11. TypeOK'
  BY <1>10 DEF TallyDecr, IInv, TypeOK, futures, counting, client
<1>12. QueueInv' /\ ThreadInv'
  BY DEF TallyDecr, IInv, QueueInv, ThreadInv
<1>13. LimitInv'
  BY <1>10 DEF TallyDecr, IInv, TypeOK, Limits, LimitInv
<1>14. FuturesInv'
  BY <1>1 DEF TallyDecr, IInv, TypeOK, FuturesInv, Waiting, Begun, Callbacks, Submitting,
    Current, futures, Outcomes, Settled
<1> QED
  BY <1>9, <1>11, <1>12, <1>13, <1>14 DEF IInv

\* Moved from the queue to the batch, a future is counted, under the limit.
LEMMA FillOneKeeps ==
  ASSUME IInv, FillOne
  PROVE  IInv'
<1> DEFINE P == {g \in Futures : InProgress(g)}
           Q == {g \in Futures : InProgress(g)'}
<1>1. PICK h \in Futures :
        /\ h = Head(queue) /\ h \in Range(queue) /\ h \notin Range(batch)
        /\ queue' \in Seq(Futures) /\ IsInjective(queue')
        /\ Range(queue') = Range(queue) \ {h}
  BY HeadAndTail DEF FillOne, IInv, TypeOK, QueueInv
<1>2. /\ batch' \in Seq(Futures) /\ IsInjective(batch') /\ batch' # <<>>
      /\ Range(batch') = Range(batch) \cup {h}
  BY <1>1, Appended DEF FillOne, IInv, TypeOK, QueueInv
<1>3. dstate[h] = "none"
  BY <1>1 DEF IInv, FuturesInv, Begun
<1>4. ~InProgress(h) /\ InProgress(h)'
  BY <1>1, <1>2, <1>3 DEF FillOne, IInv, InProgress, delegates
<1>5. \A g \in Futures : g # h => (InProgress(g)' <=> InProgress(g))
  BY <1>2 DEF FillOne, InProgress, delegates
<1>6. Q = P \cup {h} /\ h \notin P
  BY <1>1, <1>4, <1>5
<1> HIDE DEF P, Q
<1>7. IsFiniteSet(P) /\ Cardinality(P) \in Nat
  BY CountIsNatural DEF P
<1>8. Cardinality(Q) = Cardinality(P) + 1
  BY <1>6, <1>7, FS_AddElement
<1>9. running = Cardinality(P) /\ running' = running + 1
  BY DEF FillOne, IInv, CountIsExact, P
<1>10. CountIsExact'
  BY <1>7, <1>8, <1>9 DEF CountIsExact, Q
<1>11. TypeOK'
  BY <1>1, <1>2, <1>7, <1>9 DEF FillOne, IInv, TypeOK, futures, delegates, counting, client
<1>12. QueueInv' /\ ThreadInv'
  BY <1>1, <1>2 DEF FillOne, IInv, QueueInv, ThreadInv
<1>13. LimitInv'
  BY <1>7, <1>9 DEF FillOne, IInv, TypeOK, Limits, LimitInv, Below
<1>14. FuturesInv'
  BY <1>1, <1>2, <1>3 DEF FillOne, IInv, TypeOK, FuturesInv, Waiting, Begun, Callbacks,
    Submitting, Current, futures, delegates
<1> QED
  BY <1>10, <1>11, <1>12, <1>13, <1>14 DEF IInv

\* The submit thread goes on to the next of its batch.
LEMMA NextOfBatch ==
  ASSUME IInv, batch # <<>>, batch' = Tail(batch)
  PROVE  /\ Head(batch) \in Futures /\ Head(batch) \in Range(batch)
         /\ batch' \in Seq(Futures) /\ IsInjective(batch')
         /\ Range(batch') = Range(batch) \ {Head(batch)}
BY HeadAndTail DEF IInv, TypeOK, QueueInv

\* The second callback is attached, or due at once.
LEMMA AttachResolveKeeps ==
  ASSUME IInv, NEW f \in Futures, AttachResolve(f)
  PROVE  IInv'
<1> USE DEF AttachResolve
<1>1. batch # <<>> /\ f = Head(batch) /\ dstate[f] # "none" /\ f \in Range(batch)
  BY CurrentIsBatched DEF IInv, TypeOK, FuturesInv, Waiting, Submitting, Current
<1>2. CASE dstate[f] = "live"
  <2>1. /\ batch' \in Seq(Futures) /\ IsInjective(batch')
        /\ Range(batch') = Range(batch) \ {f}
    BY <1>1, <1>2, NextOfBatch
  <2>2. TypeOK'
    BY <1>2, <2>1 DEF IInv, TypeOK, futures, counting, client
  <2>3. QueueInv' /\ ThreadInv' /\ LimitInv'
    BY <1>1, <1>2, <2>1 DEF IInv, QueueInv, ThreadInv, LimitInv
  <2>4. FuturesInv'
    BY <1>1, <1>2, <2>1 DEF IInv, TypeOK, FuturesInv, Waiting, Begun, Callbacks,
      Submitting, Current, futures, Outcomes
  <2>5. UNCHANGED running /\ \A g \in Futures : InProgress(g)' <=> InProgress(g)
    BY <1>1, <1>2, <2>1 DEF InProgress
  <2> QED
    BY <2>2, <2>3, <2>4, <2>5, CountKept DEF IInv
<1>3. CASE dstate[f] # "live"
  <2>1. TypeOK'
    BY <1>3 DEF IInv, TypeOK, futures, counting, client
  <2>2. QueueInv' /\ ThreadInv' /\ LimitInv'
    BY <1>1, <1>3 DEF IInv, QueueInv, ThreadInv, LimitInv
  <2>3. FuturesInv'
    BY <1>1, <1>3 DEF IInv, TypeOK, FuturesInv, Waiting, Begun, Callbacks, Submitting,
      Current, futures, Outcomes
  <2>4. UNCHANGED running /\ \A g \in Futures : InProgress(g)' <=> InProgress(g)
    BY <1>3 DEF InProgress
  <2> QED
    BY <2>1, <2>2, <2>3, <2>4, CountKept DEF IInv
<1> QED
  BY <1>2, <1>3

\* The submit thread has settled the future itself.
LEMMA ResolveReturnsKeeps ==
  ASSUME IInv, NEW f \in Futures, ResolveReturns(f)
  PROVE  IInv'
<1> USE DEF ResolveReturns
<1>1. batch # <<>> /\ f = Head(batch) /\ dstate[f] # "none" /\ f \in Range(batch)
  BY CurrentIsBatched DEF IInv, TypeOK, FuturesInv, Waiting, Submitting, Current
<1>2. /\ batch' \in Seq(Futures) /\ IsInjective(batch')
      /\ Range(batch') = Range(batch) \ {f}
  BY <1>1, NextOfBatch
<1>3. TypeOK'
  BY <1>2 DEF IInv, TypeOK, futures, delegates, counting, client
<1>4. QueueInv' /\ ThreadInv' /\ LimitInv'
  BY <1>1, <1>2 DEF IInv, QueueInv, ThreadInv, LimitInv
<1>5. FuturesInv'
  BY <1>1, <1>2 DEF IInv, TypeOK, FuturesInv, Waiting, Begun, Callbacks, Submitting,
    Current, futures, delegates, Outcomes
<1>6. UNCHANGED running /\ \A g \in Futures : InProgress(g)' <=> InProgress(g)
  BY <1>1, <1>2 DEF InProgress, delegates
<1> QED
  BY <1>3, <1>4, <1>5, <1>6, CountKept DEF IInv

-----------------------------------------------------------------------------
(* The invariant *)

\* It holds at the start.
LEMMA InitIInv == Init => IInv
<1> SUFFICES ASSUME Init PROVE IInv
  OBVIOUS
<1>1. TypeOK
  <2>1. block \in BOOLEAN
    BY SwitchAssumption DEF Init
  <2>2. count \in Limits /\ last \in Limits /\ limit \in Limits /\ bound \in Limits
    BY CountAssumption DEF Init, Limits
  <2>3. queue \in Seq(Futures) /\ batch \in Seq(Futures)
    BY DEF Init
  <2>4. count \in Counts /\ running \in Nat
    BY DEF Init
  <2>6. changes \in 0..MaxChanges
    BY ChangesAssumption DEF Init
  <2>7. event \in BOOLEAN
    BY Zenon DEF Init
  <2>5. /\ state \in [Futures -> {"unborn", "pending"} \cup Settled]
        /\ dstate \in [Futures -> {"none", "live"} \cup Settled]
        /\ linked \in [Futures -> BOOLEAN]
        /\ tally \in [Futures -> {"none", "armed", "decr", "wake", "done"}]
        /\ resolve \in [Futures -> {"none", "armed", "unlink", "settle", "done"}]
        /\ canc \in [Futures -> {"idle", "callbacks", "commit"}]
    BY DEF Init
  <2> QED
    BY <2>1, <2>2, <2>3, <2>4, <2>5, <2>6, <2>7 DEF Init, TypeOK
<1>2. Range(queue) = {} /\ Range(batch) = {} /\ IsInjective(queue) /\ IsInjective(batch)
  BY DEF Init, Range, IsInjective
<1>3. QueueInv /\ ThreadInv /\ LimitInv
  BY <1>2 DEF Init, QueueInv, ThreadInv, LimitInv
<1>4. FuturesInv
  BY <1>2 DEF Init, FuturesInv, Waiting, Submitting, Current
<1>5. CountIsExact
  <2>1. {f \in Futures : InProgress(f)} = {}
    BY <1>2 DEF Init, InProgress
  <2> QED
    BY <2>1, FS_EmptySet DEF Init, CountIsExact
<1> QED
  BY <1>1, <1>3, <1>4, <1>5 DEF IInv

\* A step that changes nothing keeps it.
LEMMA StutterKeeps ==
  ASSUME IInv, UNCHANGED vars
  PROVE  IInv'
<1> USE DEF vars, futures, delegates, counting, client
<1>1. TypeOK' /\ QueueInv' /\ ThreadInv' /\ LimitInv'
  BY DEF IInv, TypeOK, QueueInv, ThreadInv, LimitInv
<1>2. FuturesInv'
  BY DEF IInv, FuturesInv, Waiting, Begun, Callbacks, Submitting, Current
<1>3. UNCHANGED running /\ \A g \in Futures : InProgress(g)' <=> InProgress(g)
  BY DEF InProgress
<1> QED
  BY <1>1, <1>2, <1>3, CountKept DEF IInv

\* Every step of the executor keeps it.
LEMMA NextIInv == IInv /\ [Next]_vars => IInv'
<1> SUFFICES ASSUME IInv, [Next]_vars PROVE IInv'
  OBVIOUS
<1>1. ASSUME NEW f \in Futures, Enqueue(f) PROVE IInv'
  BY <1>1, EnqueueKeeps
<1>2. ASSUME NEW f \in Futures,
             CancelQueued(f) \/ CancelDelegate(f) \/ CancelAgain(f) \/ CancelStep(f)
      PROVE  IInv'
  BY <1>2, CancelQueuedKeeps, CancelDelegateKeeps, CancelAgainKeeps,
    CancelCallbacksReturnKeeps, CancelReturnsTrueKeeps DEF CancelStep
<1>3. ASSUME NEW f \in Futures, DelegateFinish(f) \/ DelegateCancelledElsewhere(f)
      PROVE  IInv'
  BY <1>3, DelegateEndsKeeps DEF DelegateFinish, DelegateCancelledElsewhere, Settled
<1>4. ASSUME NEW f \in Futures, CallbackStep(f) PROVE IInv'
  BY <1>4, TallyDecrKeeps, TallyWakeKeeps, ResolveUnlinkKeeps, ResolveSettleKeeps
    DEF CallbackStep
<1>5. CASE SubmitThread
  BY <1>5, ThreadKeeps, FillOneKeeps, StartKeeps, AttachTallyKeeps, TallyReturnsKeeps,
    LinkKeeps, AttachResolveKeeps, ResolveReturnsKeeps DEF SubmitThread
<1>6. CASE UNCHANGED vars
  BY <1>6, StutterKeeps
<1> QED
  BY <1>1, <1>2, <1>3, <1>4, <1>5, <1>6, ClientKeeps DEF Next, SubmitStep

\* The invariant holds in every state the executor reaches.
THEOREM Invariant == Spec => []IInv
  BY InitIInv, NextIInv, PTL DEF Spec

-----------------------------------------------------------------------------
(* The theorems *)

\* Every variable keeps its type; in particular the count of running futures
\* never falls below 0.
THEOREM TypeCorrect == Spec => []TypeOK
<1>1. IInv => TypeOK
  BY DEF IInv
<1> QED
  BY <1>1, Invariant, PTL

\* The count of running futures is exact: each is counted once, and taken off
\* once, on whatever thread its end is noticed.
THEOREM CountStaysExact == Spec => []CountIsExact
<1>1. IInv => CountIsExact
  BY DEF IInv
<1> QED
  BY <1>1, Invariant, PTL

\* The assertion of MapFuture._delegate_resolved never fails, and the callback
\* settles only pending futures.
THEOREM CallbacksFindTheirDelegate == Spec => []ResolveFindsDelegate
<1>1. IInv => ResolveFindsDelegate
  BY DEF IInv, TypeOK, FuturesInv, Waiting, Begun, Callbacks, ResolveFindsDelegate, Outcomes
<1> QED
  BY <1>1, Invariant, PTL

\* No future is forgotten while the executor is in service.
THEOREM NoneIsForgotten == Spec => []PendingIsAccountedFor
<1>1. IInv => PendingIsAccountedFor
  BY CurrentIsBatched DEF IInv, TypeOK, FuturesInv, Waiting, Begun, Callbacks, Current,
    PendingIsAccountedFor, Settled, Outcomes
<1> QED
  BY <1>1, Invariant, PTL

\* No step but Start begins an attempt.
LEMMA OnlyStartBegins ==
  ASSUME IInv, [Next]_vars, NEW f \in Futures, dstate[f] = "none", dstate'[f] = "live"
  PROVE  Start(f)
<1> USE DEF delegates
<1>1. ASSUME NEW g \in Futures, CancelStep(g) PROVE dstate' = dstate
  BY <1>1 DEF CancelStep, CancelCallbacksReturn, CancelReturnsTrue
<1>2. ASSUME NEW g \in Futures, CallbackStep(g) PROVE dstate' = dstate
  BY <1>2 DEF CallbackStep, TallyDecr, TallyWake, ResolveUnlink, ResolveSettle
<1>3. ASSUME NEW g \in Futures, Enqueue(g) \/ CancelQueued(g) \/ CancelAgain(g)
      PROVE  dstate' = dstate
  BY <1>3 DEF Enqueue, CancelQueued, CancelAgain
<1>4. ASSUME NEW g \in Futures,
             CancelDelegate(g) \/ DelegateFinish(g) \/ DelegateCancelledElsewhere(g)
      PROVE  dstate'[f] # "live"
  BY <1>4 DEF CancelDelegate, DelegateFinish, DelegateCancelledElsewhere, DelegateEnds,
    IInv, TypeOK, Outcomes, Settled
<1>5. ASSUME SubmitThread PROVE dstate' = dstate \/ \E g \in Futures : Start(g)
  BY <1>5 DEF SubmitThread, CheckShutdown, Evaluate, FillOne, FillDone, StartRefused,
    AllStarted, WaitReturns, ClearEvent, AttachTally, TallyReturns, Link, AttachResolve,
    ResolveReturns
<1>6. ASSUME NEW g \in Futures, Start(g) PROVE g = f
  BY <1>6 DEF Start, IInv, TypeOK
<1>7. ASSUME \/ CallSubmit \/ SubmitSleeps \/ SubmitRaises \/ SubmitTimer \/ SubmitWake
             \/ Shutdown \/ ShutdownNoWait \/ ShutdownStep
             \/ ChangeCount \/ UNCHANGED vars
      PROVE  dstate' = dstate
  BY <1>7 DEF CallSubmit, SubmitSleeps, SubmitRaises, SubmitTimer, SubmitWake, Shutdown,
    ShutdownNoWait, ShutdownStep, ShutdownDelegate, DelegateShutdownReturns,
    ShutdownWake, JoinSubmitThread, ChangeCount, vars
<1> QED
  BY <1>1, <1>2, <1>3, <1>4, <1>5, <1>6, <1>7 DEF Next, SubmitStep

\* A delegate future is started only while fewer than the limit are live.
THEOREM LimitHolds == Spec => NeverOverLimit
<1>1. ASSUME IInv, [Next]_vars, NEW f \in Futures,
             dstate[f] = "none", dstate'[f] = "live", limit # None
      PROVE  Cardinality({g \in Futures : dstate'[g] = "live"}) <= limit
  <2> SUFFICES Start(f) =>
               Cardinality({g \in Futures : dstate'[g] = "live"}) <= limit
    BY <1>1, OnlyStartBegins
  <2>1. HAVE Start(f)
  <2>2. running <= limit
    BY <1>1, <2>1 DEF Start, Current, IInv, LimitInv
  <2> DEFINE P == {g \in Futures : InProgress(g)}
             L == {g \in Futures : dstate'[g] = "live"}
  <2>3. L \subseteq P
    BY <1>1, <2>1, CurrentIsBatched DEF Start, Current, IInv, TypeOK, FuturesInv, Begun,
      Callbacks, InProgress
  <2> HIDE DEF P
  <2>4. IsFiniteSet(P) /\ Cardinality(P) = running
    BY <1>1, CountIsNatural DEF IInv, CountIsExact, P
  <2>5. Cardinality(L) <= Cardinality(P) /\ Cardinality(L) \in Nat
    BY <2>3, <2>4, FS_Subset, FS_CardinalityType
  <2> HIDE DEF L
  <2>6. Cardinality(L) <= limit
    BY <1>1, <2>2, <2>4, <2>5 DEF IInv, TypeOK, Limits
  <2> QED
    BY <2>6 DEF L
<1>2. ASSUME IInv, [Next]_vars
      PROVE  [\A f \in Futures :
                dstate[f] = "none" /\ dstate'[f] = "live" /\ limit # None =>
                  Cardinality({g \in Futures : dstate'[g] = "live"}) <= limit]_vars
  BY <1>1, <1>2
<1> QED
  BY <1>2, Invariant, PTL DEF Spec, NeverOverLimit

-----------------------------------------------------------------------------
(* ThrottleExecutor implements FuturePromise *)

\* Every step is a step of the promise, or leaves it alone.
LEMMA NextKeepsPromise ==
  ASSUME IInv, [Next]_vars
  PROVE  [Promise!Next]_(Promise!promise)
<1> USE DEF IInv, TypeOK, futures, delegates, counting, client
<1>1. ASSUME NEW f \in Futures, Enqueue(f) PROVE Promise!Create(f)
  BY <1>1 DEF Enqueue, Promise!Create
<1>2. ASSUME NEW f \in Futures, Start(f) PROVE Promise!Begin(f)
  <2>1. state[f] = "pending" /\ canc[f] = "idle" /\ dstate[f] = "none"
    BY <1>2, CurrentIsBatched DEF Start, Current, FuturesInv, Waiting, Begun, Submitting
  <2> QED
    BY <1>2, <2>1 DEF Start, Promise!Begin, Promise!Outcomes
<1>3. ASSUME NEW f \in Futures, DelegateFinish(f) \/ DelegateCancelledElsewhere(f)
      PROVE  Promise!End(f)
  BY <1>3 DEF DelegateFinish, DelegateCancelledElsewhere, DelegateEnds, Outcomes,
    Promise!End, Promise!Settled, Promise!Outcomes
<1>4. ASSUME NEW f \in Futures, CancelDelegate(f) PROVE Promise!End(f)
  BY <1>4 DEF CancelDelegate, Unlocked, Promise!End, Promise!Settled, Promise!Outcomes
<1>5. ASSUME NEW f \in Futures, CancelQueued(f) \/ CancelAgain(f) \/ CancelCallbacksReturn(f)
      PROVE  Promise!Stop(f)
  <2>1. state[f] = "pending"
    BY <1>5 DEF CancelQueued, CancelAgain, CancelCallbacksReturn, FuturesInv, Waiting, Begun
  <2> QED
    BY <1>5, <2>1 DEF CancelQueued, CancelAgain, CancelCallbacksReturn, Promise!Stop
<1>6. ASSUME NEW f \in Futures, CancelReturnsTrue(f) PROVE Promise!Cancel(f)
  <2>1. state[f] = "pending" /\ dstate[f] # "live"
    BY <1>6 DEF CancelReturnsTrue, FuturesInv, Waiting, Begun
  <2> QED
    BY <1>6, <2>1 DEF CancelReturnsTrue, Promise!Cancel
<1>7. ASSUME NEW f \in Futures, ResolveSettle(f) PROVE Promise!Settle(f)
  <2>1. dstate[f] \in Outcomes
    BY <1>7 DEF ResolveSettle, FuturesInv, Waiting, Begun, Callbacks
  <2> QED
    BY <1>7, <2>1 DEF ResolveSettle, Outcomes, Promise!Settle, Promise!Outcomes
<1>8. CASE UNCHANGED <<state, dstate, canc>>
  BY <1>8 DEF Promise!promise
<1>9. ASSUME NEW f \in Futures, CallbackStep(f)
      PROVE  ResolveSettle(f) \/ UNCHANGED <<state, dstate, canc>>
  BY <1>9 DEF CallbackStep, TallyDecr, TallyWake, ResolveUnlink
<1>10. ASSUME SubmitThread
       PROVE  (\E f \in Futures : Start(f)) \/ UNCHANGED <<state, dstate, canc>>
  BY <1>10 DEF SubmitThread, CheckShutdown, Evaluate, FillOne, FillDone, StartRefused,
    AllStarted, WaitReturns, ClearEvent, AttachTally, TallyReturns, Link, AttachResolve,
    ResolveReturns
<1>11. ASSUME \/ CallSubmit \/ SubmitSleeps \/ SubmitRaises \/ SubmitTimer \/ SubmitWake
              \/ Shutdown \/ ShutdownNoWait \/ ShutdownStep
              \/ ChangeCount \/ UNCHANGED vars
       PROVE  UNCHANGED <<state, dstate, canc>>
  BY <1>11 DEF CallSubmit, SubmitSleeps, SubmitRaises, SubmitTimer, SubmitWake, Shutdown,
    ShutdownNoWait, ShutdownStep, ShutdownDelegate, DelegateShutdownReturns,
    ShutdownWake, JoinSubmitThread, ChangeCount, vars
<1> QED
  BY <1>1, <1>2, <1>3, <1>4, <1>5, <1>6, <1>7, <1>8, <1>9, <1>10, <1>11
    DEF Next, SubmitStep, CancelStep, Promise!Next

\* What a client sees of a ThrottleExecutor is what FuturePromise allows.
THEOREM ImplementsPromise == Spec => KeepsPromise
<1>1. Init => Promise!Init
  BY DEF Init, Promise!Init
<1>2. IInv /\ [Next]_vars => [Promise!Next]_(Promise!promise)
  BY NextKeepsPromise
<1> QED
  BY <1>1, <1>2, Invariant, PTL DEF Spec, KeepsPromise, Promise!Spec

-----------------------------------------------------------------------------
(* No wake up is lost *)

\* The submit thread will not sleep through its next wait.
Warned == event \/ WakeComing

\* What the submit thread that nobody warns has found out still holds.
SleepInv ==
  ~Warned =>
    /\ sub \notin {"top", "clear", "exited"} => shut = "open"
    /\ sub \notin {"top", "fill", "clear", "exited"} =>
         queue = <<>> \/ ~Below(running, limit)

\* Steps of one future that take away no warning of a callback.
LEMMA TallyWarns ==
  ASSUME IInv, Warned, NEW f \in Futures, tally[f] # "wake", NEW v,
         tally' = [tally EXCEPT ![f] = v],
         UNCHANGED <<event, placing, shut>>
  PROVE  Warned'
<1>1. \A g \in Futures : tally[g] = "wake" => tally'[g] = "wake"
  BY DEF IInv, TypeOK
<1> QED
  BY <1>1 DEF Warned, WakeComing

\* Only the submit thread takes a warning away, as it clears the event.
LEMMA WarningLasts ==
  ASSUME IInv, [Next]_vars, Warned, ~ClearEvent
  PROVE  Warned'
<1> USE DEF futures, delegates, counting, client
<1>1. ASSUME UNCHANGED <<event, placing, shut, tally>> PROVE Warned'
  BY <1>1 DEF Warned, WakeComing
<1>2. CASE CallSubmit \/ SubmitSleeps \/ SubmitRaises \/ SubmitTimer \/ SubmitWake
  BY <1>2 DEF CallSubmit, SubmitSleeps, SubmitRaises, SubmitTimer, SubmitWake, Warned,
    WakeComing
<1>3. ASSUME NEW f \in Futures, Enqueue(f) PROVE Warned'
  BY <1>3 DEF Enqueue, Warned, WakeComing
<1>4. ASSUME NEW f \in Futures, CancelQueued(f) \/ CancelAgain(f) \/ CancelStep(f)
      PROVE  Warned'
  BY <1>1, <1>4 DEF CancelQueued, CancelAgain, CancelStep, CancelCallbacksReturn,
    CancelReturnsTrue
<1>5. ASSUME NEW f \in Futures, dstate[f] = "live" PROVE tally[f] # "wake"
  BY <1>5 DEF IInv, FuturesInv, Begun, Callbacks
<1>6. ASSUME NEW f \in Futures, CancelDelegate(f) PROVE Warned'
  BY <1>5, <1>6, TallyWarns DEF CancelDelegate
<1>7. ASSUME NEW f \in Futures, DelegateFinish(f) \/ DelegateCancelledElsewhere(f)
      PROVE  Warned'
  BY <1>5, <1>7, TallyWarns DEF DelegateFinish, DelegateCancelledElsewhere, DelegateEnds
<1>8. ASSUME NEW f \in Futures, CallbackStep(f) PROVE Warned'
  <2>1. CASE TallyDecr(f)
    BY <2>1, TallyWarns DEF TallyDecr
  <2>2. CASE TallyWake(f)
    BY <2>2 DEF TallyWake, SetEvent, Warned
  <2>3. CASE ResolveUnlink(f) \/ ResolveSettle(f)
    BY <1>1, <2>3 DEF ResolveUnlink, ResolveSettle
  <2> QED
    BY <1>8, <2>1, <2>2, <2>3 DEF CallbackStep
<1>9. ASSUME NEW f \in Futures, AttachTally(f) PROVE Warned'
  <2>1. tally[f] # "wake"
    BY <1>9, CurrentIsBatched DEF AttachTally, Current, IInv, TypeOK, FuturesInv, Waiting, Begun,
      Callbacks
  <2> QED
    BY <1>9, <2>1, TallyWarns DEF AttachTally
<1>10. CASE SubmitThread /\ ~(\E f \in Futures : AttachTally(f))
  BY <1>1, <1>10 DEF SubmitThread, CheckShutdown, Evaluate, FillOne, FillDone, Start,
    StartRefused, AllStarted, WaitReturns, TallyReturns, Link, AttachResolve, ResolveReturns
<1>11. CASE Shutdown \/ ShutdownNoWait \/ ShutdownStep
  BY <1>11 DEF Shutdown, ShutdownNoWait, ShutdownStep, ShutdownDelegate,
    DelegateShutdownReturns, ShutdownWake, JoinSubmitThread, Warned, WakeComing
<1>12. CASE ChangeCount \/ UNCHANGED vars
  BY <1>1, <1>12 DEF ChangeCount, vars
<1> QED
  BY <1>2, <1>3, <1>4, <1>6, <1>7, <1>8, <1>9, <1>10, <1>11, <1>12 DEF Next, SubmitStep

\* Steps of others: a job that comes to the queue, and a future that comes off
\* the count, come with a warning.
LEMMA OthersKeepSleep ==
  ASSUME IInv, SleepInv, ~Warned, ~Warned', [Next]_vars, ~SubmitThread
  PROVE  SleepInv'
<1> USE DEF futures, delegates, counting, client
<1>1. ASSUME UNCHANGED <<sub, limit, running, shut>>, queue = <<>> => queue' = <<>>
      PROVE  SleepInv'
  BY <1>1 DEF SleepInv, Below
<1>2. CASE \/ CallSubmit \/ SubmitSleeps \/ SubmitRaises \/ SubmitTimer \/ SubmitWake
           \/ ChangeCount \/ UNCHANGED vars
  BY <1>1, <1>2 DEF CallSubmit, SubmitSleeps, SubmitRaises, SubmitTimer, SubmitWake,
    ChangeCount, vars
<1>3. ASSUME NEW f \in Futures, Enqueue(f) PROVE FALSE
  BY <1>3 DEF Enqueue, Warned, WakeComing
<1>4. ASSUME NEW f \in Futures,
             \/ CancelQueued(f) \/ CancelDelegate(f) \/ CancelAgain(f) \/ CancelStep(f)
             \/ DelegateFinish(f) \/ DelegateCancelledElsewhere(f)
      PROVE  SleepInv'
  BY <1>1, <1>4 DEF CancelQueued, CancelDelegate, CancelAgain, CancelStep,
    CancelCallbacksReturn, CancelReturnsTrue, DelegateFinish, DelegateCancelledElsewhere,
    DelegateEnds
<1>5. ASSUME NEW f \in Futures, CallbackStep(f) PROVE SleepInv'
  <2>1. ~TallyDecr(f)
    BY DEF TallyDecr, Warned, WakeComing, IInv, TypeOK
  <2> QED
    BY <1>1, <1>5, <2>1 DEF CallbackStep, TallyWake, ResolveUnlink, ResolveSettle
<1>6. CASE Shutdown \/ ShutdownNoWait \/ ShutdownStep
  <2>1. shut # "open" /\ UNCHANGED sub
    BY <1>6 DEF Shutdown, ShutdownNoWait, ShutdownStep, ShutdownDelegate,
      DelegateShutdownReturns, ShutdownWake, JoinSubmitThread, Warned, WakeComing
  <2> QED
    BY <2>1 DEF SleepInv
<1> QED
  BY <1>2, <1>3, <1>4, <1>5, <1>6 DEF Next, SubmitStep

\* Steps of the submit thread: it leaves the queue empty or throttled.
LEMMA ThreadKeepsSleep ==
  ASSUME IInv, SleepInv, ~Warned, SubmitThread
  PROVE  SleepInv'
<1> USE DEF futures, delegates, counting, client
<1>1. CASE CheckShutdown \/ StartRefused \/ WaitReturns \/ ClearEvent
  BY <1>1 DEF CheckShutdown, StartRefused, WaitReturns, ClearEvent, SleepInv
<1>2. CASE Evaluate \/ FillOne
  BY <1>2 DEF Evaluate, FillOne, SleepInv
<1>3. CASE FillDone
  BY <1>3 DEF FillDone, SleepInv, Below
<1>4. ASSUME UNCHANGED <<queue, running, limit, shut>>,
             sub \notin {"top", "fill", "clear", "exited"}
      PROVE  SleepInv'
  BY <1>4 DEF SleepInv, Below
<1>5. ASSUME AllStarted PROVE SleepInv'
  BY <1>4, <1>5 DEF AllStarted
<1>6. ASSUME NEW f \in Futures,
             \/ Start(f) \/ AttachTally(f) \/ TallyReturns(f) \/ Link(f)
             \/ AttachResolve(f) \/ ResolveReturns(f)
      PROVE  SleepInv'
  BY <1>4, <1>6 DEF Start, AttachTally, TallyReturns, Link, AttachResolve, ResolveReturns
<1> QED
  BY <1>1, <1>2, <1>3, <1>5, <1>6 DEF SubmitThread

\* No lost wake up: a submit thread that nobody is about to wake does not sleep
\* over a job it could submit, nor over a shutdown (throttle.py:230-249).
THEOREM NoWakeUpIsLost == Spec => []NoOversleep
<1>1. Init => SleepInv
  BY DEF Init, SleepInv
<1>2. ASSUME IInv, SleepInv, [Next]_vars PROVE SleepInv'
  <2>1. CASE Warned'
    BY <2>1 DEF SleepInv
  <2>2. CASE ClearEvent
    BY <2>2 DEF ClearEvent, SleepInv
  <2>3. CASE ~Warned' /\ ~ClearEvent
    BY <1>2, <2>3, WarningLasts, OthersKeepSleep, ThreadKeepsSleep
  <2> QED
    BY <2>1, <2>2, <2>3
<1>3. SleepInv => NoOversleep
  BY DEF SleepInv, NoOversleep, Warned
<1> QED
  BY <1>1, <1>2, <1>3, Invariant, PTL DEF Spec
-----------------------------------------------------------------------------
(* Nothing is stuck: what FuturesSettle and ShutdownReturns rest on *)

\* Each thread has ended or waits: for a lock, for a callback, or for the event, the
\* timers of 30 and 2 seconds left aside.  These are the negated guards of the
\* actions of Fairness.
ThreadRests ==
  \/ sub = "exited"
  \/ sub = "waiting" /\ ~event
  \/ \E f \in Futures :
       /\ Current(f)
       /\ \/ sub = "intally" /\ tally[f] # "done"
          \/ sub = "link" /\ ~Unlocked(f)
          \/ sub = "inresolve" /\ resolve[f] # "done"

SubmitRests ==
  /\ placing # "wake"
  /\ placing = "check" /\ block => bound # None
  /\ placing = "check" =>
       \/ block /\ Len(queue) >= bound
       \/ ~LockFree
       \/ \A f \in Futures : state[f] # "unborn"

CancelRests(f) ==
  /\ canc[f] # "commit"
  /\ canc[f] = "callbacks" =>
       \/ tally[f] # "done"
       \/ resolve[f] \notin {"none", "done"} /\ ~ResolvedInline(f)

CallbacksRest(f) ==
  /\ dstate[f] # "live"
  /\ tally[f] \notin {"decr", "wake"}
  /\ resolve[f] = "unlink" =>
       IF ResolvedInline(f) THEN ~Unlocked(f)
                            ELSE tally[f] # "done" \/ canc[f] = "commit"
  /\ resolve[f] = "settle" => ~Unlocked(f) \/ state[f] # "pending"

ShutdownRests ==
  /\ shut \notin {"flagged", "closed"}
  /\ shut = "closing" => \E f \in Futures : WorkerBusy(f)
  /\ shut = "joining" => sub # "exited"

AtRest ==
  /\ ThreadRests /\ SubmitRests /\ ShutdownRests
  /\ \A f \in Futures : CancelRests(f) /\ CallbacksRest(f)

\* What is true then: no cancel() waits for a callback that waits for it; shutdown()
\* has not been called or has returned; a client is about to block in submit() only
\* if the count was 0 when it asked or the limit is 0 now; and with the executor in service a future is
\* pending only in the queue, under a limit of 0, or behind a delegate future that
\* somebody else cancelled.
NothingIsStuck ==
  AtRest =>
    /\ \A f \in Futures : canc[f] = "idle"
    /\ shut \in {"open", "returned"}
    /\ placing = "check" => block /\ (bound = 0 \/ limit = 0)
    /\ shut = "open" =>
         \A f \in Futures :
           state[f] = "pending" =>
             dstate[f] = "cancelled" \/ (f \in Range(queue) /\ limit = 0)

\* The submit thread leaves its loop after a shutdown only, which does not begin while
\* a client is in submit(), and a client that blocks there has its future to make.
ServiceInv ==
  /\ sub = "exited" => shut # "open"
  /\ placing # "idle" => shut = "open"
  /\ placing \in {"check", "asleep"} => \E f \in Futures : state[f] = "unborn"

\* It holds throughout.
LEMMA InService == Spec => []ServiceInv
<1>1. Init => ServiceInv
  BY DEF Init, ServiceInv
<1>2. IInv /\ ServiceInv /\ [Next]_vars => ServiceInv'
  <2> SUFFICES ASSUME IInv, ServiceInv, [Next]_vars PROVE ServiceInv'
    OBVIOUS
  <2> USE DEF ServiceInv
  <2>1. CASE SubmitThread
    <3>1. UNCHANGED <<state, placing, shut>>
      BY <2>1 DEF SubmitThread, CheckShutdown, Evaluate, FillOne, FillDone, Start,
        StartRefused, AttachTally, TallyReturns, Link, AttachResolve, ResolveReturns,
        AllStarted, WaitReturns, ClearEvent, futures, client
    <3>2. sub' = "exited" => sub = "exited" \/ shut # "open"
      BY <2>1 DEF SubmitThread, CheckShutdown, Evaluate, FillOne, FillDone, Start,
        StartRefused, AttachTally, TallyReturns, Link, AttachResolve, ResolveReturns,
        AllStarted, WaitReturns, ClearEvent, DelegateClosed
    <3> QED
      BY <3>1, <3>2
  <2>2. CASE Shutdown \/ ShutdownNoWait \/ ShutdownStep
    BY <2>2 DEF Shutdown, ShutdownNoWait, ShutdownStep, ShutdownDelegate,
      DelegateShutdownReturns, ShutdownWake, JoinSubmitThread, SetEvent, futures, client
  <2>3. CASE CallSubmit \/ SubmitSleeps \/ SubmitStep \/ ChangeCount \/ UNCHANGED vars
    BY <2>3 DEF CallSubmit, SubmitSleeps, SubmitStep, SubmitRaises, SubmitTimer, SubmitWake,
      Enqueue, ChangeCount, vars, futures, client
  <2>4. ASSUME NEW f \in Futures,
               \/ CancelQueued(f) \/ CancelDelegate(f) \/ CancelAgain(f) \/ CancelStep(f)
               \/ DelegateFinish(f) \/ DelegateCancelledElsewhere(f) \/ CallbackStep(f)
        PROVE  ServiceInv'
    <3>1. UNCHANGED <<sub, shut>>
      BY <2>4 DEF CancelQueued, CancelDelegate, CancelAgain, CancelStep,
        CancelCallbacksReturn, CancelReturnsTrue, DelegateFinish, DelegateCancelledElsewhere,
        DelegateEnds, CallbackStep, TallyDecr, TallyWake, ResolveUnlink, ResolveSettle
    <3>2. placing' = placing \/ (placing = "asleep" /\ placing' = "check")
      BY <2>4 DEF CancelQueued, CancelDelegate, CancelAgain, CancelStep, SetEvent, client,
        CancelCallbacksReturn, CancelReturnsTrue, DelegateFinish, DelegateCancelledElsewhere,
        DelegateEnds, CallbackStep, TallyDecr, TallyWake, ResolveUnlink, ResolveSettle
    <3>3. ASSUME NEW g \in Futures, state[g] = "unborn" PROVE state'[g] = "unborn"
      <4>1. CASE CancelReturnsTrue(f) \/ ResolveSettle(f)
        BY <2>4, <3>3, <4>1 DEF CancelReturnsTrue, ResolveSettle, IInv, TypeOK, FuturesInv, Waiting, Begun
      <4>2. CASE ~(CancelReturnsTrue(f) \/ ResolveSettle(f))
        BY <2>4, <3>3, <4>2 DEF CancelQueued, CancelDelegate, CancelAgain, CancelStep, futures,
          CancelCallbacksReturn, DelegateFinish, DelegateCancelledElsewhere,
          DelegateEnds, CallbackStep, TallyDecr, TallyWake, ResolveUnlink
      <4> QED
        BY <4>1, <4>2
    <3> QED
      BY <3>1, <3>2, <3>3
  <2> QED
    BY <2>1, <2>2, <2>3, <2>4 DEF Next
<1> QED
  BY <1>1, <1>2, Invariant, PTL DEF Spec

\* At rest the submit thread is outside of its loop over the batch, and neither a
\* call of cancel() nor a callback is under way.
LEMMA RestIsQuiet ==
  ASSUME IInv, AtRest
  PROVE  /\ sub = "exited" \/ (sub = "waiting" /\ ~event)
         /\ \A f \in Futures : canc[f] = "idle"
         /\ \A f \in Futures :
              dstate[f] # "none" => tally[f] = "done" /\ resolve[f] = "done"
<1>1. sub \notin {"tally", "resolve", "start"}
  BY DEF AtRest, ThreadRests
<1>2. ASSUME NEW f \in Futures, dstate[f] # "none" PROVE tally[f] = "done"
  <2>1. /\ tally[f] \in {"none", "armed", "decr", "wake", "done"}
        /\ Callbacks(f) /\ CallbacksRest(f)
    BY <1>2 DEF IInv, TypeOK, FuturesInv, Begun, AtRest
  <2> QED
    BY <1>1, <2>1 DEF Callbacks, CallbacksRest
<1>3. ASSUME NEW f \in Futures PROVE canc[f] = "idle"
  <2>1. canc[f] \in {"idle", "callbacks", "commit"} /\ CancelRests(f) /\ CallbacksRest(f)
    BY DEF IInv, TypeOK, AtRest
  <2>2. SUFFICES ASSUME canc[f] = "callbacks" PROVE FALSE
    BY <2>1 DEF CancelRests
  <2>3. dstate[f] = "cancelled" /\ Callbacks(f)
    BY <2>2 DEF IInv, FuturesInv, Waiting, Begun
  <2>4. tally[f] = "done"
    BY <1>2, <2>3
  <2>5. resolve[f] \in {"none", "armed", "unlink", "settle", "done"}
    BY DEF IInv, TypeOK
  <2>6. resolve[f] = "unlink" /\ ~ResolvedInline(f)
    BY <2>1, <2>2, <2>3, <2>4, <2>5 DEF Callbacks, CancelRests, Outcomes
  <2> QED
    BY <2>1, <2>2, <2>4, <2>6 DEF CallbacksRest
<1>4. sub \notin {"link", "intally"}
  <2>1. sub \in {"link", "intally"} => batch # <<>>
    BY DEF IInv, ThreadInv
  <2>2. ASSUME NEW f \in Futures, Current(f), sub = "intally" PROVE tally[f] = "done"
    <3>1. dstate[f] # "none"
      BY <2>2 DEF IInv, FuturesInv, Waiting, Submitting
    <3> QED
      BY <1>2, <3>1
  <2> QED
    BY <1>3, <2>2 DEF AtRest, ThreadRests, Unlocked
<1>5. ASSUME NEW f \in Futures, dstate[f] # "none" PROVE resolve[f] = "done"
  <2>1. /\ resolve[f] \in {"none", "armed", "unlink", "settle", "done"}
        /\ Begun(f) /\ Callbacks(f) /\ CallbacksRest(f)
    BY <1>5 DEF IInv, TypeOK, FuturesInv, Begun, AtRest
  <2>2. resolve[f] \notin {"none", "armed"}
    BY <1>1, <1>4, <2>1 DEF Callbacks, CallbacksRest
  <2>3. resolve[f] # "unlink"
    BY <1>2, <1>3, <1>5, <2>1 DEF CallbacksRest, Unlocked
  <2>4. resolve[f] # "settle"
    BY <1>3, <2>1 DEF CallbacksRest, Unlocked, Callbacks, Begun
  <2> QED
    BY <2>1, <2>2, <2>3, <2>4
<1>6. sub # "inresolve"
  <2>1. ASSUME NEW f \in Futures, Current(f), sub = "inresolve" PROVE resolve[f] = "done"
    <3>1. dstate[f] # "none"
      BY <2>1 DEF IInv, FuturesInv, Waiting, Submitting
    <3> QED
      BY <1>5, <3>1
  <2> QED
    BY <2>1 DEF AtRest, ThreadRests
<1> QED
  BY <1>2, <1>3, <1>4, <1>5, <1>6 DEF AtRest, ThreadRests

\* When no step is left to take, every future has settled and every call returned.
THEOREM ExecutorIsNeverStuck == Spec => []NothingIsStuck
<1>1. ASSUME IInv, NoOversleep, ServiceInv, AtRest
      PROVE  /\ \A f \in Futures : canc[f] = "idle"
             /\ shut \in {"open", "returned"}
             /\ placing = "check" => block /\ (bound = 0 \/ limit = 0)
             /\ shut = "open" =>
                  \A f \in Futures :
                    state[f] = "pending" =>
                      dstate[f] = "cancelled" \/ (f \in Range(queue) /\ limit = 0)
  <2>1. /\ sub = "exited" \/ (sub = "waiting" /\ ~event)
        /\ \A f \in Futures : canc[f] = "idle"
        /\ \A f \in Futures : dstate[f] # "none" => tally[f] = "done" /\ resolve[f] = "done"
    BY <1>1, RestIsQuiet
  <2>2. /\ \A f \in Futures : dstate[f] # "live" /\ tally[f] # "wake" /\ tally[f] # "decr"
        /\ placing # "wake" /\ shut \notin {"flagged", "closed"}
    BY <1>1 DEF AtRest, CallbacksRest, SubmitRests, ShutdownRests
  <2>3. ASSUME NEW f \in Futures PROVE ~WorkerBusy(f)
    <3>1. dstate[f] = "none" => resolve[f] = "none"
      BY <1>1 DEF IInv, FuturesInv, Waiting
    <3> QED
      BY <2>1, <2>2, <3>1 DEF WorkerBusy
  <2>4. shut # "closing"
    BY <1>1, <2>3 DEF AtRest, ShutdownRests
  <2>5. sub = "waiting" =>
          (queue = <<>> \/ ~Below(running, limit)) /\ shut = "open"
    BY <1>1, <2>1, <2>2, <2>4 DEF NoOversleep, WakeComing
  <2>6. shut # "joining"
    BY <1>1, <2>1, <2>5 DEF AtRest, ShutdownRests
  <2>7. shut \in {"open", "returned"}
    BY <1>1, <2>2, <2>4, <2>6 DEF IInv, TypeOK
  <2>8. ASSUME sub = "waiting", queue # <<>> PROVE limit = 0
    <3>1. batch = <<>>
      BY <1>1, <2>8 DEF IInv, ThreadInv
    <3>2. Range(batch) = {}
      BY <3>1 DEF Range
    <3>3. {g \in Futures : InProgress(g)} = {}
      BY <2>1, <3>2 DEF InProgress
    <3>4. running = 0
      BY <1>1, <3>3, FS_EmptySet DEF IInv, CountIsExact
    <3>5. limit # None /\ ~(0 < limit)
      BY <2>5, <2>8, <3>4 DEF Below
    <3> QED
      BY <1>1, <3>5 DEF IInv, TypeOK, Limits
  <2>9. ASSUME shut = "open", NEW f \in Futures, state[f] = "pending", dstate[f] # "cancelled"
        PROVE  f \in Range(queue) /\ limit = 0
    <3>1. sub = "waiting"
      BY <1>1, <2>1, <2>9 DEF ServiceInv
    <3>2. batch = <<>>
      BY <1>1, <3>1 DEF IInv, ThreadInv
    <3>3. Range(batch) = {}
      BY <3>2 DEF Range
    <3>4. dstate[f] = "none"
      <4>1. SUFFICES ASSUME dstate[f] \in Outcomes PROVE FALSE
        BY <1>1, <2>2, <2>9 DEF IInv, TypeOK, Settled
      <4>2. state[f] = dstate[f]
        BY <1>1, <2>1, <4>1 DEF IInv, FuturesInv, Begun, Outcomes
      <4> QED
        BY <2>9, <4>1, <4>2 DEF Outcomes
    <3>5. f \in Range(queue)
      BY <1>1, <2>1, <2>9, <3>3, <3>4 DEF IInv, FuturesInv, Waiting
    <3>6. queue # <<>>
      BY <3>5 DEF Range
    <3> QED
      BY <2>8, <3>1, <3>5, <3>6
  <2>10. ASSUME placing = "check" PROVE block /\ (bound = 0 \/ limit = 0)
    <3>1. shut = "open" /\ sub = "waiting" /\ \E f \in Futures : state[f] = "unborn"
      BY <1>1, <2>1, <2>10 DEF ServiceInv
    <3>2. block /\ Len(queue) >= bound /\ bound # None
      BY <1>1, <2>10, <3>1 DEF AtRest, SubmitRests, LockFree
    <3>3. bound \in Nat
      BY <1>1, <3>2 DEF IInv, TypeOK, Limits
    <3>4. queue = <<>> => bound = 0
      BY <3>2, <3>3
    <3> QED
      BY <2>8, <3>1, <3>2, <3>4
  <2> QED
    BY <2>1, <2>7, <2>9, <2>10
<1>2. IInv /\ NoOversleep /\ ServiceInv => NothingIsStuck
  BY <1>1 DEF NothingIsStuck
<1> QED
  BY <1>2, Invariant, NoWakeUpIsLost, InService, PTL
==============================================================================
