--------------------------- MODULE FutureChainProofs ---------------------------
(***************************************************************************)
(* Proofs about FutureChain, for any futures of any kind.                  *)
(***************************************************************************)
EXTENDS FutureChain, TLAPS

\* Where _delegate_resolved of a future is, and what the delegate is by then.
ChainInv ==
  \A f \in Futures :
    /\ state[f] = "unborn" <=> dstate[f] = "none"
    /\ state[f] = "unborn" =>
         step[f] = "attach" /\ turn[f] = "first" /\ hook[f] = "none" /\ ~holding[f]
    /\ state[f] # "unborn" /\ step[f] \in {"attach", "armed", "unlink"} => link[f] = turn[f]
    /\ step[f] = "armed" => dstate[f] = "live"
    /\ dstate[f] = "live" => step[f] \in {"attach", "armed"}
    /\ step[f] = "map" => dstate[f] \in Outcomes
    /\ holding[f] \/ state[f] = "cancelled" => dstate[f] = "cancelled"
    /\ state[f] \in {"result", "error", "nested"} => step[f] = "done"
    /\ Pending(f) /\ step[f] = "done" => dstate[f] = "cancelled"
    /\ hook[f] = "armed" => Pending(f)

-----------------------------------------------------------------------------
(* The steps *)

\* No step of a future leaves the types.
LEMMA ChainTypes ==
  ASSUME ChainTypeOK, NEW g \in Futures, ChainStep(g)
  PROVE  ChainTypeOK'
<1> USE DEF ChainTypeOK, Delegates, Settled, Outcomes
<1>1. CASE Create(g)
  BY <1>1 DEF Create, SetDelegate
<1>2. CASE Attach(g)
  BY <1>2 DEF Attach
<1>3. CASE DelegateFinish(g)
  BY <1>3 DEF DelegateFinish, End
<1>4. CASE DelegateCancelledElsewhere(g)
  BY <1>4 DEF DelegateCancelledElsewhere, End
<1>5. CASE Unlink(g)
  BY <1>5 DEF Unlink, SetDelegate, NothingFollows
<1>6. CASE Settle(g)
  BY <1>6 DEF Settle, Becomes, Mapped
<1>7. CASE Flatten(g)
  BY <1>7 DEF Flatten, SetDelegate
<1>8. CASE CancelDelegate(g)
  BY <1>8 DEF CancelDelegate, SetDelegate, LetsCancel
<1>9. CASE CancelCommit(g)
  BY <1>9 DEF CancelCommit, Becomes
<1>10. CASE AddCallback(g)
  BY <1>10 DEF AddCallback
<1>11. CASE RunCallback(g)
  BY <1>11 DEF RunCallback
<1> QED
  BY <1>1, <1>2, <1>3, <1>4, <1>5, <1>6, <1>7, <1>8, <1>9, <1>10, <1>11 DEF ChainStep

\* _delegate_resolved goes its way in order.
LEMMA ChainGoesOn ==
  ASSUME ChainTypeOK, ChainInv, NEW g \in Futures, ChainStep(g)
  PROVE  ChainInv'
<1> USE DEF ChainTypeOK, ChainInv, Outcomes, Pending
<1>1. CASE Create(g)
  BY <1>1 DEF Create, SetDelegate
<1>2. CASE Attach(g)
  BY <1>2 DEF Attach
<1>3. CASE DelegateFinish(g)
  BY <1>3 DEF DelegateFinish, End
<1>4. CASE DelegateCancelledElsewhere(g)
  BY <1>4 DEF DelegateCancelledElsewhere, End
<1>5. CASE Unlink(g)
  BY <1>5 DEF Unlink, SetDelegate, NothingFollows
<1>6. CASE Settle(g)
  BY <1>6 DEF Settle, Becomes, Mapped
<1>7. CASE Flatten(g)
  BY <1>7 DEF Flatten, SetDelegate
<1>8. CASE CancelDelegate(g)
  BY <1>8 DEF CancelDelegate, SetDelegate, LetsCancel
<1>9. CASE CancelCommit(g)
  BY <1>9 DEF CancelCommit, Becomes
<1>10. CASE AddCallback(g)
  BY <1>10 DEF AddCallback
<1>11. CASE RunCallback(g)
  BY <1>11 DEF RunCallback
<1> QED
  BY <1>1, <1>2, <1>3, <1>4, <1>5, <1>6, <1>7, <1>8, <1>9, <1>10, <1>11 DEF ChainStep

\* The types and the order hold at every moment.
LEMMA ChainInvariant == ChainSpec => [](ChainTypeOK /\ ChainInv)
<1>1. ChainInit => ChainTypeOK /\ ChainInv
  BY DEF ChainInit, ChainTypeOK, ChainInv, Delegates, Settled, Outcomes, Pending
<1>2. ChainTypeOK /\ ChainInv /\ [ChainNext]_chain => ChainTypeOK' /\ ChainInv'
  <2>1. ASSUME ChainTypeOK, ChainInv, UNCHANGED chain PROVE ChainTypeOK' /\ ChainInv'
    BY <2>1 DEF chain, ChainTypeOK, ChainInv, Pending
  <2> QED
    BY <2>1, ChainTypes, ChainGoesOn DEF ChainNext
<1> QED
  BY <1>1, <1>2, PTL DEF ChainSpec

-----------------------------------------------------------------------------
(* cancel() *)

\* While a cancel() has the delegate and not yet the future, nothing settles the
\* future: cancel() returns True for futures that are cancelled by it, and no others
\* (map.py:77-83).
CancelHolds == \A f \in Futures : holding[f] => Pending(f)

\* A future changes no more once it has settled, and a cancel() that goes through
\* leaves it cancelled.
CancelTellsTheTruth ==
  \A f \in Futures :
    /\ state[f] \in Settled => state'[f] = state[f]
    /\ holding[f] /\ ~holding'[f] => state'[f] = "cancelled"

\* No step settles a future whose cancel() is under way.
LEMMA NextHolds ==
  ASSUME ChainTypeOK, CancelHolds, [ChainNext]_chain
  PROVE  CancelHolds' /\ CancelTellsTheTruth
<1> USE DEF ChainTypeOK, CancelHolds, CancelTellsTheTruth, Settled, Outcomes, Pending
<1>1. ASSUME NEW g \in Futures, Create(g) PROVE CancelHolds' /\ CancelTellsTheTruth
  BY <1>1 DEF Create
<1>2. ASSUME NEW g \in Futures, Settle(g) PROVE CancelHolds' /\ CancelTellsTheTruth
  BY <1>2 DEF Settle, Becomes, Mapped
<1>3. ASSUME NEW g \in Futures, CancelDelegate(g) PROVE CancelHolds' /\ CancelTellsTheTruth
  BY <1>3 DEF CancelDelegate
<1>4. ASSUME NEW g \in Futures, CancelCommit(g) PROVE CancelHolds' /\ CancelTellsTheTruth
  BY <1>4 DEF CancelCommit, Becomes
<1>5. ASSUME UNCHANGED <<state, holding>> PROVE CancelHolds' /\ CancelTellsTheTruth
  BY <1>5
<1>6. ASSUME NEW g \in Futures,
             \/ Attach(g) \/ DelegateFinish(g) \/ DelegateCancelledElsewhere(g)
             \/ Unlink(g) \/ Flatten(g) \/ AddCallback(g) \/ RunCallback(g)
      PROVE  UNCHANGED <<state, holding>>
  BY <1>6 DEF Attach, DelegateFinish, DelegateCancelledElsewhere, End, Unlink, Flatten,
    AddCallback, RunCallback
<1>7. CASE UNCHANGED chain
  BY <1>5, <1>7 DEF chain
<1> QED
  BY <1>1, <1>2, <1>3, <1>4, <1>5, <1>6, <1>7 DEF ChainNext, ChainStep

\* The callable's thread and cancel() may race as they will.
THEOREM CancelIsHonest == ChainSpec => []CancelHolds /\ [][CancelTellsTheTruth]_chain
<1>1. ChainInit => CancelHolds
  BY DEF ChainInit, CancelHolds
<1>2. ChainTypeOK /\ CancelHolds /\ [ChainNext]_chain =>
        CancelHolds' /\ [CancelTellsTheTruth]_chain
  BY NextHolds
<1> QED
  BY <1>1, <1>2, ChainInvariant, PTL DEF ChainSpec

-----------------------------------------------------------------------------
(* What FollowsReturnedFuture and NeverNested would need *)

\* Nobody but the cancel() of the future cancels its delegate.
OnlyOwnCancel == [][\A f \in Futures : ~DelegateCancelledElsewhere(f)]_chain

\* A delegate that was cancelled takes its future with it.
CancelledWithFuture ==
  \A f \in Futures : dstate[f] = "cancelled" => holding[f] \/ state[f] = "cancelled"

\* Every step keeps that, but for a cancel() from elsewhere.
LEMMA NextCancelsBoth ==
  ASSUME ChainTypeOK, CancelHolds, CancelledWithFuture, ChainNext,
         \A f \in Futures : ~DelegateCancelledElsewhere(f)
  PROVE  CancelledWithFuture'
<1> USE DEF ChainTypeOK, CancelHolds, CancelledWithFuture, Pending
<1>1. ASSUME NEW g \in Futures, Create(g) PROVE CancelledWithFuture'
  BY <1>1 DEF Create
<1>2. ASSUME NEW g \in Futures, DelegateFinish(g) \/ Flatten(g) PROVE CancelledWithFuture'
  BY <1>2 DEF DelegateFinish, End, Flatten, Outcomes
<1>3. ASSUME NEW g \in Futures, Settle(g) PROVE CancelledWithFuture'
  BY <1>3 DEF Settle, Becomes
<1>4. ASSUME NEW g \in Futures, CancelDelegate(g) PROVE CancelledWithFuture'
  BY <1>4 DEF CancelDelegate
<1>5. ASSUME NEW g \in Futures, CancelCommit(g) PROVE CancelledWithFuture'
  BY <1>5 DEF CancelCommit, Becomes
<1>6. ASSUME NEW g \in Futures, Attach(g) \/ Unlink(g) \/ AddCallback(g) \/ RunCallback(g)
      PROVE  CancelledWithFuture'
  BY <1>6 DEF Attach, Unlink, AddCallback, RunCallback
<1> QED
  BY <1>1, <1>2, <1>3, <1>4, <1>5, <1>6 DEF ChainNext, ChainStep

\* As long as nobody else cancels a delegate, a FlatMapFuture follows the future that
\* its function returned, and no future at all stays behind a delegate that is done
\* (map.py:25-83, flat_map.py:13-29).
THEOREM OwnCancelLosesNone ==
  ChainSpec /\ OnlyOwnCancel =>
    []( /\ FollowsReturnedFuture
        /\ \A f \in Futures : Pending(f) => step[f] # "done" \/ holding[f] )
<1> DEFINE NoneLost == \A f \in Futures : Pending(f) => step[f] # "done" \/ holding[f]
<1>1. ChainInit => CancelledWithFuture
  BY DEF ChainInit, CancelledWithFuture
<1>2. ChainTypeOK /\ CancelHolds /\ CancelledWithFuture /\ [ChainNext]_chain
        /\ [\A f \in Futures : ~DelegateCancelledElsewhere(f)]_chain
        => CancelledWithFuture'
  <2>1. CASE UNCHANGED chain
    BY <2>1 DEF CancelledWithFuture, chain
  <2> QED
    BY <2>1, NextCancelsBoth
<1>3. ChainInv /\ CancelledWithFuture => FollowsReturnedFuture /\ NoneLost
  BY KindAssumption DEF ChainInv, CancelledWithFuture, FollowsReturnedFuture, Pending
<1> QED
  BY <1>1, <1>2, <1>3, ChainInvariant, CancelIsHonest, PTL DEF ChainSpec, OnlyOwnCancel

\* A FlatMapFuture without an error_fn never has a future for a result: only what
\* error_fn returns for the second delegate is not followed (flat_map.py:13-29).
THEOREM OnlyRescueNests ==
  ASSUME Flat \cap Rescue = {}
  PROVE  ChainSpec => []NeverNested
<1>1. ChainInit => NeverNested
  BY KindAssumption DEF ChainInit, NeverNested
<1>2. ChainTypeOK /\ ChainInv /\ NeverNested /\ [ChainNext]_chain => NeverNested'
  <2> USE KindAssumption DEF ChainTypeOK, NeverNested
  <2>1. ASSUME ChainTypeOK, ChainInv, NeverNested, NEW g \in Futures, Settle(g) PROVE NeverNested'
    <3>1. PICK s \in Mapped(g) : Becomes(g, s)
      BY <2>1 DEF Settle
    <3>2. dstate[g] \in Outcomes
      BY <2>1 DEF Settle, ChainInv
    <3>3. g \in Flat => s # "nested"
      BY <2>1, <3>1, <3>2 DEF Mapped, Delegates, Outcomes
    <3> QED
      BY <2>1, <3>1, <3>3 DEF Becomes
  <2>2. ASSUME NEW g \in Futures, ChainTypeOK, NeverNested,
               Create(g) \/ CancelCommit(g)
        PROVE  NeverNested'
    BY <2>2 DEF Create, CancelCommit, Becomes
  <2>3. ASSUME NEW g \in Futures, NeverNested,
               \/ Attach(g) \/ DelegateFinish(g) \/ DelegateCancelledElsewhere(g)
               \/ Unlink(g) \/ Flatten(g) \/ CancelDelegate(g)
               \/ AddCallback(g) \/ RunCallback(g)
        PROVE  NeverNested'
    BY <2>3 DEF Attach, DelegateFinish, DelegateCancelledElsewhere, End, Unlink, Flatten,
      CancelDelegate, AddCallback, RunCallback
  <2>4. NeverNested /\ UNCHANGED chain => NeverNested'
    BY DEF chain
  <2> QED
    BY <2>1, <2>2, <2>3, <2>4 DEF ChainNext, ChainStep
<1> QED
  BY <1>1, <1>2, ChainInvariant, PTL DEF ChainSpec
==============================================================================
