--------------------------- MODULE CombinatorProofs ---------------------------
(***************************************************************************)
(* Proofs about Combinator, for any inputs and argument lists.             *)
(***************************************************************************)
EXTENDS Combinator, TLAPS

\* handle_done runs for inputs that have ended only.
HandlerInv ==
  \A i \in Positions : handler[i] \notin {"none", "armed"} => Ended(i, Values)

\* What an input ended as that was counted and left the output undecided.
Counted == CASE op = "zip" -> {"true", "false"} [] op = "or" -> NotTrue [] op = "and" -> {"true"}

OpenInv ==
  decision = Undecided => \A i \in Positions : Slot(i) \in open \/ Ended(i, Counted)

\* An input that is not a loser any more was asked to cancel.
LosersInv ==
  decision # Undecided /\ op # "zip" =>
    \A i \in Positions : Ended(i, Values) \/ args[i] \in asked \cup losers

\* The callbacks of chain_cancel follow the output.
ChainInv ==
  /\ \A i \in Positions : i < next => chained[i] # "none"
  /\ \A i \in Positions : chained[i] # "none" => (chained[i] = "armed" <=> out = Undecided)
  /\ \A i \in Positions : chained[i] = "done" /\ out = Cancelled =>
       Ended(i, Values) \/ args[i] \in asked

IInv == TypeOK /\ HandlerInv /\ OpenInv /\ OutcomeIsJustified /\ LosersInv /\ ChainInv

-----------------------------------------------------------------------------

\* The invariant holds at the start.
LEMMA InitIInv == Init => IInv
<1> SUFFICES ASSUME Init PROVE IInv
  OBVIOUS
<1> USE CallsAssumption DEF Positions
<1>1. TypeOK
  <2>1. \A i \in Positions : args[i] \in Inputs
    BY DEF Init
  <2>2. open \subseteq IF op = "zip" THEN Positions ELSE Inputs
    BY <2>1 DEF Init, Slot
  <2>3. next \in 1..(N + 1)
    BY DEF Init
  <2>7. raised \in BOOLEAN
    BY Zenon DEF Init
  <2>4. /\ value \in [Inputs -> Values \cup {"live"}]
        /\ chained \in [Positions -> {"none", "armed", "due", "done"}]
        /\ handler \in [Positions -> {"none", "armed", "inline", "due", "done"}]
    BY DEF Init
  <2>5. decision \in Results \cup {Undecided} /\ out \in Results \cup {Undecided}
    BY DEF Init
  <2>6. op \in Ops /\ args \in Calls /\ asked \subseteq Inputs /\ losers \subseteq Inputs
    BY DEF Init
  <2> QED
    BY <2>2, <2>3, <2>4, <2>5, <2>6, <2>7, Zenon DEF TypeOK
<1>2. HandlerInv /\ OpenInv
  BY DEF Init, HandlerInv, OpenInv
<1>3. OutcomeIsJustified /\ LosersInv
  BY DEF Init, OutcomeIsJustified, LosersInv
<1>4. ChainInv
  BY DEF Init, ChainInv
<1> QED
  BY <1>1, <1>2, <1>3, <1>4 DEF IInv

-----------------------------------------------------------------------------
(* Steps that end an input *)

\* What has ended stays as it is, and a promise that was kept stays kept.
LEMMA EndedStays ==
  ASSUME IInv, NEW x \in Inputs, NEW v \in Values, Settles(x, v),
         UNCHANGED <<op, args, decision>>
  PROVE  /\ \A i \in Positions, s \in SUBSET Values : Ended(i, s) => Ended(i, s)'
         /\ decision # Undecided => Promise(decision)'
         /\ HandlerInv'
         /\ value' \in [Inputs -> Values \cup {"live"}]
         /\ handler' \in [Positions -> {"none", "armed", "inline", "due", "done"}]
<1> USE CallsAssumption DEF IInv
<1>1. \A i \in Positions, s \in SUBSET Values : Ended(i, s) => Ended(i, s)'
  BY DEF Settles, Ended, TypeOK, Values, Positions
<1>2. decision # Undecided => Promise(decision)'
  <2> SUFFICES ASSUME decision # Undecided PROVE Promise(decision)'
    OBVIOUS
  <2>1. Promise(decision)
    BY DEF OutcomeIsJustified
  <2>2. decision \in Results /\ op \in Ops
    BY DEF TypeOK
  <2>3. decision # Tuple => {decision[1]} \in SUBSET Values
    BY <2>2 DEF Results, Values, Tuple, Cancelled
  <2>4. decision # Tuple => SomeEnded({decision[1]})'
    BY <1>1, <2>1, <2>3 DEF Promise, SomeEnded
  <2>5. \A s \in SUBSET Values : AllEnded(s) => AllEnded(s)'
    BY <1>1 DEF AllEnded
  <2>6. CASE op = "zip"
    <3>1. ZipPromise(decision)' 
      BY <2>1, <2>5, <2>6 DEF Promise, ZipPromise, Values
    <3> QED
      BY <2>4, <2>6, <3>1 DEF Promise
  <2>7. CASE op = "or"
    <3>1. OrPromise(decision)'
      BY <2>1, <2>5, <2>7 DEF Promise, OrPromise, NotTrue, Values
    <3> QED
      BY <2>4, <2>7, <3>1 DEF Promise
  <2>8. CASE op = "and"
    <3>1. AndPromise(decision)'
      BY <2>1, <2>5, <2>8 DEF Promise, AndPromise, Values
    <3> QED
      BY <2>4, <2>8, <3>1 DEF Promise
  <2> QED
    BY <2>2, <2>6, <2>7, <2>8 DEF Ops
<1>3. HandlerInv'
  BY <1>1 DEF HandlerInv, Settles, Ended, TypeOK, Values, Positions
<1>4. /\ value' \in [Inputs -> Values \cup {"live"}]
      /\ handler' \in [Positions -> {"none", "armed", "inline", "due", "done"}]
  BY DEF Settles, TypeOK
<1> QED
  BY <1>1, <1>2, <1>3, <1>4

\* x settles as v, and the rest of the step says nothing of the invariant.
LEMMA EndingIInv ==
  ASSUME IInv, NEW x \in Inputs, NEW v \in Values, Settles(x, v),
         asked \subseteq asked', asked' \subseteq Inputs,
         \A y \in losers : y \in losers' \cup asked', losers' \subseteq losers,
         UNCHANGED <<op, args, next, raised, open, decision, out>>,
         \A i \in Positions : \/ chained'[i] = chained[i]
                              \/ /\ chained[i] = "due" /\ chained'[i] = "done"
                                 /\ out = Cancelled => args[i] \in asked',
         chained' \in [Positions -> {"none", "armed", "due", "done"}]
  PROVE  IInv'
<1> USE CallsAssumption DEF IInv
<1>1. /\ \A i \in Positions, s \in SUBSET Values : Ended(i, s) => Ended(i, s)'
      /\ decision # Undecided => Promise(decision)'
      /\ HandlerInv'
      /\ value' \in [Inputs -> Values \cup {"live"}]
      /\ handler' \in [Positions -> {"none", "armed", "inline", "due", "done"}]
  BY EndedStays
<1>2. TypeOK'
  BY <1>1 DEF TypeOK, Positions
<1>3. OpenInv'
  <2>1. Counted \in SUBSET Values
    BY DEF TypeOK, Ops, Counted, NotTrue, Values
  <2> QED
    BY <1>1, <2>1 DEF OpenInv, Counted, Slot, NotTrue, Values, Positions
<1>4. OutcomeIsJustified'
  BY <1>1 DEF OutcomeIsJustified, Undecided, Cancelled
<1>5. LosersInv'
  BY <1>1 DEF LosersInv, Undecided
<1>6. ChainInv'
  BY <1>1 DEF ChainInv, Undecided, Cancelled
<1> QED
  BY <1>2, <1>1, <1>3, <1>4, <1>5, <1>6

-----------------------------------------------------------------------------
(* handle_done *)

\* What handle_done decides for argument i is what the operation promises; when
\* it leaves the output undecided, argument i is one of those that allow it to.
LEMMA DecisionIsJustified ==
  ASSUME IInv, decision = Undecided, NEW i \in Positions, Running(i),
         NEW rest, rest = open \ {Slot(i)}
  PROVE  /\ Decides(args[i], rest) # Undecided => Promise(Decides(args[i], rest))
         /\ Decides(args[i], rest) = Undecided =>
              \A j \in Positions : Slot(j) \in rest \/ Ended(j, Counted)
         /\ Decides(args[i], rest) \in Results \cup {Undecided}
<1> USE CallsAssumption DEF IInv
<1> DEFINE x == args[i]
           d == Decides(x, rest)
<1>1. value[x] \in Values /\ x \in Inputs
  BY DEF Running, HandlerInv, Ended, TypeOK, Positions
<1>2. \A j \in Positions : Slot(j) = Slot(i) => args[j] = x
  BY DEF Slot
<1>3. rest = {} => \A j \in Positions : args[j] = x \/ Ended(j, Counted)
  BY <1>2 DEF OpenInv
<1>4. \A j \in Positions : Slot(j) \in rest \/ args[j] = x \/ Ended(j, Counted)
  BY <1>2 DEF OpenInv
<1>5. op \in Ops
  BY DEF TypeOK
<1>6. CASE op = "zip"
  <2>1. d = ZipDecides(x, rest) /\ Counted = {"true", "false"}
    BY <1>6 DEF Decides, Counted
  <2>2. CASE value[x] \in {"error", "cancelled"}
    <3>1. d = Copy(x)
      BY <2>1, <2>2 DEF ZipDecides
    <3>2. d # Tuple /\ d # Undecided /\ d[1] = value[x] /\ d \in Results
      BY <2>2, <3>1, <1>1 DEF Copy, Tuple, Undecided, Cancelled, Results
    <3>3. Promise(d)
      BY <1>6, <2>2, <3>2 DEF Promise, ZipPromise, SomeEnded, Ended
    <3> QED
      BY <3>2, <3>3
  <2>3. CASE value[x] \notin {"error", "cancelled"}
    <3>1. value[x] \in {"true", "false"}
      BY <2>3, <1>1 DEF Values
    <3>2. d = IF rest = {} THEN Tuple ELSE Undecided
      BY <2>1, <2>3 DEF ZipDecides
    <3>3. Tuple # Undecided
      BY DEF Tuple, Undecided
    <3>4. rest = {} => AllEnded({"true", "false"})
      BY <2>1, <3>1, <1>3 DEF AllEnded, Ended
    <3>5. rest = {} => Promise(d)
      BY <1>6, <3>2, <3>4 DEF Promise, ZipPromise
    <3>6. \A j \in Positions : Slot(j) \in rest \/ Ended(j, Counted)
      BY <2>1, <3>1, <1>4 DEF Ended
    <3> QED
      BY <3>2, <3>3, <3>5, <3>6 DEF Results
  <2> QED
    BY <2>2, <2>3
<1>7. CASE op = "or"
  <2>1. d = OrDecides(x, rest) /\ Counted = NotTrue
    BY <1>7 DEF Decides, Counted
  <2>2. CASE rest = {} \/ value[x] = "true"
    <3>1. d = Copy(x)
      BY <2>1, <2>2 DEF OrDecides
    <3>2. d # Tuple /\ d # Undecided /\ d[1] = value[x] /\ d \in Results
      BY <3>1, <1>1 DEF Copy, Tuple, Undecided, Cancelled, Results, Values
    <3>3. value[x] # "true" => AllEnded(NotTrue)
      BY <2>1, <2>2, <1>1, <1>3 DEF AllEnded, Ended, NotTrue
    <3>4. Promise(d)
      BY <1>7, <3>2, <3>3 DEF Promise, OrPromise, SomeEnded, Ended
    <3> QED
      BY <3>2, <3>4
  <2>3. CASE ~(rest = {} \/ value[x] = "true")
    <3>1. d = Undecided
      BY <2>1, <2>3 DEF OrDecides
    <3>2. \A j \in Positions : Slot(j) \in rest \/ Ended(j, Counted)
      BY <2>1, <2>3, <1>1, <1>4 DEF Ended, NotTrue
    <3> QED
      BY <3>1, <3>2
  <2> QED
    BY <2>2, <2>3
<1>8. CASE op = "and"
  <2>1. d = AndDecides(x, rest) /\ Counted = {"true"}
    BY <1>8 DEF Decides, Counted
  <2>2. CASE rest = {} \/ value[x] # "true"
    <3>1. d = Copy(x)
      BY <2>1, <2>2 DEF AndDecides
    <3>2. d # Tuple /\ d # Undecided /\ d[1] = value[x] /\ d \in Results
      BY <3>1, <1>1 DEF Copy, Tuple, Undecided, Cancelled, Results, Values
    <3>3. value[x] = "true" => AllEnded({"true"})
      BY <2>1, <2>2, <1>1, <1>3 DEF AllEnded, Ended
    <3>4. Promise(d)
      BY <1>8, <3>2, <3>3 DEF Promise, AndPromise, SomeEnded, Ended
    <3> QED
      BY <3>2, <3>4
  <2>3. CASE ~(rest = {} \/ value[x] # "true")
    <3>1. d = Undecided
      BY <2>1, <2>3 DEF AndDecides
    <3>2. \A j \in Positions : Slot(j) \in rest \/ Ended(j, Counted)
      BY <2>1, <2>3, <1>1, <1>4 DEF Ended
    <3> QED
      BY <3>1, <3>2
  <2> QED
    BY <2>2, <2>3
<1> QED
  BY <1>5, <1>6, <1>7, <1>8 DEF Ops

\* handle_done keeps the invariant.
LEMMA HandleDoneIInv ==
  ASSUME IInv, NEW i \in Positions, HandleDone(i)
  PROVE  IInv'
<1> USE CallsAssumption DEF IInv
<1> DEFINE rest == open \ {Slot(i)}
           d == Decides(args[i], rest)
<1>1. /\ decision = Undecided /\ Running(i)
      /\ open' = rest /\ decision' = d
      /\ losers' = IF d = Undecided THEN {} ELSE LosersOf(rest)
      /\ handler' = [handler EXCEPT ![i] = "done"]
      /\ UNCHANGED <<op, args, value, asked, next, raised, chained, out>>
  BY DEF HandleDone, HandlerEnds
<1>2. /\ d # Undecided => Promise(d)
      /\ d = Undecided => \A j \in Positions : Slot(j) \in rest \/ Ended(j, Counted)
      /\ d \in Results \cup {Undecided}
  BY <1>1, DecisionIsJustified
<1>3. \A j \in Positions : \A s : Ended(j, s)' <=> Ended(j, s)
  BY <1>1 DEF Ended
<1>4. TypeOK'
  <2>1. losers' \subseteq Inputs
    BY <1>1 DEF LosersOf, TypeOK
  <2>2. handler' \in [Positions -> {"none", "armed", "inline", "due", "done"}]
    BY <1>1 DEF TypeOK
  <2>3. open' \subseteq IF op = "zip" THEN Positions ELSE Inputs
    BY <1>1 DEF TypeOK
  <2> QED
    BY <1>1, <1>2, <2>1, <2>2, <2>3 DEF TypeOK
<1>5. HandlerInv'
  BY <1>1, <1>3 DEF HandlerInv, Running, TypeOK
<1>6. OpenInv'
  BY <1>1, <1>2, <1>3 DEF OpenInv, Slot, Counted
<1>7. OutcomeIsJustified'
  <2>1. out \in {Undecided, Cancelled}
    BY <1>1 DEF OutcomeIsJustified
  <2> HIDE DEF d
  <2>2. d # Undecided => Promise(decision)'
    BY <1>1, <1>2 DEF Promise, ZipPromise, OrPromise, AndPromise, AllEnded, SomeEnded, Ended
  <2> QED
    BY <1>1, <2>1, <2>2 DEF OutcomeIsJustified, Undecided, Cancelled
<1>8. LosersInv'
  <2> SUFFICES ASSUME d # Undecided, op # "zip", NEW j \in Positions
               PROVE  Ended(j, Values) \/ args[j] \in rest
    BY <1>1, <1>3 DEF LosersInv, LosersOf, Ended
  <2>1. Ended(i, Values)
    BY <1>1 DEF HandlerInv, Running
  <2>2. args[j] = args[i] \/ args[j] \in rest \/ Ended(j, Counted)
    BY <1>1 DEF OpenInv, Slot
  <2>3. Counted \subseteq Values
    BY DEF TypeOK, Ops, Counted, NotTrue, Values
  <2> QED
    BY <2>1, <2>2, <2>3 DEF Ended
<1>9. ChainInv'
  BY <1>1, <1>3 DEF ChainInv, Undecided, Cancelled
<1> QED
  BY <1>4, <1>5, <1>6, <1>7, <1>8, <1>9

-----------------------------------------------------------------------------

\* A callback of chain_cancel that has run leaves its input asked, or the output
\* was not cancelled.
LEMMA RunChainCancelIInv ==
  ASSUME IInv, NEW i \in Positions, RunChainCancel(i)
  PROVE  IInv'
<1> USE CallsAssumption DEF IInv
<1>1. /\ chained[i] = "due" /\ chained' = [chained EXCEPT ![i] = "done"]
      /\ UNCHANGED <<op, args, next, raised, open, decision, losers, out>>
      /\ chained' \in [Positions -> {"none", "armed", "due", "done"}]
  BY DEF RunChainCancel, TypeOK
<1>2. args[i] \in Inputs
  BY DEF TypeOK, Positions
<1>3. \A j \in Positions : \/ chained'[j] = chained[j]
                           \/ j = i /\ chained[j] = "due" /\ chained'[j] = "done"
  BY <1>1 DEF TypeOK
<1>4. asked' \in {asked, asked \cup {args[i]}} /\ (out = Cancelled => args[i] \in asked')
  BY DEF RunChainCancel, AskToCancel
<1>5. asked \subseteq asked' /\ asked' \subseteq Inputs
  BY <1>2, <1>4 DEF TypeOK
<1>6. CASE Settles(args[i], "cancelled")
  <2>1. "cancelled" \in Values
    BY DEF Values
  <2> QED
    BY <1>1, <1>2, <1>3, <1>4, <1>5, <1>6, <2>1, EndingIInv
<1>7. CASE UNCHANGED <<value, handler>>
  <2>1. \A j \in Positions : \A s : Ended(j, s)' <=> Ended(j, s)
    BY <1>1, <1>7 DEF Ended
  <2>2. TypeOK'
    BY <1>1, <1>5, <1>7 DEF TypeOK
  <2>3. HandlerInv' /\ OpenInv'
    BY <1>1, <1>7, <2>1 DEF HandlerInv, OpenInv, Slot, Counted
  <2>4. OutcomeIsJustified'
    BY <1>1, <1>7 DEF OutcomeIsJustified, Promise, ZipPromise, OrPromise, AndPromise,
                      AllEnded, SomeEnded, Ended, Undecided, Cancelled
  <2>5. LosersInv'
    BY <1>1, <1>5, <2>1 DEF LosersInv, Undecided
  <2>6. ChainInv'
    BY <1>1, <1>3, <1>4, <1>5, <2>1 DEF ChainInv, Undecided, Cancelled
  <2> QED
    BY <2>2, <2>3, <2>4, <2>5, <2>6
<1> QED
  BY <1>6, <1>7 DEF RunChainCancel, AskToCancel

\* A loser that is not one any more has been asked.
LEMMA CancelLoserIInv ==
  ASSUME IInv, NEW x \in Inputs, CancelLoser(x)
  PROVE  IInv'
<1> USE CallsAssumption DEF IInv
<1>1. /\ losers' = losers \ {x} /\ asked' = asked \cup {x}
      /\ UNCHANGED <<op, args, next, raised, chained, open, decision, out>>
  BY DEF CancelLoser, AskToCancel
<1>2. /\ asked \subseteq asked' /\ asked' \subseteq Inputs /\ losers' \subseteq losers
      /\ \A y \in losers : y \in losers' \cup asked'
      /\ chained' \in [Positions -> {"none", "armed", "due", "done"}]
  BY <1>1 DEF TypeOK
<1>3. CASE Settles(x, "cancelled")
  <2>1. "cancelled" \in Values
    BY DEF Values
  <2> QED
    BY <1>1, <1>2, <1>3, <2>1, EndingIInv
<1>4. CASE UNCHANGED <<value, handler>>
  <2>1. \A j \in Positions : \A s : Ended(j, s)' <=> Ended(j, s)
    BY <1>1, <1>4 DEF Ended
  <2>2. TypeOK'
    BY <1>1, <1>2, <1>4 DEF TypeOK
  <2>3. HandlerInv' /\ OpenInv'
    BY <1>1, <1>4, <2>1 DEF HandlerInv, OpenInv, Slot, Counted
  <2>4. OutcomeIsJustified'
    BY <1>1, <1>4 DEF OutcomeIsJustified, Promise, ZipPromise, OrPromise, AndPromise,
                      AllEnded, SomeEnded, Ended, Undecided, Cancelled
  <2>5. LosersInv'
    BY <1>1, <1>2, <2>1 DEF LosersInv, Undecided
  <2>6. ChainInv'
    BY <1>1, <1>2, <2>1 DEF ChainInv, Undecided, Cancelled
  <2> QED
    BY <2>2, <2>3, <2>4, <2>5, <2>6
<1> QED
  BY <1>3, <1>4 DEF CancelLoser, AskToCancel

\* An output that is done has its callbacks due, and is what was decided, or was
\* cancelled.
LEMMA OutBecomesIInv ==
  ASSUME IInv, NEW r \in {Cancelled, decision}, decision # Undecided \/ r = Cancelled,
         out = Undecided, OutBecomes(r),
         UNCHANGED <<op, args, value, asked, next, raised, handler, open, decision, losers>>
  PROVE  IInv'
<1> USE CallsAssumption DEF IInv
<1>1. /\ out' = r /\ r # Undecided /\ r \in Results
      /\ chained' = [i \in Positions |-> IF chained[i] = "armed" THEN "due" ELSE chained[i]]
  BY DEF OutBecomes, TypeOK, Results, Undecided, Cancelled
<1>2. TypeOK'
  BY <1>1 DEF TypeOK
<1>3. HandlerInv' /\ OpenInv' /\ LosersInv'
  BY DEF HandlerInv, OpenInv, LosersInv, Ended, Slot, Counted, Undecided
<1>4. OutcomeIsJustified'
  BY <1>1 DEF OutcomeIsJustified, Promise, ZipPromise, OrPromise, AndPromise,
              AllEnded, SomeEnded, Ended, Undecided, Cancelled
<1>5. ChainInv'
  BY <1>1 DEF ChainInv, Ended, TypeOK, Undecided, Cancelled
<1> QED
  BY <1>2, <1>3, <1>4, <1>5

\* The other steps keep it, too.
LEMMA NextIInv == IInv /\ [Next]_vars => IInv'
<1> SUFFICES ASSUME IInv, [Next]_vars PROVE IInv'
  OBVIOUS
<1> USE CallsAssumption
<1>1. ASSUME NEW i \in Positions, ChainCancel(i) PROVE IInv'
  BY <1>1 DEF ChainCancel, IInv, TypeOK, HandlerInv, OpenInv, LosersInv, ChainInv, Ended, Slot,
              Counted, OutcomeIsJustified, Promise, ZipPromise, OrPromise, AndPromise, AllEnded,
              SomeEnded, Undecided, Cancelled, Positions
<1>2. ASSUME NEW i \in Positions, AttachHandler(i) PROVE IInv'
  <2> USE DEF IInv
  <2>1. \A j \in Positions : \A s : Ended(j, s)' <=> Ended(j, s)
    BY <1>2 DEF AttachHandler, Ended
  <2>2. i \in 1..N /\ value[args[i]] \in Values \cup {"live"} /\ next = i
    BY <1>2 DEF AttachHandler, TypeOK, Positions
  <2>3. TypeOK'
    BY <1>2, <2>2 DEF AttachHandler, TypeOK, Positions
  <2>4. HandlerInv'
    BY <1>2, <2>1, <2>2 DEF AttachHandler, HandlerInv, Ended, TypeOK
  <2>5. OpenInv' /\ LosersInv'
    BY <1>2, <2>1 DEF AttachHandler, OpenInv, LosersInv, Slot, Counted
  <2>6. OutcomeIsJustified'
    BY <1>2 DEF AttachHandler, OutcomeIsJustified, Promise, ZipPromise, OrPromise, AndPromise,
                AllEnded, SomeEnded, Ended
  <2>7. ChainInv'
    BY <1>2, <2>1, <2>2 DEF AttachHandler, ChainInv, Positions
  <2> QED
    BY <2>3, <2>4, <2>5, <2>6, <2>7
<1>3. ASSUME NEW x \in Inputs, InputEnds(x) PROVE IInv'
  BY <1>3, EndingIInv DEF InputEnds, IInv, TypeOK
<1>4. ASSUME CancelOut PROVE IInv'
  BY <1>4, OutBecomesIInv DEF CancelOut
<1>5. ASSUME NEW i \in Positions, RunChainCancel(i) PROVE IInv'
  BY <1>5, RunChainCancelIInv
<1>6. ASSUME NEW i \in Positions, HandleDone(i) PROVE IInv'
  BY <1>6, HandleDoneIInv
<1>7. ASSUME NEW i \in Positions, HandleDoneTooLate(i) \/ HandleDoneRaises(i) PROVE IInv'
  <2> USE DEF IInv
  <2>1. /\ Running(i) /\ handler' = [handler EXCEPT ![i] = "done"]
        /\ raised' \in BOOLEAN
        /\ UNCHANGED <<op, args, value, asked, next, chained, open, decision, losers, out>>
    BY <1>7, Zenon DEF HandleDoneTooLate, HandleDoneRaises, HandlerEnds, TypeOK
  <2>2. \A j \in Positions : \A s : Ended(j, s)' <=> Ended(j, s)
    BY <2>1 DEF Ended
  <2>3. TypeOK'
    <3>1. handler' \in [Positions -> {"none", "armed", "inline", "due", "done"}]
      BY <2>1 DEF TypeOK
    <3> QED
      BY <2>1, <3>1 DEF TypeOK
  <2>4. HandlerInv'
    BY <2>1, <2>2 DEF HandlerInv, Running, TypeOK
  <2>5. OpenInv' /\ LosersInv' /\ ChainInv'
    BY <2>1, <2>2 DEF OpenInv, LosersInv, ChainInv, Slot, Counted
  <2>6. OutcomeIsJustified'
    BY <2>1 DEF OutcomeIsJustified, Promise, ZipPromise, OrPromise, AndPromise,
                AllEnded, SomeEnded, Ended
  <2> QED
    BY <2>3, <2>4, <2>5, <2>6
<1>8. ASSUME ActOnDecision PROVE IInv'
  BY <1>8, OutBecomesIInv DEF ActOnDecision
<1>9. ASSUME NEW x \in Inputs, CancelLoser(x) PROVE IInv'
  BY <1>9, CancelLoserIInv
<1>10. ASSUME UNCHANGED vars PROVE IInv'
  BY <1>10 DEF vars, IInv, TypeOK, HandlerInv, OpenInv, LosersInv, ChainInv, Ended, Slot,
              Counted, OutcomeIsJustified, Promise, ZipPromise, OrPromise, AndPromise, AllEnded,
              SomeEnded
<1> QED
  BY <1>1, <1>2, <1>3, <1>4, <1>5, <1>6, <1>7, <1>8, <1>9, <1>10 DEF Next, Wiring

-----------------------------------------------------------------------------

\* The invariant always holds.
LEMMA Invariant == Spec => []IInv
  BY InitIInv, NextIInv, PTL DEF Spec

\* The variables keep their types, for any number of arguments.
THEOREM TypeCorrect == Spec => []TypeOK
  BY Invariant, PTL DEF IInv

\* For any inputs, in any order of events, the output holds what the operation
\* promises.
THEOREM OutcomeJustified == Spec => []OutcomeIsJustified
  BY Invariant, PTL DEF IInv

\* The inputs that do not matter any more have been asked to cancel.
LEMMA LosersFromInvariant == IInv => LosersAreAsked
<1> SUFFICES ASSUME IInv, next = N + 1, losers = {}, \A i \in Positions : chained[i] # "due",
                    out # Undecided, op = "zip" => out = Cancelled,
                    NEW i \in Positions
             PROVE  Ended(i, Values) \/ args[i] \in asked
  BY DEF LosersAreAsked
<1> USE CallsAssumption DEF IInv
<1>1. CASE out = Cancelled
  <2>1. chained[i] \notin {"none", "armed", "due"}
    BY DEF ChainInv, Positions
  <2> QED
    BY <1>1, <2>1 DEF ChainInv, TypeOK
<1>2. CASE out # Cancelled
  BY <1>2 DEF LosersInv, OutcomeIsJustified
<1> QED
  BY <1>1, <1>2

\* Whoever loses is asked to cancel, wherever the constructor was.
THEOREM LosersAsked == Spec => []LosersAreAsked
  BY Invariant, LosersFromInvariant, PTL

-----------------------------------------------------------------------------
(* What is still to come, who is asked, and when the call raises *)

\* The constructor has wired the arguments before next, and no other; what has not
\* run yet waits for an input that is live.
WireInv ==
  \A i \in Positions :
    /\ handler[i] = "none" <=> i >= next
    /\ handler[i] = "armed" => value[args[i]] = "live"

\* What handle_done has taken off.
Taken == {Slot(i) : i \in {j \in Positions : handler[j] = "done"}}

\* While nothing is decided, what has run is what was taken off, and something is
\* left.
CountInv ==
  decision = Undecided =>
    /\ open = {Slot(i) : i \in Positions} \ Taken
    /\ open # {}

\* Somebody is asked to cancel by a cancelled output, or by f_or and f_and once
\* they have decided.
AskInv ==
  /\ op # "zip" => decision # Tuple
  /\ losers # {} => op # "zip" /\ decision # Undecided
  /\ asked # {} => out = Cancelled \/ (op # "zip" /\ decision # Undecided)

\* The call of f_or or f_and raises only over an input that it was given twice, and
\* that is of the library's own class (bool.py:33-44).
RaisesForTwiceOnly ==
  raised =>
    /\ op # "zip"
    /\ \E i, j \in Positions : i # j /\ args[i] = args[j] /\ args[i] \in Own

MoreInv == WireInv /\ CountInv /\ AskInv /\ RaisesForTwiceOnly

\* It holds at the start.
LEMMA InitMoreInv == Init => MoreInv
<1> SUFFICES ASSUME Init PROVE MoreInv
  OBVIOUS
<1> USE CallsAssumption
<1>1. WireInv
  BY DEF Init, WireInv, Positions
<1>2. CountInv
  <2>1. Taken = {}
    BY DEF Init, Taken
  <2>2. 1 \in Positions
    BY DEF Positions
  <2> QED
    BY <2>1, <2>2 DEF Init, CountInv
<1>3. AskInv
  BY DEF Init, AskInv, Undecided, Tuple
<1>4. RaisesForTwiceOnly
  BY DEF Init, RaisesForTwiceOnly
<1> QED
  BY <1>1, <1>2, <1>3, <1>4 DEF MoreInv

\* handle_done runs, and takes its slot off.
LEMMA HandlerTakes ==
  ASSUME IInv, MoreInv, NEW i \in Positions, Running(i), HandlerEnds(i), UNCHANGED <<op, args>>
  PROVE  /\ Taken' = Taken \cup {Slot(i)}
         /\ UNCHANGED <<value, next>> => WireInv'
<1>1. \A j \in Positions : handler'[j] = IF j = i THEN "done" ELSE handler[j]
  BY DEF HandlerEnds, IInv, TypeOK
<1>2. \A j \in Positions : Slot(j)' = Slot(j)
  BY DEF Slot
<1>3. handler[i] \in {"due", "inline"}
  BY DEF Running
<1>4. Taken' = {Slot(j) : j \in {k \in Positions : handler'[k] = "done"}}
  BY <1>2 DEF Taken
<1>5. {k \in Positions : handler'[k] = "done"} = {k \in Positions : handler[k] = "done"} \cup {i}
  BY <1>1
<1>6. Taken' = Taken \cup {Slot(i)}
  BY <1>4, <1>5 DEF Taken
<1>7. UNCHANGED <<value, next>> => WireInv'
  BY <1>1, <1>3 DEF WireInv, MoreInv
<1> QED
  BY <1>6, <1>7

\* x settles, and the callbacks that wait for it are due.
LEMMA EndingMoreInv ==
  ASSUME IInv, MoreInv, NEW x, NEW v \in Values,
         Settles(x, v) \/ UNCHANGED <<value, handler>>,
         asked' = asked \/ out = Cancelled \/ losers # {}, losers' \subseteq losers,
         UNCHANGED <<op, args, next, raised, open, decision, out>>
  PROVE  MoreInv'
<1> USE DEF MoreInv
<1>1. \A i \in Positions : handler'[i] = "done" <=> handler[i] = "done"
  BY DEF Settles
<1>2. WireInv'
  <2>1. CASE Settles(x, v)
    <3>1. /\ \A y \in Inputs : y # x => value'[y] = value[y]
          /\ \A i \in Positions : args[i] \in Inputs
      BY <2>1, CallsAssumption DEF Settles, IInv, TypeOK, Positions
    <3>2. \A i \in Positions :
            handler'[i] = IF args[i] = x /\ handler[i] = "armed" THEN "due" ELSE handler[i]
      BY <2>1 DEF Settles
    <3> QED
      BY <3>1, <3>2 DEF WireInv
  <2>2. CASE UNCHANGED <<value, handler>>
    BY <2>2 DEF WireInv
  <2> QED
    BY <2>1, <2>2
<1>3. CountInv'
  <2>1. Taken' = Taken
    BY <1>1 DEF Taken, Slot
  <2> QED
    BY <2>1 DEF CountInv, Slot, Undecided
<1>4. AskInv'
  BY DEF AskInv, Undecided, Tuple, Cancelled
<1>5. RaisesForTwiceOnly'
  BY DEF RaisesForTwiceOnly
<1> QED
  BY <1>2, <1>3, <1>4, <1>5

\* Every step keeps it.
LEMMA NextMoreInv == IInv /\ MoreInv /\ [Next]_vars => MoreInv'
<1> SUFFICES ASSUME IInv, MoreInv, [Next]_vars PROVE MoreInv'
  OBVIOUS
<1> USE CallsAssumption DEF MoreInv
<1>1. ASSUME NEW i \in Positions, ChainCancel(i) PROVE MoreInv'
  BY <1>1 DEF ChainCancel, WireInv, CountInv, Taken, Slot, AskInv, RaisesForTwiceOnly,
              Undecided, Tuple, Cancelled
<1>2. ASSUME NEW i \in Positions, AttachHandler(i) PROVE MoreInv'
  <2>1. /\ next = i /\ next' = i + 1
        /\ \A j \in Positions :
             handler'[j] = IF j = i THEN IF value[args[i]] = "live" THEN "armed" ELSE "inline"
                           ELSE handler[j]
        /\ UNCHANGED <<op, args, value, asked, raised, open, decision, losers, out>>
    BY <1>2 DEF AttachHandler, IInv, TypeOK
  <2>2. handler[i] = "none"
    BY <2>1 DEF WireInv, Positions
  <2>3. WireInv'
    BY <2>1, <2>2 DEF WireInv, Positions
  <2>4. {j \in Positions : handler'[j] = "done"} = {j \in Positions : handler[j] = "done"}
    BY <2>1, <2>2
  <2>5. CountInv'
    BY <2>1, <2>4 DEF CountInv, Taken, Slot, Undecided
  <2>6. AskInv' /\ RaisesForTwiceOnly'
    BY <2>1 DEF AskInv, RaisesForTwiceOnly, Undecided, Tuple, Cancelled
  <2> QED
    BY <2>3, <2>5, <2>6
<1>3. ASSUME NEW x \in Inputs, InputEnds(x) PROVE MoreInv'
  BY <1>3, EndingMoreInv DEF InputEnds
<1>4. ASSUME CancelOut PROVE MoreInv'
  BY <1>4 DEF CancelOut, OutBecomes, WireInv, CountInv, Taken, Slot, AskInv, RaisesForTwiceOnly,
              Undecided, Tuple, Cancelled
<1>5. ASSUME NEW i \in Positions, RunChainCancel(i) PROVE MoreInv'
  <2>1. "cancelled" \in Values
    BY DEF Values
  <2> QED
    BY <1>5, <2>1, EndingMoreInv DEF RunChainCancel, AskToCancel
<1>6. ASSUME NEW i \in Positions, HandleDone(i) PROVE MoreInv'
  <2> DEFINE rest == open \ {Slot(i)}
             d == Decides(args[i], rest)
  <2>1. /\ decision = Undecided /\ Running(i) /\ HandlerEnds(i)
        /\ open' = rest /\ decision' = d
        /\ losers' = IF d = Undecided THEN {} ELSE LosersOf(rest)
        /\ UNCHANGED <<op, args, value, asked, next, raised, chained, out>>
    BY <1>6 DEF HandleDone
  <2>2. WireInv' /\ Taken' = Taken \cup {Slot(i)}
    BY <2>1, HandlerTakes
  <2>3. d = Undecided => rest # {}
    <3>1. value[args[i]] \in Values /\ op \in Ops
      BY <2>1 DEF Running, IInv, HandlerInv, Ended, TypeOK, Positions
    <3>2. Copy(args[i]) # Undecided /\ Tuple # Undecided
      BY <3>1 DEF Copy, Tuple, Undecided, Cancelled, Values
    <3> QED
      BY <3>1, <3>2 DEF Decides, ZipDecides, OrDecides, AndDecides, Ops
  <2>4. op # "zip" => d # Tuple
    <3>1. value[args[i]] \in Values /\ op \in Ops
      BY <2>1 DEF Running, IInv, HandlerInv, Ended, TypeOK, Positions
    <3>2. Copy(args[i]) # Tuple /\ Undecided # Tuple
      BY <3>1 DEF Copy, Tuple, Undecided, Cancelled, Values
    <3> QED
      BY <3>1, <3>2 DEF Decides, OrDecides, AndDecides, Ops
  <2> HIDE DEF d
  <2>5. CountInv'
    BY <2>1, <2>2, <2>3 DEF CountInv, Slot, Undecided
  <2>6. AskInv'
    BY <2>1, <2>4 DEF AskInv, LosersOf, Undecided, Tuple, Cancelled
  <2>7. RaisesForTwiceOnly'
    BY <2>1 DEF RaisesForTwiceOnly
  <2> QED
    BY <2>2, <2>5, <2>6, <2>7
<1>7. ASSUME NEW i \in Positions, HandleDoneTooLate(i) PROVE MoreInv'
  <2>1. WireInv'
    BY <1>7, HandlerTakes DEF HandleDoneTooLate
  <2>2. CountInv' /\ AskInv' /\ RaisesForTwiceOnly'
    BY <1>7 DEF HandleDoneTooLate, CountInv, AskInv, RaisesForTwiceOnly, Undecided, Tuple, Cancelled
  <2> QED
    BY <2>1, <2>2
<1>8. ASSUME NEW i \in Positions, HandleDoneRaises(i) PROVE MoreInv'
  <2>1. /\ Running(i) /\ decision = Undecided /\ Slot(i) \notin open /\ HandlerEnds(i)
        /\ raised' = (raised \/ (handler[i] = "inline" /\ args[i] \in Own))
        /\ UNCHANGED <<op, args, value, asked, next, chained, open, decision, losers, out>>
    BY <1>8 DEF HandleDoneRaises
  <2>2. WireInv' /\ Taken' = Taken \cup {Slot(i)}
    BY <2>1, HandlerTakes
  <2>3. PICK j \in Positions : handler[j] = "done" /\ Slot(j) = Slot(i)
    BY <2>1 DEF CountInv, Taken
  <2>4. i # j
    BY <2>1, <2>3 DEF Running
  <2>5. op # "zip" /\ args[i] = args[j]
    BY <2>3, <2>4 DEF Slot
  <2>6. CountInv' /\ AskInv'
    BY <2>1, <2>2 DEF CountInv, AskInv, Slot, Undecided, Tuple, Cancelled
  <2>7. RaisesForTwiceOnly'
    BY <2>1, <2>4, <2>5 DEF RaisesForTwiceOnly
  <2> QED
    BY <2>2, <2>6, <2>7
<1>9. ASSUME ActOnDecision PROVE MoreInv'
  BY <1>9 DEF ActOnDecision, OutBecomes, WireInv, CountInv, Taken, Slot, AskInv, RaisesForTwiceOnly,
              Undecided, Tuple, Cancelled
<1>10. ASSUME NEW x \in Inputs, CancelLoser(x) PROVE MoreInv'
  <2>1. "cancelled" \in Values
    BY DEF Values
  <2> QED
    BY <1>10, <2>1, EndingMoreInv DEF CancelLoser, AskToCancel
<1>11. ASSUME UNCHANGED vars PROVE MoreInv'
  BY <1>11 DEF vars, WireInv, CountInv, Taken, Slot, AskInv, RaisesForTwiceOnly
<1> QED
  BY <1>1, <1>2, <1>3, <1>4, <1>5, <1>6, <1>7, <1>8, <1>9, <1>10, <1>11 DEF Next, Wiring

\* It holds throughout.
LEMMA MoreInvariant == Spec => []MoreInv
  BY InitMoreInv, NextMoreInv, Invariant, PTL DEF Spec

\* The call raises for no other reason, for any argument list.
THEOREM OnlyTwiceRaises == Spec => []RaisesForTwiceOnly
  BY MoreInvariant, PTL DEF MoreInv

\* With no input named twice, no call raises.
THEOREM DistinctNeverRaises ==
  ASSUME \A s \in Calls : \A i, j \in Positions : s[i] = s[j] => i = j
  PROVE  Spec => []~raised
<1>1. IInv /\ MoreInv => ~raised
  BY DEF IInv, TypeOK, MoreInv, RaisesForTwiceOnly
<1> QED
  BY Invariant, MoreInvariant, <1>1, PTL

\* An input is asked to cancel only when the output was cancelled or when, for f_or
\* and f_and, what has ended determines the output: nobody loses whose value could
\* still count, and f_zip leaves its inputs alone (zip.py:48-74, bool.py:33-52).
AskedForAReason == asked # {} => out = Cancelled \/ (op # "zip" /\ Determined)

\* What is decided was determined.
LEMMA DecidedIsDetermined ==
  ASSUME IInv, MoreInv, decision # Undecided
  PROVE  Determined
<1>1. Promise(decision) /\ op \in Ops /\ decision \in Results
  BY DEF IInv, OutcomeIsJustified, TypeOK
<1>2. \A s \in SUBSET Values : AllEnded(s) => AllEnded(Values)
  BY DEF AllEnded, Ended
<1>3. CASE op = "zip"
  <2>1. CASE decision = Tuple
    BY <1>1, <1>2, <1>3, <2>1 DEF Promise, ZipPromise, Determined, Values
  <2>2. CASE decision # Tuple
    BY <1>1, <1>3, <2>2 DEF Promise, ZipPromise, Determined, SomeEnded, Ended
  <2> QED
    BY <2>1, <2>2
<1>4. CASE op = "or"
  <2>1. decision # Tuple
    BY <1>4 DEF MoreInv, AskInv
  <2>2. CASE decision[1] = "true"
    BY <1>1, <1>4, <2>1, <2>2 DEF Promise, Determined
  <2>3. CASE decision[1] # "true"
    BY <1>1, <1>2, <1>4, <2>3 DEF Promise, OrPromise, Determined, NotTrue
  <2> QED
    BY <2>2, <2>3
<1>5. CASE op = "and"
  <2>1. decision # Tuple
    BY <1>5 DEF MoreInv, AskInv
  <2>2. CASE decision[1] = "true"
    BY <1>1, <1>2, <1>5, <2>2 DEF Promise, AndPromise, Determined, Values
  <2>3. CASE decision[1] # "true"
    <3>1. decision[1] \in NotTrue
      BY <1>1, <2>1, <2>3 DEF Results, Cancelled, NotTrue, Values
    <3> QED
      BY <1>1, <1>5, <2>1, <3>1 DEF Promise, Determined, SomeEnded, Ended
  <2> QED
    BY <2>2, <2>3
<1> QED
  BY <1>1, <1>3, <1>4, <1>5 DEF Ops

\* No input is cancelled before its time.
THEOREM NobodyIsAskedTooEarly == Spec => []AskedForAReason
<1>1. IInv /\ MoreInv => AskedForAReason
  BY DecidedIsDetermined DEF MoreInv, AskInv, AskedForAReason
<1> QED
  BY Invariant, MoreInvariant, <1>1, PTL

\* The operation has nothing left to do, until an input ends: its constructor has
\* ended or raised, no callback runs or is due, and what was decided was done.  It
\* is what is left when Wiring has no step to take.
AtRest ==
  /\ next = N + 1 \/ (raised /\ chained[next] = "none")
  /\ \A i \in Positions : ~Running(i) /\ chained[i] # "due"
  /\ decision # Undecided => out # Undecided /\ losers = {}

\* What OutSettles comes to then: an output whose inputs determine it is done,
\* unless the call raised.
NothingIsStuck == AtRest /\ Determined => out # Undecided \/ raised

\* No input's end is missed, in whatever order the inputs end and their callbacks
\* run.
THEOREM CombinatorIsNeverStuck == Spec => []NothingIsStuck
<1>1. IInv /\ MoreInv => NothingIsStuck
  <2> SUFFICES ASSUME IInv, MoreInv, AtRest, Determined, ~raised, decision = Undecided
               PROVE  FALSE
    BY DEF NothingIsStuck, AtRest
  <2> USE CallsAssumption
  <2>1. ASSUME NEW i \in Positions, Ended(i, Values) PROVE Slot(i) \notin open
    <3>1. i < next
      BY DEF AtRest, Positions
    <3>2. handler[i] = "done"
      BY <2>1, <3>1 DEF AtRest, Running, MoreInv, WireInv, Ended, Values, IInv, TypeOK, Positions
    <3> QED
      BY <3>2 DEF MoreInv, CountInv, Taken
  <2>2. ASSUME NEW i \in Positions, Ended(i, Values) PROVE Ended(i, Counted)
    BY <2>1, <2>2 DEF IInv, OpenInv
  <2>3. ~AllEnded(Values)
    BY <2>1 DEF AllEnded, MoreInv, CountInv
  <2>4. PICK i \in Positions : Ended(i, Values) /\ ~Ended(i, Counted)
    BY <2>3 DEF Determined, SomeEnded, Ended, Counted, NotTrue, Values
  <2> QED
    BY <2>2, <2>4
<1> QED
  BY Invariant, MoreInvariant, <1>1, PTL
=============================================================================
