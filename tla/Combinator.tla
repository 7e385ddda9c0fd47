------------------------------ MODULE Combinator ------------------------------
(***************************************************************************)
(* f_zip, f_or and f_and (more_executors/_impl/futures/zip.py, bool.py,    *)
(* base.py): one output future above several input futures, wired by a     *)
(* callback on each of them, handle_done, and by callbacks on the output   *)
(* that hand a cancel() down to them.                                      *)
(*                                                                         *)
(* Inputs settle in threads of their own, before, while and after the      *)
(* operation is wired.  handle_done decides under a lock, and acts on its  *)
(* decision after it has released it.                                      *)
(***************************************************************************)
EXTENDS Integers

CONSTANTS
  Inputs,   \* futures
  N,        \* how many arguments the operation is called with
  Calls,    \* the argument lists, which may name an input twice
  Own       \* the inputs that are of this library's _Future, not the standard one

ASSUME CallsAssumption ==
  /\ N \in Nat /\ N >= 2
  /\ Calls \subseteq [1..N -> Inputs]
  /\ Own \subseteq Inputs

VARIABLES
  op,        \* which operation it is
  args,
  value,     \* of each input
  asked,     \* the inputs that have had a call of cancel()
  next,      \* the argument the constructor is at
  raised,    \* has it raised instead?
  chained,   \* progress of the callback that chain_cancel puts on the output
  handler,   \* progress of handle_done, by argument
  open,      \* self.fs of a BoolOperation; the arguments Zipper still counts
  decision,  \* what handle_done has decided, once self.done is set
  losers,    \* cancel_futures: what it has yet to cancel
  out        \* the output future

vars == <<op, args, value, asked, next, raised, chained, handler, open, decision, losers, out>>

Positions == 1..N
Values == {"true", "false", "error", "cancelled"}
Ops == {"zip", "or", "and"}
Undecided == <<"live", "none">>
Cancelled == <<"cancelled", "none">>
Tuple == <<"tuple", "none">>
Results == {Cancelled, Tuple} \cup ({"true", "false", "error"} \X Inputs)

TypeOK ==
  /\ op \in Ops /\ args \in Calls
  /\ value \in [Inputs -> Values \cup {"live"}]
  /\ asked \subseteq Inputs
  /\ next \in 1..(N + 1) /\ raised \in BOOLEAN
  /\ chained \in [Positions -> {"none", "armed", "due", "done"}]
  /\ handler \in [Positions -> {"none", "armed", "inline", "due", "done"}]
  /\ open \subseteq IF op = "zip" THEN Positions ELSE Inputs
  /\ decision \in Results \cup {Undecided} /\ out \in Results \cup {Undecided}
  /\ losers \subseteq Inputs

\* What handle_done takes off self.fs for argument i, or off Zipper's count.
Slot(i) == IF op = "zip" THEN i ELSE args[i]

Init ==
  /\ op \in Ops /\ args \in Calls
  /\ value = [x \in Inputs |-> "live"]
  /\ asked = {}
  /\ next = 1 /\ raised = FALSE
  /\ chained = [i \in Positions |-> "none"]
  /\ handler = [i \in Positions |-> "none"]
  /\ open = {Slot(i) : i \in Positions}
  /\ decision = Undecided
  /\ losers = {}
  /\ out = Undecided

-----------------------------------------------------------------------------
(* The constructor, argument by argument *)

ChainCancel(i) ==
  /\ next = i /\ chained[i] = "none" /\ ~raised
  /\ \A j \in Positions : handler[j] # "inline"
  /\ chained' = [chained EXCEPT ![i] = IF out = Undecided THEN "armed" ELSE "due"]
  /\ UNCHANGED <<op, args, value, asked, next, raised, handler, open, decision, losers, out>>

\* Of an input that is done, handle_done runs within add_done_callback.
AttachHandler(i) ==
  /\ next = i /\ chained[i] # "none"
  /\ handler' = [handler EXCEPT ![i] = IF value[args[i]] = "live" THEN "armed" ELSE "inline"]
  /\ next' = i + 1
  /\ UNCHANGED <<op, args, value, asked, raised, chained, open, decision, losers, out>>

-----------------------------------------------------------------------------
(* The inputs, and the output's cancel() *)

\* x settles as v, and runs its callbacks.
Settles(x, v) ==
  /\ value[x] = "live"
  /\ value' = [value EXCEPT ![x] = v]
  /\ handler' = [i \in Positions |->
       IF args[i] = x /\ handler[i] = "armed" THEN "due" ELSE handler[i]]

\* It ends, or somebody else cancels it.
InputEnds(x) ==
  /\ \E v \in Values : Settles(x, v)
  /\ UNCHANGED <<op, args, asked, next, raised, chained, open, decision, losers, out>>

\* cancel(): it may be too late for x.
AskToCancel(x) ==
  /\ asked' = asked \cup {x}
  /\ Settles(x, "cancelled") \/ UNCHANGED <<value, handler>>

\* The output becomes r, unless it is done; then its callbacks are due.
OutBecomes(r) ==
  /\ out' = IF out = Undecided THEN r ELSE out
  /\ chained' = [i \in Positions |->
       IF chained[i] = "armed" /\ out = Undecided THEN "due" ELSE chained[i]]

CancelOut ==
  /\ next = N + 1 /\ out = Undecided /\ ~raised
  /\ \A i \in Positions : handler[i] # "inline"
  /\ OutBecomes(Cancelled)
  /\ UNCHANGED <<op, args, value, asked, next, raised, handler, open, decision, losers>>

RunChainCancel(i) ==
  /\ chained[i] = "due"
  /\ chained' = [chained EXCEPT ![i] = "done"]
  /\ IF out = Cancelled THEN AskToCancel(args[i]) ELSE UNCHANGED <<value, asked, handler>>
  /\ UNCHANGED <<op, args, next, raised, open, decision, losers, out>>

-----------------------------------------------------------------------------
(* handle_done, under its lock: what input x, with rest still to come, decides *)

Copy(x) == IF value[x] = "cancelled" THEN Cancelled ELSE <<value[x], x>>

ZipDecidesLeavesCancelled(x, rest) ==
  IF value[x] = "error" THEN Copy(x) ELSE IF rest = {} THEN Tuple ELSE Undecided
ZipDecides(x, rest) ==
  IF value[x] \in {"error", "cancelled"} THEN Copy(x)
  ELSE IF rest = {} THEN Tuple ELSE Undecided

OrDecides(x, rest) == IF rest = {} \/ value[x] = "true" THEN Copy(x) ELSE Undecided

AndDecides(x, rest) == IF rest = {} \/ value[x] # "true" THEN Copy(x) ELSE Undecided

Decides(x, rest) ==
  CASE op = "zip" -> ZipDecides(x, rest)
    [] op = "or" -> OrDecides(x, rest)
    [] op = "and" -> AndDecides(x, rest)

\* cancel_futures: a Zipper leaves the other inputs alone.
LosersWiredSoFar(rest) == IF op = "zip" THEN {} ELSE rest \cap {args[i] : i \in 1..(next - 1)}
LosersOf(rest) == IF op = "zip" THEN {} ELSE rest

Running(i) == handler[i] \in {"due", "inline"}
HandlerEnds(i) == handler' = [handler EXCEPT ![i] = "done"]

HandleDoneAgain(i) ==
  /\ Running(i)
  /\ Slot(i) \in open
  /\ LET rest == open \ {Slot(i)} IN
       /\ open' = rest
       /\ decision' = Decides(args[i], rest)
       /\ losers' = IF decision' = Undecided THEN {} ELSE LosersOf(rest)
  /\ HandlerEnds(i)
  /\ UNCHANGED <<op, args, value, asked, next, raised, chained, out>>
HandleDone(i) ==
  /\ Running(i)
  /\ decision = Undecided
  /\ Slot(i) \in open
  /\ LET rest == open \ {Slot(i)} IN
       /\ open' = rest
       /\ decision' = Decides(args[i], rest)
       /\ losers' = IF decision' = Undecided THEN {} ELSE LosersOf(rest)
  /\ HandlerEnds(i)
  /\ UNCHANGED <<op, args, value, asked, next, raised, chained, out>>

HandleDoneTooLate(i) ==
  /\ Running(i)
  /\ decision # Undecided
  /\ HandlerEnds(i)
  /\ UNCHANGED <<op, args, value, asked, next, raised, chained, open, decision, losers, out>>

\* An input that was given twice: KeyError, which only the add_done_callback of a
\* _Future lets through to the constructor, and to the caller of f_or or f_and.
HandleDoneRaises(i) ==
  /\ Running(i)
  /\ decision = Undecided
  /\ Slot(i) \notin open
  /\ raised' = (raised \/ (handler[i] = "inline" /\ args[i] \in Own))
  /\ HandlerEnds(i)
  /\ UNCHANGED <<op, args, value, asked, next, chained, open, decision, losers, out>>

\* The lock is released.  An output to be cancelled comes last, after the losers,
\* one to be settled first.
ActOnDecision ==
  /\ decision # Undecided
  /\ out = Undecided
  /\ decision = Cancelled => losers = {}
  /\ OutBecomes(decision)
  /\ UNCHANGED <<op, args, value, asked, next, raised, handler, open, decision, losers>>

CancelLoser(x) ==
  /\ x \in losers
  /\ decision = Cancelled \/ out # Undecided
  /\ losers' = losers \ {x}
  /\ AskToCancel(x)
  /\ UNCHANGED <<op, args, next, raised, chained, open, decision, out>>

-----------------------------------------------------------------------------

\* What the constructor, or a callback, has still to do.
Wiring ==
  \/ \E i \in Positions : ChainCancel(i) \/ AttachHandler(i)
  \/ \E i \in Positions : HandleDone(i) \/ HandleDoneTooLate(i) \/ HandleDoneRaises(i)
  \/ \E i \in Positions : RunChainCancel(i)
  \/ ActOnDecision
  \/ \E x \in Inputs : CancelLoser(x)

Next == Wiring \/ CancelOut \/ \E x \in Inputs : InputEnds(x)

Spec == Init /\ [][Next]_vars

\* Callbacks are run and end; inputs may stay pending for ever.
FairSpec == Spec /\ WF_vars(Wiring)

-----------------------------------------------------------------------------
(* Correctness *)

Ended(i, values) == value[args[i]] \in values
AllEnded(values) == \A i \in Positions : Ended(i, values)
SomeEnded(values) == \E i \in Positions : Ended(i, values)
NotTrue == Values \ {"true"}

\* What the documentation of each operation says of the output r.
ZipPromise(r) ==
  IF r = Tuple THEN AllEnded({"true", "false"}) ELSE r[1] \in {"error", "cancelled"}
OrPromise(r) == r[1] # "true" => AllEnded(NotTrue)
AndPromise(r) == r[1] = "true" => AllEnded({"true"})

Promise(r) ==
  /\ r # Tuple => SomeEnded({r[1]})
  /\ CASE op = "zip" -> ZipPromise(r)
       [] op = "or" -> OrPromise(r)
       [] op = "and" -> AndPromise(r)

\* The output holds what the operation promises, whatever order inputs end and
\* callbacks run in: f_zip a tuple "holding the returned values of all input
\* futures" (zip.py:88-94), f_or the true value of an input, "otherwise" one that
\* is not true, and then no input is true (bool.py:92-97), f_and a false value,
\* an exception or, when all are true, a true value (bool.py:152-157).  Only a
\* client's cancel() comes before that.
OutcomeIsJustified ==
  /\ decision # Undecided => Promise(decision)
  /\ out \in {Undecided, Cancelled, decision}

\* Once the output of f_or or f_and is done, or an output was cancelled, each
\* input has ended or has been asked to (bool.py:51-52, 64, 120, 126, 131,
\* base.py:99-103), also those the constructor had not reached at the time.
LosersAreAsked ==
  /\ next = N + 1 /\ losers = {} /\ (\A i \in Positions : chained[i] # "due")
  /\ out # Undecided /\ (op = "zip" => out = Cancelled)
  => \A i \in Positions : Ended(i, Values) \/ args[i] \in asked

\* The inputs that have ended determine the output.
Determined ==
  \/ AllEnded(Values)
  \/ op = "zip" /\ SomeEnded({"error", "cancelled"})
  \/ op = "or" /\ SomeEnded({"true"})
  \/ op = "and" /\ SomeEnded(NotTrue)

\* An output is done as soon as its inputs determine it: "f_zip never resolving if
\* an input future was cancelled" (CHANGELOG.md:51) is what this would catch.
OutSettles == Determined ~> out # Undecided \/ raised
==============================================================================
