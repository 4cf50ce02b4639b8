--------------------------- MODULE Chains_proofs ----------------------------
(***************************************************************************)
(* Proofs about the chains that repeat a part of what they did.             *)
(*                                                                          *)
(* ParamChain, for every tree, every answer and every nesting of retries:   *)
(* the types, that FCSFatal is final, that the elements of a pass run in    *)
(* order, that success means a complete pass, that every pass calls an      *)
(* element and that what succeeded is not run again.                        *)
(*                                                                          *)
(* FluctChain, for every chain, fluctuation and hit energy: the             *)
(* fluctuation it was asked for is reached.                                 *)
(***************************************************************************)
EXTENDS ParamChain, FluctChain, TLAPS

-----------------------------------------------------------------------------
(* What the inductive invariant says of each frame.                          *)

BinsOf(n) == -1 .. NBins(n) - 1

\* The frame is inside a call of the element at pos.
Calling(f) == f.pos < End(f) /\ Runs(f.node, f.pos)

\* The part and the bin fit the chain, and pos lies in the part's range.
FrameRange(f) ==
  /\ f.bin \in BinsOf(f.node)
  /\ f.part # "last" => Kind[f.node] = "binned"
  /\ f.part = "before" => f.bin = -1
  /\ From(f.node, f.part, f.bin) <= f.pos /\ f.pos <= End(f)

\* The elements done are the planned ones before pos; a chain that stops at
\* its first match has not passed one.
FrameOrder(f) ==
  /\ (f.status < FCSRetry \/ f.pos < End(f)) =>
       f.done = {p \in Planned(f.node, f.bin) : p < f.pos}
  /\ Stops(f) /\ f.pos < End(f) => \A q \in Matched(f.node, f.bin) : f.pos <= q

FrameInv(f) == f \in Frame /\ FrameRange(f) /\ FrameOrder(f)

StackInv ==
  /\ stack \in Seq(Frame)
  /\ \A k \in 1 .. Len(stack) : FrameInv(stack[k])
  /\ \A k \in 1 .. Len(stack) :
       k < Len(stack) \/ ret # NoStatus => Calling(stack[k])

IInv == StackInv /\ TypeOK

-----------------------------------------------------------------------------
(* Ranges.                                                                   *)

\* The boundaries of a binned chain's parts are indices of m_chain, in order.
LEMMA Ranges ==
  ASSUME NEW n \in Chains, NEW part \in {"before", "bin", "last"},
         NEW bin \in BinsOf(n)
  PROVE  /\ From(n, part, bin) \in Nat /\ To(n, part, bin) \in Nat
         /\ To(n, part, bin) <= Len(Kids[n])
         /\ Len(Kids[n]) \in Nat /\ NBins(n) \in Nat
<1>1. Len(BinStart[n]) \in Nat \ {0} /\ Len(Kids[n]) \in Nat
      /\ BinStart[n] \in Seq(Nat)
  BY BinAssumption, TreeAssumption
<1>2. bin \in Int /\ -1 <= bin /\ bin <= Len(BinStart[n]) - 2
  BY <1>1 DEF BinsOf, NBins
<1>3. \A i \in 1 .. Len(BinStart[n]) :
        BinStart[n][i] \in Nat /\ BinStart[n][i] <= Len(Kids[n])
  BY <1>1, BinAssumption
<1>4. 1 \in 1 .. Len(BinStart[n]) /\ Len(BinStart[n]) \in 1 .. Len(BinStart[n])
  BY <1>1
<1>5. bin >= 0 => bin + 1 \in 1 .. Len(BinStart[n])
                  /\ bin + 2 \in 1 .. Len(BinStart[n])
  BY <1>1, <1>2
<1>6. CASE part = "before"
  BY <1>1, <1>3, <1>4, <1>6 DEF From, To, NBins
<1>7. CASE part = "bin"
  <2>1. CASE bin < 0
    <3>1. /\ From(n, part, bin) = BinStart[n][1]
          /\ To(n, part, bin) = BinStart[n][1]
      BY <1>2, <1>7, <2>1 DEF From, To
    <3> QED
      BY <1>1, <1>3, <1>4, <2>1, <3>1 DEF NBins
  <2>2. CASE bin >= 0
    <3>1. /\ From(n, part, bin) = BinStart[n][bin + 1]
          /\ To(n, part, bin) = BinStart[n][bin + 2]
      BY <1>2, <1>7, <2>2 DEF From, To
    <3> QED
      BY <1>1, <1>3, <1>5, <2>2, <3>1 DEF NBins
  <2> QED
    BY <1>2, <2>1, <2>2
<1>8. CASE part = "last"
  BY <1>1, <1>3, <1>4, <1>8 DEF From, To, NBins
<1> QED
  BY <1>6, <1>7, <1>8

LEMMA Boundaries ==
  ASSUME NEW n \in Chains, Kind[n] = "binned", NEW bin \in BinsOf(n)
  PROVE  /\ From(n, "before", bin) = 0
         /\ To(n, "before", bin) <= From(n, "bin", bin)
         /\ From(n, "bin", bin) <= To(n, "bin", bin)
         /\ To(n, "bin", bin) <= From(n, "last", bin)
         /\ From(n, "last", bin) <= To(n, "last", bin)
         /\ bin = -1 => From(n, "bin", bin) = To(n, "before", bin)
                        /\ To(n, "bin", bin) = To(n, "before", bin)
<1>1. Len(BinStart[n]) \in Nat \ {0} /\ BinStart[n] \in Seq(Nat)
  BY BinAssumption, TreeAssumption
<1>2. bin \in Int /\ -1 <= bin /\ bin <= Len(BinStart[n]) - 2
  BY <1>1 DEF BinsOf, NBins
<1>3. \A i, j \in 1 .. Len(BinStart[n]) : i <= j => BinStart[n][i] <= BinStart[n][j]
  BY BinAssumption
<1>4. 1 \in 1 .. Len(BinStart[n]) /\ Len(BinStart[n]) \in 1 .. Len(BinStart[n])
  BY <1>1
<1>5. bin >= 0 => bin + 1 \in 1 .. Len(BinStart[n])
                  /\ bin + 2 \in 1 .. Len(BinStart[n])
  BY <1>1, <1>2
<1>6. \A i \in 1 .. Len(BinStart[n]) : BinStart[n][i] \in Nat
  BY <1>1
<1>7. From(n, "before", bin) = 0 /\ To(n, "before", bin) = BinStart[n][1]
  BY DEF From, To
<1>8. From(n, "last", bin) = BinStart[n][Len(BinStart[n])]
      /\ From(n, "last", bin) <= To(n, "last", bin)
  BY <1>4, BinAssumption DEF From, To
<1>9. CASE bin < 0
  <2>1. From(n, "bin", bin) = BinStart[n][1] /\ To(n, "bin", bin) = BinStart[n][1]
    BY <1>9 DEF From, To
  <2> QED
    BY <1>1, <1>3, <1>4, <1>6, <1>7, <1>8, <2>1
<1>10. CASE bin >= 0
  <2>1. /\ From(n, "bin", bin) = BinStart[n][bin + 1]
        /\ To(n, "bin", bin) = BinStart[n][bin + 2]
    BY <1>2, <1>10 DEF From, To
  <2>2. /\ BinStart[n][1] <= BinStart[n][bin + 1]
        /\ BinStart[n][bin + 1] <= BinStart[n][bin + 2]
    BY <1>2, <1>3, <1>4, <1>5, <1>10
  <2>3. bin + 2 <= Len(BinStart[n])
    BY <1>1, <1>2
  <2>4. BinStart[n][bin + 2] <= BinStart[n][Len(BinStart[n])]
    BY <1>3, <1>4, <1>5, <1>10, <2>3
  <2> QED
    BY <1>2, <1>7, <1>8, <1>10, <2>1, <2>2, <2>4
<1> QED
  BY <1>2, <1>9, <1>10

\* The innermost frame is a frame, and the element it stands at a node.
LEMMA TopFrame ==
  ASSUME StackInv, stack # <<>>
  PROVE  /\ Len(stack) \in Nat \ {0} /\ Len(stack) \in 1 .. Len(stack)
         /\ FrameInv(Top) /\ Top \in Frame
         /\ (Top.pos < End(Top) => Element(Top) \in Nodes)
         /\ (ret # NoStatus => Calling(Top))
<1>1. Len(stack) \in Nat \ {0} /\ Len(stack) \in 1 .. Len(stack)
  BY DEF StackInv
<1>2. FrameInv(Top) /\ Top \in Frame /\ (ret # NoStatus => Calling(Top))
  BY <1>1 DEF StackInv, Top, FrameInv
<1>3. ASSUME Top.pos < End(Top)
      PROVE  Element(Top) \in Nodes
  <2>1. Top.node \in Chains /\ Top.pos \in Nat /\ Top.part \in {"before", "bin", "last"}
        /\ Top.bin \in BinsOf(Top.node)
    BY <1>2 DEF FrameInv, FrameRange, Frame
  <2>2. End(Top) \in Nat /\ End(Top) <= Len(Kids[Top.node])
        /\ Len(Kids[Top.node]) \in Nat
    BY <2>1, Ranges DEF End
  <2>3. Top.pos + 1 \in 1 .. Len(Kids[Top.node])
    BY <1>3, <2>1, <2>2
  <2>4. Kids[Top.node] \in Seq(Nodes)
    BY <2>1, TreeAssumption
  <2> QED
    BY <2>3, <2>4 DEF Element
<1> QED
  BY <1>1, <1>2, <1>3

\* The frames below the innermost one.
LEMMA FramesBelow ==
  ASSUME stack \in Seq(Frame), stack # <<>>
  PROVE  /\ Below \in Seq(Frame) /\ Len(Below) = Len(stack) - 1
         /\ \A k \in 1 .. Len(stack) - 1 : Below[k] = stack[k]
<1>1. Len(stack) \in Nat \ {0}
  OBVIOUS
<1>2. Below = [k \in 1 .. Len(stack) - 1 |-> stack[k]]
  BY <1>1 DEF Below
<1>3. \A k \in 1 .. Len(stack) - 1 : stack[k] \in Frame
  BY <1>1
<1> QED
  BY <1>1, <1>2, <1>3

\* Replacing the innermost frame.
LEMMA Replaced ==
  ASSUME StackInv, stack # <<>>, NEW f \in Frame, FrameInv(f),
         stack' = Append(Below, f), ret' = NoStatus \/ Calling(f)
  PROVE  StackInv'
<1>1. Len(stack) \in Nat \ {0} /\ stack \in Seq(Frame)
  BY TopFrame DEF StackInv
<1>2. /\ stack' \in Seq(Frame) /\ Len(stack') = Len(stack)
      /\ stack'[Len(stack)] = f
      /\ \A k \in 1 .. Len(stack) - 1 : stack'[k] = stack[k]
  BY <1>1, FramesBelow
<1>3. \A k \in 1 .. Len(stack') : FrameInv(stack'[k])
  BY <1>1, <1>2 DEF StackInv
<1>4. \A k \in 1 .. Len(stack') :
        k < Len(stack') \/ ret' # NoStatus => Calling(stack'[k])
  BY <1>1, <1>2 DEF StackInv
<1> QED
  BY <1>2, <1>3, <1>4 DEF StackInv

\* Leaving the innermost call.
LEMMA Popped ==
  ASSUME StackInv, stack # <<>>, stack' = Below
  PROVE  StackInv'
<1>1. Len(stack) \in Nat \ {0} /\ stack \in Seq(Frame)
  BY TopFrame DEF StackInv
<1>2. /\ stack' \in Seq(Frame) /\ Len(stack') = Len(stack) - 1
      /\ \A k \in 1 .. Len(stack) - 1 : stack'[k] = stack[k]
  BY <1>1, FramesBelow
<1>3. \A k \in 1 .. Len(stack') : FrameInv(stack'[k]) /\ Calling(stack'[k])
  BY <1>1, <1>2 DEF StackInv
<1> QED
  BY <1>2, <1>3 DEF StackInv

\* A pass starts with nothing done.
LEMMA Started ==
  ASSUME NEW n \in Chains, NEW i \in Nat, NEW r \in Nat, NEW s \in Statuses
  PROVE  StartPass(n, i, r, s) \in Frame /\ FrameInv(StartPass(n, i, r, s))
<1> DEFINE f == StartPass(n, i, r, s)
<1>1. f \in Frame
  BY DEF StartPass, Frame, FirstPart
<1>2. -1 \in BinsOf(n)
  BY BinAssumption DEF BinsOf, NBins
<1>3. FrameRange(f)
  <2>1. f.bin = -1 /\ f.pos = 0 /\ f.node = n /\ f.part = FirstPart(n)
    BY DEF StartPass
  <2>2. FirstPart(n) \in {"before", "bin", "last"}
    BY DEF FirstPart
  <2>3. 0 <= End(f)
    BY <1>2, <2>1, <2>2, Ranges DEF End
  <2> QED
    BY <1>2, <2>1, <2>3 DEF FrameRange, FirstPart, From
<1>4. \A p \in Matched(n, -1) : p \in Nat
  BY TreeAssumption DEF Matched
<1>5. FrameOrder(f)
  BY <1>4 DEF FrameOrder, StartPass, Planned
<1> QED
  BY <1>1, <1>3, <1>5 DEF FrameInv

\* Calling a chain.
LEMMA Pushed ==
  ASSUME StackInv, stack # <<>>, NEW f \in Frame, FrameInv(f), Calling(f),
         NEW g \in Frame, FrameInv(g), stack' = Append(Append(Below, f), g),
         ret' = NoStatus
  PROVE  StackInv'
<1>1. Len(stack) \in Nat \ {0} /\ stack \in Seq(Frame)
  BY TopFrame DEF StackInv
<1>2. /\ stack' \in Seq(Frame) /\ Len(stack') = Len(stack) + 1
      /\ stack'[Len(stack) + 1] = g /\ stack'[Len(stack)] = f
      /\ \A k \in 1 .. Len(stack) - 1 : stack'[k] = stack[k]
  BY <1>1, FramesBelow
<1>3. \A k \in 1 .. Len(stack') : FrameInv(stack'[k])
  BY <1>1, <1>2 DEF StackInv
<1>4. \A k \in 1 .. Len(stack') :
        k < Len(stack') \/ ret' # NoStatus => Calling(stack'[k])
  BY <1>1, <1>2 DEF StackInv
<1> QED
  BY <1>2, <1>3, <1>4 DEF StackInv

-----------------------------------------------------------------------------
(* The elements of a pass.                                                   *)

\* An element a loop is at, and that runs, is one the pass has to run.
LEMMA InLoopIsMatched ==
  ASSUME NEW f \in Frame, FrameRange(f), Calling(f)
  PROVE  f.pos \in Matched(f.node, f.bin)
<1>1. f.pos \in Nat /\ f.node \in Chains /\ f.part \in {"before", "bin", "last"}
  BY DEF Frame
<1>2. f.pos < Len(Kids[f.node]) /\ Len(Kids[f.node]) \in Nat
  <2>1. End(f) \in Nat /\ End(f) <= Len(Kids[f.node]) /\ Len(Kids[f.node]) \in Nat
    BY <1>1, Ranges DEF FrameRange, End
  <2> QED
    BY <1>1, <2>1 DEF Calling
<1> QED
  BY <1>1, <1>2 DEF Matched, FrameRange, Calling, End

\* The ranges of a binned chain's matched elements.
LEMMA MatchedInBinned ==
  ASSUME NEW n \in Chains, Kind[n] = "binned", NEW bin \in BinsOf(n),
         NEW p \in Matched(n, bin)
  PROVE  /\ p \in Nat
         /\ \/ p < To(n, "before", bin)
            \/ From(n, "bin", bin) <= p /\ p < To(n, "bin", bin)
            \/ From(n, "last", bin) <= p
BY Ranges, Boundaries DEF Matched

\* Which elements come before the first bin does not depend on the bin.
LEMMA SameBefore ==
  ASSUME NEW n \in Chains, Kind[n] = "binned", NEW bin \in BinsOf(n)
  PROVE  {p \in Planned(n, -1) : p < To(n, "before", -1)}
           = {p \in Planned(n, bin) : p < From(n, "bin", bin)}
<1>1. -1 \in BinsOf(n)
  BY Ranges DEF BinsOf
<1>2. To(n, "before", -1) = To(n, "before", bin)
  BY DEF To
<1>3. Planned(n, -1) = Matched(n, -1) /\ Planned(n, bin) = Matched(n, bin)
  BY DEF Planned
<1>4. From(n, "before", -1) = 0 /\ From(n, "before", bin) = 0
  BY DEF From
<1>5. ASSUME NEW p \in Matched(n, -1), p < To(n, "before", -1)
      PROVE  p \in Matched(n, bin) /\ p < From(n, "bin", bin)
  <2>1. p \in 0 .. Len(Kids[n]) - 1 /\ Runs(n, p)
    BY DEF Matched
  <2>2. p < From(n, "bin", bin)
    BY <1>2, <1>5, <2>1, Boundaries, Ranges
  <2>3. From(n, "before", bin) <= p /\ p < To(n, "before", bin)
    BY <1>2, <1>4, <1>5, <2>1
  <2> QED
    BY <2>1, <2>2, <2>3 DEF Matched
<1>6. ASSUME NEW p \in Matched(n, bin), p < From(n, "bin", bin)
      PROVE  p \in Matched(n, -1) /\ p < To(n, "before", -1)
  <2>1. p \in 0 .. Len(Kids[n]) - 1 /\ Runs(n, p) /\ Len(Kids[n]) \in Nat
    BY Ranges DEF Matched
  <2>2. p < To(n, "before", bin)
    BY <1>6, <2>1, MatchedInBinned, Boundaries, Ranges
  <2>3. From(n, "before", -1) <= p /\ p < To(n, "before", -1)
    BY <1>2, <1>4, <2>1, <2>2
  <2> QED
    BY <2>1, <2>3 DEF Matched
<1> QED
  BY <1>3, <1>5, <1>6

\* Between the selected bin and the elements run for all bins lies none.
LEMMA SameAfter ==
  ASSUME NEW n \in Chains, Kind[n] = "binned", NEW bin \in BinsOf(n)
  PROVE  {p \in Planned(n, bin) : p < To(n, "bin", bin)}
           = {p \in Planned(n, bin) : p < From(n, "last", bin)}
<1>1. Planned(n, bin) = Matched(n, bin)
  BY DEF Planned
<1>2. ASSUME NEW p \in Matched(n, bin)
      PROVE  p < To(n, "bin", bin) <=> p < From(n, "last", bin)
  BY MatchedInBinned, Boundaries, Ranges
<1> QED
  BY <1>1, <1>2

-----------------------------------------------------------------------------
(* The actions preserve the invariant.                                       *)

LEMMA SkipElementStep ==
  ASSUME IInv, SkipElement
  PROVE  StackInv'
<1> DEFINE f == [Top EXCEPT !.pos = @ + 1]
<1>1. StackInv /\ stack # <<>> /\ Top \in Frame /\ FrameInv(Top)
  BY TopFrame DEF IInv, SkipElement, Active
<1>2. /\ f \in Frame /\ f.node = Top.node /\ f.part = Top.part /\ f.bin = Top.bin
      /\ f.pos = Top.pos + 1 /\ f.status = Top.status /\ f.done = Top.done
      /\ Top.pos \in Nat /\ Top.node \in Chains
      /\ Top.part \in {"before", "bin", "last"}
  BY <1>1 DEF Frame
<1>3. Top.pos < End(Top) /\ End(f) = End(Top) /\ End(Top) \in Nat
  BY <1>1, <1>2, Ranges DEF SkipElement, End, FrameInv, FrameRange
<1>4. Top.pos \notin Matched(Top.node, Top.bin)
  BY DEF SkipElement, Matched
<1>5. \A p \in Matched(Top.node, Top.bin) : p \in Nat
  BY <1>2, Ranges DEF Matched
<1>6. FrameRange(f)
  <2>1. From(Top.node, Top.part, Top.bin) \in Nat
    BY <1>1, <1>2, Ranges DEF FrameInv, FrameRange
  <2> QED
    BY <1>1, <1>2, <1>3, <2>1 DEF FrameInv, FrameRange
<1>7. Top.done = {p \in Planned(Top.node, Top.bin) : p < Top.pos}
  BY <1>1, <1>3 DEF FrameInv, FrameOrder
<1>8. f.done = {p \in Planned(f.node, f.bin) : p < f.pos}
  BY <1>2, <1>4, <1>5, <1>7 DEF Planned
<1>9. Stops(f) => \A q \in Matched(f.node, f.bin) : f.pos <= q
  BY <1>1, <1>2, <1>3, <1>4, <1>5 DEF FrameInv, FrameOrder, Stops
<1>10. FrameInv(f)
  BY <1>2, <1>6, <1>8, <1>9 DEF FrameInv, FrameOrder
<1>11. stack' = Append(Below, f) /\ ret' = NoStatus
  BY DEF SkipElement, Become, Active
<1> QED
  BY <1>1, <1>2, <1>10, <1>11, Replaced

LEMMA CallSteps ==
  ASSUME IInv, RunLeaf \/ RunChain
  PROVE  StackInv'
<1> DEFINE f == [Top EXCEPT !.called = TRUE]
<1>1. StackInv /\ stack # <<>> /\ Top \in Frame /\ FrameInv(Top)
      /\ Element(Top) \in Nodes
  BY TopFrame DEF IInv, RunLeaf, RunChain, Active
<1>2. /\ f \in Frame /\ f.node = Top.node /\ f.part = Top.part /\ f.bin = Top.bin
      /\ f.pos = Top.pos /\ f.status = Top.status /\ f.done = Top.done
  BY <1>1 DEF Frame
<1>3. End(f) = End(Top) /\ Calling(f)
  BY <1>2 DEF RunLeaf, RunChain, End, Calling
<1>4. FrameInv(f)
  BY <1>1, <1>2, <1>3 DEF FrameInv, FrameRange, FrameOrder, Stops
<1>5. CASE RunLeaf
  <2>1. stack' = Append(Below, f)
    BY <1>5 DEF RunLeaf, Become
  <2> QED
    BY <1>1, <1>2, <1>3, <1>4, <2>1, Replaced
<1>6. CASE RunChain
  <2> DEFINE g == StartPass(Element(Top), 0, 0, FCSSuccess)
  <2>1. Element(Top) \in Chains /\ FCSSuccess \in Statuses
    BY <1>6 DEF RunChain, FCSSuccess, Statuses, FCSFatal
  <2>2. g \in Frame /\ FrameInv(g)
    BY <2>1, Started
  <2>3. stack' = Append(Append(Below, f), g) /\ ret' = NoStatus
    BY <1>6 DEF RunChain, Active
  <2> HIDE DEF g
  <2> QED
    BY <1>1, <1>2, <1>3, <1>4, <2>2, <2>3, Pushed
<1> QED
  BY <1>5, <1>6

LEMMA TakeSuccessStep ==
  ASSUME IInv, TakeSuccess
  PROVE  StackInv'
<1> DEFINE next == IF Stops(Top) THEN End(Top) ELSE Top.pos + 1
<1> DEFINE all == Top.done \cup {Top.pos}
<1> DEFINE f == [Top EXCEPT !.status = FCSSuccess, !.pos = next,
                            !.attempt = 0, !.granted = 0, !.done = all]
<1>1. StackInv /\ stack # <<>> /\ Top \in Frame /\ FrameInv(Top) /\ Calling(Top)
  BY TopFrame DEF IInv, TakeSuccess, NoStatus, FCSSuccess
<1>2. /\ Top.pos \in Nat /\ Top.node \in Chains
      /\ Top.part \in {"before", "bin", "last"} /\ Top.done \in SUBSET Nat
  BY <1>1 DEF Frame
<1>3. Top.pos < End(Top) /\ End(Top) \in Nat
  BY <1>1, <1>2, Ranges DEF Calling, End, FrameInv, FrameRange
<1>4. FCSSuccess \in Statuses
  BY DEF FCSSuccess, Statuses, FCSFatal
<1>5. /\ f \in Frame /\ f.node = Top.node /\ f.part = Top.part /\ f.bin = Top.bin
      /\ f.pos = IF Stops(Top) THEN End(Top) ELSE Top.pos + 1
      /\ f.done = Top.done \cup {Top.pos}
  <2>1. next \in Nat /\ all \in SUBSET Nat
    BY <1>2, <1>3
  <2> HIDE DEF next, all
  <2>2. /\ f \in Frame /\ f.node = Top.node /\ f.part = Top.part
        /\ f.bin = Top.bin /\ f.pos = next /\ f.done = all
    BY <1>1, <1>4, <2>1 DEF Frame
  <2> QED
    BY <2>2 DEF next, all
<1>6. End(f) = End(Top) /\ (Stops(f) <=> Stops(Top))
  BY <1>5 DEF End, Stops
<1>7. FrameRange(f)
  <2>1. From(Top.node, Top.part, Top.bin) \in Nat
    BY <1>1, <1>2, Ranges DEF FrameInv, FrameRange
  <2> HIDE DEF f
  <2> QED
    BY <1>1, <1>2, <1>3, <1>5, <1>6, <2>1 DEF FrameInv, FrameRange
<1>8. Top.pos \in Matched(Top.node, Top.bin)
  BY <1>1, InLoopIsMatched DEF FrameInv
<1>9. \A p \in Matched(Top.node, Top.bin) : p \in Nat
  BY <1>2, Ranges DEF Matched
<1>10. Top.done = {p \in Planned(Top.node, Top.bin) : p < Top.pos}
  BY <1>1, <1>3 DEF FrameInv, FrameOrder
<1>11. f.done = {p \in Planned(f.node, f.bin) : p < f.pos}
  <2>1. CASE Stops(Top)
    <3>1. \A q \in Matched(Top.node, Top.bin) : Top.pos <= q
      BY <1>1, <1>3, <2>1 DEF FrameInv, FrameOrder
    <3>2. Planned(Top.node, Top.bin) = {Top.pos}
      BY <1>2, <1>8, <1>9, <2>1, <3>1 DEF Planned, Stops
    <3> QED
      BY <1>2, <1>3, <1>5, <1>10, <2>1, <3>2
  <2>2. CASE ~Stops(Top)
    <3>1. Planned(Top.node, Top.bin) = Matched(Top.node, Top.bin)
      BY <2>2 DEF Planned, Stops
    <3> QED
      BY <1>2, <1>5, <1>8, <1>9, <1>10, <2>2, <3>1
  <2> QED
    BY <2>1, <2>2
<1>12. ~(Stops(f) /\ f.pos < End(f))
  BY <1>3, <1>5, <1>6
<1>13. FrameInv(f)
  BY <1>5, <1>7, <1>11, <1>12 DEF FrameInv, FrameOrder
<1>14. stack' = Append(Below, f) /\ ret' = NoStatus
  BY <1>1 DEF TakeSuccess, Become, Frame
<1> HIDE DEF f
<1> QED
  BY <1>1, <1>5, <1>13, <1>14, Replaced

LEMMA TakeRetryFromStartStep ==
  ASSUME IInv, TakeRetryFromStart
  PROVE  StackInv'
<1> DEFINE end == End(Top)
<1> DEFINE more == Granted(ret)
<1> DEFINE f == [Top EXCEPT !.status = ret, !.retry = more, !.pos = end,
                            !.attempt = 0, !.granted = 0]
<1>1. StackInv /\ stack # <<>> /\ Top \in Frame /\ FrameInv(Top)
  BY TopFrame DEF IInv, TakeRetryFromStart
<1>2. ret \in Int /\ ret >= 2 /\ ret \in Statuses /\ more \in Nat
  BY DEF IInv, TypeOK, TakeRetryFromStart, FCSRetry, Statuses, FCSFatal, Granted
<1>3. end \in Nat /\ From(Top.node, Top.part, Top.bin) <= end
  <2>1. /\ Top.node \in Chains /\ Top.part \in {"before", "bin", "last"}
        /\ Top.bin \in BinsOf(Top.node) /\ Top.pos \in Nat
        /\ From(Top.node, Top.part, Top.bin) <= Top.pos /\ Top.pos <= end
    BY <1>1 DEF FrameInv, FrameRange, Frame
  <2>2. end \in Nat /\ From(Top.node, Top.part, Top.bin) \in Nat
    BY <2>1, Ranges DEF End
  <2> QED
    BY <2>1, <2>2
<1> HIDE DEF end, more
<1>4. /\ f \in Frame /\ f.node = Top.node /\ f.part = Top.part /\ f.bin = Top.bin
      /\ f.pos = end /\ f.status = ret
  BY <1>1, <1>2, <1>3 DEF Frame
<1>5. End(f) = end
  BY <1>4 DEF End, end
<1>6. FrameInv(f)
  BY <1>1, <1>2, <1>3, <1>4, <1>5 DEF FrameInv, FrameRange, FrameOrder, FCSRetry
<1>7. stack' = Append(Below, f) /\ ret' = NoStatus
  BY DEF TakeRetryFromStart, Become, end, more
<1> HIDE DEF f
<1> QED
  BY <1>1, <1>4, <1>6, <1>7, Replaced

LEMMA TakeRetryStep ==
  ASSUME IInv, TakeRetry
  PROVE  StackInv'
<1> DEFINE more == Granted(ret)
<1> DEFINE again == Top.attempt + 1
<1> DEFINE f == [Top EXCEPT !.attempt = again, !.granted = more]
<1>1. StackInv /\ stack # <<>> /\ Top \in Frame /\ FrameInv(Top)
  BY TopFrame DEF IInv, TakeRetry
<1>2. more \in Nat
  BY DEF IInv, TypeOK, TakeRetry, FCSRetry, Granted
<1>3. again \in Nat
  BY <1>1 DEF Frame
<1>4. CASE stack' = Below
  BY <1>1, <1>4, Popped
<1>5. CASE stack' = Append(Below, f) /\ ret' = NoStatus
  <2> HIDE DEF more, again
  <2>1. /\ f \in Frame /\ f.node = Top.node /\ f.part = Top.part
        /\ f.bin = Top.bin /\ f.pos = Top.pos /\ f.status = Top.status
        /\ f.done = Top.done
    BY <1>1, <1>2, <1>3 DEF Frame
  <2>2. FrameInv(f)
    BY <1>1, <2>1 DEF FrameInv, FrameRange, FrameOrder, End, Stops
  <2> HIDE DEF f
  <2> QED
    BY <1>1, <1>5, <2>1, <2>2, Replaced
<1> QED
  BY <1>4, <1>5 DEF TakeRetry, Become, Return

\* A fatal status and the end of the last part leave the innermost call.
LEMMA ReturnSteps ==
  ASSUME IInv, TakeFatal \/ PassSucceeds
  PROVE  StackInv'
BY Popped DEF IInv, TakeFatal, PassSucceeds, AtEnd, Active, Return

LEMMA SelectBinStep ==
  ASSUME IInv, SelectBin
  PROVE  StackInv'
<1>1. StackInv /\ stack # <<>> /\ Top \in Frame /\ FrameInv(Top) /\ ret = NoStatus
  BY TopFrame DEF IInv, SelectBin, AtEnd, Active
<1>2. PICK b \in BinsDrawn[Top.node] :
        Become([Top EXCEPT !.part = "bin", !.bin = CheckedBin(Top.node, b),
                           !.pos = From(Top.node, "bin", CheckedBin(Top.node, b))])
  BY DEF SelectBin
<1> DEFINE n == Top.node
<1> DEFINE bin == CheckedBin(n, b)
<1> DEFINE start == From(n, "bin", bin)
<1> DEFINE f == [Top EXCEPT !.part = "bin", !.bin = bin, !.pos = start]
<1>3. /\ n \in Chains /\ Kind[n] = "binned" /\ Top.part = "before" /\ Top.bin = -1
      /\ Top.pos \in Nat /\ Top.status < FCSRetry
  BY <1>1 DEF SelectBin, FrameInv, FrameRange, Frame
<1>4. bin \in BinsOf(n) /\ -1 \in BinsOf(n) /\ bin \in Int
  BY <1>3, BinAssumption DEF CheckedBin, BinsOf, NBins
<1>5. start \in Nat /\ start <= To(n, "bin", bin) /\ To(n, "before", -1) \in Nat
  BY <1>3, <1>4, Ranges, Boundaries
<1>6. Top.pos = To(n, "before", -1)
  BY <1>1, <1>3, <1>5 DEF SelectBin, AtEnd, FrameInv, FrameRange, End
<1>7. Top.done = {p \in Planned(n, -1) : p < Top.pos}
  BY <1>1, <1>3 DEF FrameInv, FrameOrder
<1>8. Top.done = {p \in Planned(n, bin) : p < start}
  BY <1>3, <1>4, <1>6, <1>7, SameBefore
<1> HIDE DEF n, bin, start
<1>9. /\ f \in Frame /\ f.node = n /\ f.part = "bin" /\ f.bin = bin
      /\ f.pos = start /\ f.status = Top.status /\ f.done = Top.done
  BY <1>1, <1>4, <1>5 DEF Frame, n
<1>10. FrameRange(f)
  BY <1>3, <1>4, <1>5, <1>9, SMT DEF FrameRange, End, start
<1>11. ~Stops(f)
  BY <1>3, <1>9 DEF Stops
<1>12. FrameInv(f)
  BY <1>8, <1>9, <1>10, <1>11 DEF FrameInv, FrameOrder
<1>13. stack' = Append(Below, f) /\ ret' = NoStatus
  BY <1>1, <1>2 DEF SelectBin, Become, n, bin, start
<1> HIDE DEF f
<1> QED
  BY <1>1, <1>9, <1>12, <1>13, Replaced

LEMMA RunForAllBinsStep ==
  ASSUME IInv, RunForAllBins
  PROVE  StackInv'
<1> DEFINE n == Top.node
<1> DEFINE start == From(n, "last", Top.bin)
<1> DEFINE f == [Top EXCEPT !.part = "last", !.pos = start]
<1>1. StackInv /\ stack # <<>> /\ Top \in Frame /\ FrameInv(Top) /\ ret = NoStatus
  BY TopFrame DEF IInv, RunForAllBins, AtEnd, Active
<1>2. /\ n \in Chains /\ Kind[n] = "binned" /\ Top.part = "bin"
      /\ Top.bin \in BinsOf(n) /\ Top.pos \in Nat /\ Top.status < FCSRetry
  BY <1>1 DEF RunForAllBins, FrameInv, FrameRange, Frame
<1>3. start \in Nat /\ start <= To(n, "last", Top.bin)
      /\ To(n, "bin", Top.bin) \in Nat
  BY <1>2, Ranges, Boundaries
<1>4. Top.pos = To(n, "bin", Top.bin)
  BY <1>1, <1>2, <1>3 DEF RunForAllBins, AtEnd, FrameInv, FrameRange, End
<1>5. Top.done = {p \in Planned(n, Top.bin) : p < Top.pos}
  BY <1>1, <1>2 DEF FrameInv, FrameOrder
<1>6. Top.done = {p \in Planned(n, Top.bin) : p < start}
  BY <1>2, <1>4, <1>5, SameAfter
<1> HIDE DEF n, start
<1>7. /\ f \in Frame /\ f.node = n /\ f.part = "last" /\ f.bin = Top.bin
      /\ f.pos = start /\ f.status = Top.status /\ f.done = Top.done
  BY <1>1, <1>3 DEF Frame, n
<1>8. FrameRange(f)
  BY <1>2, <1>3, <1>7, SMT DEF FrameRange, End, start
<1>9. ~Stops(f)
  BY <1>2, <1>7 DEF Stops
<1>10. FrameInv(f)
  BY <1>6, <1>7, <1>8, <1>9 DEF FrameInv, FrameOrder
<1>11. stack' = Append(Below, f) /\ ret' = NoStatus
  BY <1>1 DEF RunForAllBins, Become, n, start
<1> HIDE DEF f
<1> QED
  BY <1>1, <1>7, <1>10, <1>11, Replaced

LEMMA PassFailsStep ==
  ASSUME IInv, PassFails
  PROVE  StackInv'
<1> DEFINE f == StartPass(Top.node, NextPass(Top), Top.retry, Top.status)
<1>1. StackInv /\ stack # <<>> /\ Top \in Frame /\ ret = NoStatus
  BY TopFrame DEF IInv, PassFails, AtEnd, Active
<1>2. CASE stack' = Below
  BY <1>1, <1>2, Popped
<1>3. CASE stack' = Append(Below, f) /\ ret' = ret
  <2>1. Top.node \in Chains /\ NextPass(Top) \in Nat /\ Top.retry \in Nat
        /\ Top.status \in Statuses
    BY <1>1 DEF Frame, NextPass
  <2>2. f \in Frame /\ FrameInv(f)
    BY <2>1, Started
  <2> HIDE DEF f
  <2> QED
    BY <1>1, <1>3, <2>2, Replaced
<1> QED
  BY <1>2, <1>3 DEF PassFails, Become, Return

-----------------------------------------------------------------------------
(* The theorems.                                                             *)

LEMMA Initially == Init => IInv
<1> SUFFICES ASSUME Init PROVE IInv
  OBVIOUS
<1> DEFINE f == StartPass(Root, 0, 0, FCSSuccess)
<1>1. Root \in Chains /\ FCSSuccess \in Statuses
  BY TreeAssumption DEF FCSSuccess, Statuses, FCSFatal
<1>2. f \in Frame /\ FrameInv(f)
  BY <1>1, Started
<1>3. stack = <<f>> /\ ret = NoStatus
  BY DEF Init
<1> HIDE DEF f
<1>4. StackInv
  BY <1>2, <1>3 DEF StackInv
<1>5. ret \in Int /\ ok \in [Leaves -> 0 .. 2] /\ fatal \in BOOLEAN
  <2>1. ret = NoStatus /\ ok = [l \in Leaves |-> 0] /\ fatal = FALSE
    BY DEF Init
  <2>2. NoStatus \in Int
    BY DEF NoStatus
  <2>3. [l \in Leaves |-> 0] \in [Leaves -> 0 .. 2]
    OBVIOUS
  <2> QED
    BY <2>1, <2>2, <2>3
<1>6. TypeOK
  BY <1>4, <1>5 DEF StackInv, TypeOK
<1> QED
  BY <1>4, <1>6 DEF IInv

LEMMA OtherTypes ==
  ASSUME IInv, [Next]_vars
  PROVE  ret' \in Int /\ ok' \in [Leaves -> 0 .. 2] /\ fatal' \in BOOLEAN
<1>1. ret \in Int /\ ok \in [Leaves -> 0 .. 2] /\ fatal \in BOOLEAN
  BY DEF IInv, TypeOK
<1>2. CASE RunLeaf
  <2>1. PICK s \in Answers[Element(Top)] :
          /\ ret' = s
          /\ ok' = IF s = FCSSuccess /\ ok[Element(Top)] < 2
                   THEN [ok EXCEPT ![Element(Top)] = @ + 1] ELSE ok
          /\ fatal' = (fatal \/ s = FCSFatal)
    BY <1>2 DEF RunLeaf
  <2>2. s \in Int
    BY <1>2, AnswerAssumption DEF RunLeaf
  <2>3. ok' \in [Leaves -> 0 .. 2]
    BY <1>1, <1>2, <2>1 DEF RunLeaf
  <2> QED
    BY <1>1, <2>1, <2>2, <2>3
<1>3. CASE SkipElement \/ RunChain \/ SelectBin \/ RunForAllBins \/ UNCHANGED vars
  BY <1>1, <1>3 DEF SkipElement, RunChain, SelectBin, RunForAllBins, vars
<1>4. CASE TakeSuccess \/ TakeFatal \/ TakeRetryFromStart \/ TakeRetry
  BY <1>1, <1>4 DEF TakeSuccess, TakeFatal, TakeRetryFromStart, TakeRetry,
       Return, NoStatus, FCSFatal
<1>5. CASE PassSucceeds \/ PassFails
  BY <1>1, <1>5 DEF PassSucceeds, PassFails, Return, FCSFatal, FCSSuccess
<1> QED
  BY <1>2, <1>3, <1>4, <1>5 DEF Next

LEMMA Preserved == IInv /\ [Next]_vars => IInv'
<1> SUFFICES ASSUME IInv, [Next]_vars PROVE IInv'
  OBVIOUS
<1>1. StackInv'
  <2>1. CASE UNCHANGED vars
    BY <2>1 DEF IInv, vars, StackInv
  <2>2. CASE Next
    BY <2>2, SkipElementStep, CallSteps, TakeSuccessStep, TakeRetryFromStartStep,
       TakeRetryStep, ReturnSteps, SelectBinStep, RunForAllBinsStep, PassFailsStep
       DEF Next
  <2> QED
    BY <2>1, <2>2
<1>2. TypeOK'
  BY <1>1, OtherTypes DEF TypeOK, StackInv
<1> QED
  BY <1>1, <1>2 DEF IInv

THEOREM Invariant == Spec => []IInv
BY Initially, Preserved, PTL DEF Spec

\* The types, for every tree.
THEOREM TypeCorrect == Spec => []TypeOK
<1>1. IInv => TypeOK
  BY DEF IInv
<1> QED
  BY Invariant, <1>1, PTL

\* In every pass of every chain the elements run in order and none is left out.
THEOREM ElementsInOrder == Spec => []InOrder
<1>1. IInv => InOrder
  BY DEF IInv, StackInv, InOrder, FrameInv, FrameOrder
<1> QED
  BY Invariant, <1>1, PTL

\* FCSFatal from a leaf is final, whatever chains it goes through.
THEOREM FatalEndsTheShower == Spec => []FatalIsFinal
<1> DEFINE Inv == FatalIsFinal /\ fatal \in BOOLEAN
<1>1. Init => Inv
  BY DEF Init, FatalIsFinal
<1>2. Inv /\ [Next]_vars => Inv'
  <2> SUFFICES ASSUME Inv, [Next]_vars PROVE Inv'
    OBVIOUS
  <2>1. FCSFatal # NoStatus /\ FCSFatal # FCSSuccess /\ ~(FCSFatal >= FCSRetry)
    BY DEF FCSFatal, NoStatus, FCSSuccess, FCSRetry
  <2>2. CASE RunLeaf
    <3>1. PICK s \in Answers[Element(Top)] :
            ret' = s /\ fatal' = (fatal \/ s = FCSFatal)
      BY <2>2 DEF RunLeaf
    <3> QED
      BY <2>1, <2>2, <3>1 DEF RunLeaf, Active, FatalIsFinal
  <2>3. CASE SkipElement \/ RunChain \/ SelectBin \/ RunForAllBins \/ UNCHANGED vars
    <3>1. UNCHANGED <<ret, fatal>>
      BY <2>3 DEF SkipElement, RunChain, SelectBin, RunForAllBins, vars
    <3> QED
      BY <3>1 DEF FatalIsFinal
  <2>4. CASE TakeSuccess \/ TakeRetryFromStart \/ TakeRetry
    BY <2>1, <2>4 DEF TakeSuccess, TakeRetryFromStart, TakeRetry, Return, FatalIsFinal
  <2>5. CASE TakeFatal
    BY <2>5 DEF TakeFatal, Return, FatalIsFinal
  <2>6. CASE PassSucceeds \/ PassFails
    BY <2>1, <2>6 DEF PassSucceeds, PassFails, AtEnd, Active, Return, FatalIsFinal
  <2> QED
    BY <2>2, <2>3, <2>4, <2>5, <2>6 DEF Next
<1>3. Inv => FatalIsFinal
  OBVIOUS
<1> QED
  BY <1>1, <1>2, <1>3, PTL DEF Spec

\* A chain that reports success has run, in its last pass, every element the
\* pass had to run, each to success: for every tree and every nesting of
\* retries.
THEOREM SuccessMeansAll == Spec => SuccessIsComplete
<1>1. IInv /\ [Next]_vars =>
        [Len(stack') < Len(stack) /\ ret' = FCSSuccess
           => Top.done = Planned(Top.node, Top.bin)]_vars
  <2> SUFFICES ASSUME IInv, Next, Len(stack') < Len(stack), ret' = FCSSuccess
               PROVE  Top.done = Planned(Top.node, Top.bin)
    OBVIOUS
  <2>1. stack \in Seq(Frame) /\ Len(stack) \in Nat
    BY DEF IInv, StackInv
  <2>2. FCSSuccess # FCSFatal /\ FCSSuccess # NoStatus
    BY DEF FCSSuccess, FCSFatal, NoStatus
  <2>3. ~RunLeaf
    <3> SUFFICES ASSUME RunLeaf PROVE FALSE
      OBVIOUS
    <3> DEFINE f == [Top EXCEPT !.called = TRUE]
    <3>1. stack # <<>> /\ Top \in Frame /\ stack' = Append(Below, f)
      BY TopFrame DEF IInv, RunLeaf, Active, Become
    <3>2. f \in Frame
      BY <3>1 DEF Frame
    <3> HIDE DEF f
    <3>3. Len(stack') = Len(stack)
      BY <2>1, <3>1, <3>2, FramesBelow
    <3> QED
      BY <2>1, <3>3
  <2>4. CASE PassSucceeds
    <3>1. StackInv /\ stack # <<>> /\ FrameInv(Top) /\ Top \in Frame
      BY <2>4, TopFrame DEF IInv, PassSucceeds, AtEnd, Active
    <3>2. Top.pos >= Len(Kids[Top.node]) /\ Top.status < FCSRetry
      BY <2>4 DEF PassSucceeds, AtEnd, End, To, FCSSuccess, FCSRetry
    <3>3. Top.done = {p \in Planned(Top.node, Top.bin) : p < Top.pos}
      BY <3>1, <3>2 DEF FrameInv, FrameOrder
    <3>4. Top.node \in Chains /\ Top.pos \in Nat /\ Len(Kids[Top.node]) \in Nat
      BY <3>1, TreeAssumption DEF Frame
    <3>5. \A p \in Planned(Top.node, Top.bin) : p < Top.pos
      BY <3>2, <3>4 DEF Planned, Matched
    <3> QED
      BY <3>3, <3>5
  <2>5. ~(SkipElement \/ RunChain \/ SelectBin \/ RunForAllBins)
    BY <2>2 DEF SkipElement, RunChain, SelectBin, RunForAllBins, AtEnd, Active
  <2>6. ~(TakeSuccess \/ TakeFatal \/ TakeRetryFromStart \/ TakeRetry)
    BY <2>2 DEF TakeSuccess, TakeFatal, TakeRetryFromStart, TakeRetry, Return
  <2>7. ~PassFails
    BY <2>2 DEF PassFails, AtEnd, Active, Return
  <2> QED
    BY <2>3, <2>4, <2>5, <2>6, <2>7 DEF Next
<1> QED
  BY Invariant, <1>1, PTL DEF Spec, SuccessIsComplete
-----------------------------------------------------------------------------
(* What a step does to the stack, for the two properties below.             *)

\* The stack after its innermost frame was replaced, left, or called another.
LEMMA AfterReplaced ==
  ASSUME stack \in Seq(Frame), stack # <<>>, NEW f \in Frame,
         stack' = Append(Below, f)
  PROVE  /\ Len(stack) \in Nat \ {0} /\ Len(stack') = Len(stack)
         /\ stack'[Len(stack)] = f /\ Top = stack[Len(stack)]
         /\ \A k \in 1 .. Len(stack) - 1 : stack'[k] = stack[k]
BY FramesBelow DEF Top

LEMMA AfterPopped ==
  ASSUME stack \in Seq(Frame), stack # <<>>, stack' = Below
  PROVE  /\ Len(stack) \in Nat \ {0} /\ Len(stack') = Len(stack) - 1
         /\ Top = stack[Len(stack)]
         /\ \A k \in 1 .. Len(stack) - 1 : stack'[k] = stack[k]
BY FramesBelow DEF Top

LEMMA AfterPushed ==
  ASSUME stack \in Seq(Frame), stack # <<>>, NEW f \in Frame, NEW g \in Frame,
         stack' = Append(Append(Below, f), g)
  PROVE  /\ Len(stack) \in Nat \ {0} /\ Len(stack') = Len(stack) + 1
         /\ stack'[Len(stack) + 1] = g /\ stack'[Len(stack)] = f
         /\ Top = stack[Len(stack)]
         /\ \A k \in 1 .. Len(stack) - 1 : stack'[k] = stack[k]
BY FramesBelow DEF Top

\* A chain answers its caller with FCSFatal or FCSSuccess, never with a retry.
Answered == ret \in {FCSFatal, FCSSuccess}
Ends == stack' = Below /\ Answered' /\ ok' = ok

\* Another turn of an element loop: on to the next element, bin or part.
Turns(f) ==
  /\ ret = NoStatus /\ ret' = NoStatus /\ ok' = ok
  /\ f.status = Top.status /\ f.called = Top.called /\ f.pos >= Top.pos
  /\ \/ f.status < FCSRetry
     \/ /\ f.part = Top.part /\ f.bin = Top.bin /\ f.pos = Top.pos + 1
        /\ ~Runs(Top.node, Top.pos)

\* A leaf is called ...
Calls(f) ==
  /\ f.pos = Top.pos /\ f.status = Top.status /\ f.called
  /\ Top.pos < End(Top) /\ Runs(Top.node, Top.pos)

\* ... and the status a call came back with is dealt with.
Takes(f) ==
  /\ ret # NoStatus /\ ret' = NoStatus /\ ok' = ok /\ f.called = Top.called
  /\ \/ Answered /\ f.status = FCSSuccess /\ f.pos > Top.pos
     \/ /\ ret >= FCSRetry /\ Top.node \in FromStart
        /\ f.status = ret /\ f.pos >= Top.pos
     \/ ret >= FCSRetry /\ f.status = Top.status /\ f.pos = Top.pos

Moved(f) ==
  /\ f \in Frame /\ f.node = Top.node /\ f.pass = Top.pass
  /\ stack' = Append(Below, f)

Starts(f) ==
  /\ PassFails /\ ret' = NoStatus /\ ok' = ok
  /\ f \in Frame /\ f = StartPass(Top.node, Top.pass + 1, Top.retry, Top.status)
  /\ stack' = Append(Below, f) /\ Top.status >= FCSRetry

Descends(f, g) ==
  /\ RunChain /\ ret' = NoStatus /\ ok' = ok
  /\ f \in Frame /\ f.node = Top.node /\ f.pos = Top.pos /\ f.pass = Top.pass
  /\ f.status = Top.status /\ f.called
  /\ Top.pos < End(Top) /\ Runs(Top.node, Top.pos)
  /\ g \in Frame /\ g = StartPass(Element(Top), 0, 0, FCSSuccess)
  /\ stack' = Append(Append(Below, f), g)

LEMMA TurnSteps ==
  ASSUME IInv, SkipElement \/ SelectBin \/ RunForAllBins
  PROVE  \E f : Moved(f) /\ Turns(f)
<1>1. StackInv /\ stack # <<>> /\ Top \in Frame /\ FrameInv(Top) /\ ret = NoStatus
  BY TopFrame DEF IInv, SkipElement, SelectBin, RunForAllBins, AtEnd, Active
<1>2. /\ Top.node \in Chains /\ Top.part \in {"before", "bin", "last"}
      /\ Top.bin \in BinsOf(Top.node) /\ Top.pos \in Nat /\ Top.pos <= End(Top)
      /\ Top.status \in Int
  BY <1>1 DEF FrameInv, FrameRange, Frame, Statuses
<1>3. -1 \in BinsOf(Top.node)
  BY <1>2, Ranges DEF BinsOf
<1>4. CASE SkipElement
  <2> DEFINE f == [Top EXCEPT !.pos = @ + 1]
  <2>1. /\ f \in Frame /\ f.node = Top.node /\ f.pass = Top.pass
        /\ f.status = Top.status /\ f.called = Top.called /\ f.pos = Top.pos + 1
        /\ f.part = Top.part /\ f.bin = Top.bin
    BY <1>1 DEF Frame
  <2>2. stack' = Append(Below, f) /\ ret' = ret /\ ok' = ok
        /\ ~Runs(Top.node, Top.pos)
    BY <1>4 DEF SkipElement, Become
  <2> HIDE DEF f
  <2> QED
    BY <1>1, <1>2, <2>1, <2>2 DEF Moved, Turns
<1>5. CASE SelectBin
  <2>1. PICK b \in BinsDrawn[Top.node] :
          Become([Top EXCEPT !.part = "bin", !.bin = CheckedBin(Top.node, b),
                             !.pos = From(Top.node, "bin", CheckedBin(Top.node, b))])
    BY <1>5 DEF SelectBin
  <2> DEFINE bin == CheckedBin(Top.node, b)
  <2> DEFINE start == From(Top.node, "bin", bin)
  <2> DEFINE f == [Top EXCEPT !.part = "bin", !.bin = bin, !.pos = start]
  <2>2. Kind[Top.node] = "binned" /\ Top.part = "before" /\ Top.bin = -1
    BY <1>1, <1>5 DEF SelectBin, FrameInv, FrameRange
  <2>3. bin \in BinsOf(Top.node) /\ bin \in Int
    BY <1>2, <2>1, <2>2, BinAssumption DEF CheckedBin, BinsOf, NBins
  <2>4. start \in Nat /\ To(Top.node, "before", bin) <= start
        /\ To(Top.node, "before", bin) = To(Top.node, "before", -1)
    BY <1>2, <2>2, <2>3, Ranges, Boundaries DEF To
  <2>5. Top.pos <= start
    <3>1. Top.pos <= To(Top.node, "before", bin) /\ To(Top.node, "before", bin) \in Nat
      BY <1>2, <2>2, <2>3, <2>4, Ranges DEF End
    <3> QED
      BY <1>2, <2>4, <3>1
  <2>6. stack' = Append(Below, f)
    BY <2>1 DEF Become
  <2> HIDE DEF start, bin
  <2>7. /\ f \in Frame /\ f.node = Top.node /\ f.pass = Top.pass
        /\ f.status = Top.status /\ f.called = Top.called /\ f.pos = start
    BY <1>1, <2>3, <2>4 DEF Frame
  <2>8. Top.status < FCSRetry /\ ret' = ret /\ ok' = ok
    BY <1>5 DEF SelectBin
  <2> HIDE DEF f
  <2> QED
    BY <1>1, <1>2, <2>4, <2>5, <2>6, <2>7, <2>8 DEF Moved, Turns
<1>6. CASE RunForAllBins
  <2> DEFINE start == From(Top.node, "last", Top.bin)
  <2> DEFINE f == [Top EXCEPT !.part = "last", !.pos = start]
  <2>1. Kind[Top.node] = "binned" /\ Top.part = "bin"
    BY <1>1, <1>6 DEF RunForAllBins, FrameInv, FrameRange
  <2>2. start \in Nat /\ To(Top.node, "bin", Top.bin) <= start
        /\ To(Top.node, "bin", Top.bin) \in Nat
    BY <1>2, <2>1, Ranges, Boundaries
  <2>3. Top.pos <= start
    BY <1>2, <2>1, <2>2 DEF End
  <2>4. stack' = Append(Below, f) /\ Top.status < FCSRetry /\ ret' = ret /\ ok' = ok
    BY <1>6 DEF RunForAllBins, Become
  <2> HIDE DEF start
  <2>5. /\ f \in Frame /\ f.node = Top.node /\ f.pass = Top.pass
        /\ f.status = Top.status /\ f.called = Top.called /\ f.pos = start
    BY <1>1, <2>2 DEF Frame
  <2> HIDE DEF f
  <2> QED
    BY <1>1, <1>2, <2>2, <2>3, <2>4, <2>5 DEF Moved, Turns
<1> QED
  BY <1>4, <1>5, <1>6

LEMMA LeafSteps ==
  ASSUME IInv, RunLeaf
  PROVE  \E f : Moved(f) /\ Calls(f)
<1> DEFINE f == [Top EXCEPT !.called = TRUE]
<1>1. stack # <<>> /\ Top \in Frame
  BY TopFrame DEF IInv, RunLeaf, Active
<1>2. /\ f \in Frame /\ f.node = Top.node /\ f.pass = Top.pass
      /\ f.status = Top.status /\ f.called /\ f.pos = Top.pos
  BY <1>1 DEF Frame
<1>3. stack' = Append(Below, f) /\ Top.pos < End(Top) /\ Runs(Top.node, Top.pos)
  BY DEF RunLeaf, Become
<1> HIDE DEF f
<1> QED
  BY <1>2, <1>3 DEF Moved, Calls

LEMMA ChainSteps ==
  ASSUME IInv, RunChain
  PROVE  \E f, g : Descends(f, g)
<1> DEFINE f == [Top EXCEPT !.called = TRUE]
<1> DEFINE g == StartPass(Element(Top), 0, 0, FCSSuccess)
<1>1. stack # <<>> /\ Top \in Frame /\ ret = NoStatus
  BY TopFrame DEF IInv, RunChain, Active
<1>2. /\ f \in Frame /\ f.node = Top.node /\ f.pass = Top.pass
      /\ f.status = Top.status /\ f.called /\ f.pos = Top.pos
  BY <1>1 DEF Frame
<1>3. g \in Frame
  <2>1. Element(Top) \in Chains /\ FCSSuccess \in Statuses
    BY DEF RunChain, FCSSuccess, Statuses, FCSFatal
  <2> QED
    BY <2>1, Started
<1>4. /\ stack' = Append(Append(Below, f), g) /\ ret' = ret /\ ok' = ok
      /\ Top.pos < End(Top) /\ Runs(Top.node, Top.pos)
  BY DEF RunChain
<1> HIDE DEF f
<1> QED
  BY <1>1, <1>2, <1>3, <1>4 DEF Descends

LEMMA TakeSteps ==
  ASSUME IInv, TakeSuccess \/ TakeRetryFromStart \/ TakeRetry
  PROVE  Ends \/ \E f : Moved(f) /\ Takes(f)
<1>1. StackInv /\ stack # <<>> /\ Top \in Frame /\ FrameInv(Top) /\ ret \in Int
  BY TopFrame DEF IInv, TypeOK, TakeSuccess, TakeRetryFromStart, TakeRetry
<1>2. /\ Top.node \in Chains /\ Top.part \in {"before", "bin", "last"}
      /\ Top.bin \in BinsOf(Top.node) /\ Top.pos \in Nat /\ Top.pos <= End(Top)
      /\ Top.attempt \in Nat /\ Top.done \in SUBSET Nat
  BY <1>1 DEF FrameInv, FrameRange, Frame
<1>3. End(Top) \in Nat
  BY <1>2, Ranges DEF End
<1>4. CASE TakeSuccess
  <2> DEFINE next == IF Stops(Top) THEN End(Top) ELSE Top.pos + 1
  <2> DEFINE all == Top.done \cup {Top.pos}
  <2> DEFINE f == [Top EXCEPT !.status = FCSSuccess, !.pos = next,
                              !.attempt = 0, !.granted = 0, !.done = all]
  <2>1. Calling(Top) /\ ret = FCSSuccess
    BY <1>1, <1>4, TopFrame DEF TakeSuccess, NoStatus, FCSSuccess
  <2>2. next \in Nat /\ next > Top.pos /\ all \in SUBSET Nat
    BY <1>2, <1>3, <2>1 DEF Calling
  <2>3. stack' = Append(Below, f) /\ ret' = NoStatus /\ ok' = ok
    BY <1>1, <1>4 DEF TakeSuccess, Become, Frame
  <2>4. FCSSuccess \in Statuses
    BY DEF FCSSuccess, Statuses, FCSFatal
  <2> HIDE DEF next, all
  <2>5. /\ f \in Frame /\ f.node = Top.node /\ f.pass = Top.pass
        /\ f.status = FCSSuccess /\ f.called = Top.called /\ f.pos = next
    BY <1>1, <2>2, <2>4 DEF Frame
  <2> HIDE DEF f
  <2> QED
    BY <2>1, <2>2, <2>3, <2>5
       DEF Moved, Takes, Answered, NoStatus, FCSSuccess
<1>5. CASE TakeRetryFromStart
  <2> DEFINE end == End(Top)
  <2> DEFINE more == Granted(ret)
  <2> DEFINE f == [Top EXCEPT !.status = ret, !.retry = more, !.pos = end,
                              !.attempt = 0, !.granted = 0]
  <2>1. ret >= 2 /\ ret \in Statuses /\ more \in Nat /\ ret # NoStatus
        /\ Top.node \in FromStart /\ end \in Nat /\ end >= Top.pos
    BY <1>1, <1>2, <1>3, <1>5 DEF TakeRetryFromStart, HandsUp, FCSRetry, Statuses,
         FCSFatal, Granted, NoStatus
  <2>2. stack' = Append(Below, f) /\ ret' = NoStatus /\ ok' = ok
    BY <1>5 DEF TakeRetryFromStart, Become
  <2> HIDE DEF end, more
  <2>3. /\ f \in Frame /\ f.node = Top.node /\ f.pass = Top.pass
        /\ f.status = ret /\ f.called = Top.called /\ f.pos = end
    BY <1>1, <2>1 DEF Frame
  <2> HIDE DEF f
  <2> QED
    BY <2>1, <2>2, <2>3 DEF Moved, Takes, FCSRetry
<1>6. CASE TakeRetry
  <2> DEFINE more == Granted(ret)
  <2> DEFINE again == Top.attempt + 1
  <2> DEFINE f == [Top EXCEPT !.attempt = again, !.granted = more]
  <2>1. ret >= 2 /\ more \in Nat /\ again \in Nat /\ ret # NoStatus
    BY <1>1, <1>2, <1>6 DEF TakeRetry, FCSRetry, Granted, NoStatus
  <2>2. \/ Return(FCSFatal)
        \/ stack' = Append(Below, f) /\ ret' = NoStatus /\ ok' = ok
    BY <1>6 DEF TakeRetry, Become
  <2> HIDE DEF more, again
  <2>3. /\ f \in Frame /\ f.node = Top.node /\ f.pass = Top.pass
        /\ f.status = Top.status /\ f.called = Top.called /\ f.pos = Top.pos
    BY <1>1, <2>1 DEF Frame
  <2> HIDE DEF f
  <2> QED
    BY <2>1, <2>2, <2>3 DEF Moved, Takes, FCSRetry, Return, Ends, Answered
<1> QED
  BY <1>4, <1>5, <1>6

LEMMA EndSteps ==
  ASSUME IInv, TakeFatal \/ PassSucceeds \/ PassFails
  PROVE  Ends \/ \E f : Starts(f)
<1>1. CASE TakeFatal \/ PassSucceeds
  BY <1>1 DEF TakeFatal, PassSucceeds, Return, Ends, Answered
<1>2. CASE PassFails
  <2> DEFINE f == StartPass(Top.node, Top.pass + 1, Top.retry, Top.status)
  <2>1. stack # <<>> /\ Top \in Frame /\ ret = NoStatus
    BY <1>2, TopFrame DEF IInv, PassFails, AtEnd, Active
  <2>2. Top.node \in Chains /\ Top.pass + 1 \in Nat /\ Top.retry \in Nat
        /\ Top.status \in Statuses
    BY <2>1 DEF Frame
  <2>3. f \in Frame
    BY <2>2, Started
  <2>4. \/ Return(FCSFatal)
        \/ stack' = Append(Below, f) /\ ret' = ret /\ ok' = ok
    BY <1>2 DEF PassFails, Become, NextPass
  <2>5. Top.status >= FCSRetry
    BY <1>2 DEF PassFails
  <2> HIDE DEF f
  <2> QED
    BY <1>2, <2>1, <2>3, <2>4, <2>5 DEF Starts, Return, Ends, Answered, f
<1> QED
  BY <1>1, <1>2

LEMMA StepShapes ==
  ASSUME IInv, Next
  PROVE  /\ stack \in Seq(Frame) /\ stack # <<>> /\ Top \in Frame
         /\ \/ Ends
            \/ \E f : Starts(f)
            \/ \E f, g : Descends(f, g)
            \/ RunLeaf /\ \E f : Moved(f) /\ Calls(f)
            \/ \E f : Moved(f) /\ (Turns(f) \/ Takes(f))
<1>1. stack \in Seq(Frame) /\ stack # <<>> /\ Top \in Frame
  BY TopFrame DEF IInv, StackInv, Next, SkipElement, RunLeaf, RunChain, TakeSuccess,
     TakeFatal, TakeRetryFromStart, TakeRetry, SelectBin, RunForAllBins,
     PassSucceeds, PassFails, AtEnd, Active
<1>2. CASE SkipElement \/ SelectBin \/ RunForAllBins
  BY <1>1, <1>2, TurnSteps
<1>3. CASE RunLeaf
  BY <1>1, <1>3, LeafSteps
<1>4. CASE RunChain
  BY <1>1, <1>4, ChainSteps
<1>5. CASE TakeSuccess \/ TakeRetryFromStart \/ TakeRetry
  BY <1>1, <1>5, TakeSteps
<1>6. CASE TakeFatal \/ PassSucceeds \/ PassFails
  BY <1>1, <1>6, EndSteps
<1> QED
  BY <1>2, <1>3, <1>4, <1>5, <1>6 DEF Next

-----------------------------------------------------------------------------
(* A pass that is announced simulates something.                             *)

\* Some element of the chain runs for this particle.
Callable(n) == \E p \in 0 .. Len(Kids[n]) - 1 : Runs(n, p)

\* Only a chain that may start over keeps a request to be simulated again, and
\* one of its elements made it.
Asked(f) == f.status >= FCSRetry => f.node \in FromStart /\ Callable(f.node)
AskedInv == \A k \in 1 .. Len(stack) : Asked(stack[k])

LEMMA AskedStep ==
  ASSUME IInv, AskedInv, Next
  PROVE  AskedInv'
<1>1. stack \in Seq(Frame) /\ stack # <<>> /\ Top \in Frame
  BY StepShapes
<1>2. Asked(Top) /\ Len(stack) \in Nat \ {0}
  BY <1>1 DEF AskedInv, Top
<1>3. CASE Ends
  BY <1>1, <1>3, AfterPopped DEF Ends, AskedInv
<1>4. ASSUME NEW f, Starts(f)
      PROVE  AskedInv'
  <2>1. Asked(f)
    BY <1>2, <1>4 DEF Starts, StartPass, Asked
  <2>2. f \in Frame /\ stack' = Append(Below, f)
    BY <1>4 DEF Starts
  <2> QED
    BY <1>1, <2>1, <2>2, AfterReplaced DEF AskedInv
<1>5. ASSUME NEW f, NEW g, Descends(f, g)
      PROVE  AskedInv'
  <2>1. Asked(f) /\ Asked(g)
    BY <1>2, <1>5 DEF Descends, StartPass, Asked, FCSSuccess, FCSRetry
  <2>2. f \in Frame /\ g \in Frame /\ stack' = Append(Append(Below, f), g)
    BY <1>5 DEF Descends
  <2> QED
    BY <1>1, <2>1, <2>2, AfterPushed DEF AskedInv
<1>6. ASSUME NEW f, Moved(f), Calls(f) \/ Turns(f) \/ Takes(f)
      PROVE  AskedInv'
  <2>1. ASSUME Takes(f), ret >= FCSRetry, Top.node \in FromStart
        PROVE  Callable(Top.node)
    <3>1. Calling(Top) /\ FrameInv(Top)
      BY <1>1, <2>1, TopFrame DEF Takes, IInv
    <3>2. /\ Top.node \in Chains /\ Top.part \in {"before", "bin", "last"}
          /\ Top.bin \in BinsOf(Top.node) /\ Top.pos \in Nat
      BY <3>1 DEF FrameInv, FrameRange, Frame
    <3>3. End(Top) \in Nat /\ End(Top) <= Len(Kids[Top.node])
          /\ Len(Kids[Top.node]) \in Nat
      BY <3>2, Ranges DEF End
    <3>4. Top.pos \in 0 .. Len(Kids[Top.node]) - 1 /\ Runs(Top.node, Top.pos)
      BY <3>1, <3>2, <3>3 DEF Calling
    <3> QED
      BY <3>4 DEF Callable
  <2>2. Asked(f)
    BY <1>2, <1>6, <2>1
       DEF Moved, Calls, Turns, Takes, Asked, FCSSuccess, FCSRetry
  <2>3. f \in Frame /\ stack' = Append(Below, f)
    BY <1>6 DEF Moved
  <2> QED
    BY <1>1, <2>2, <2>3, AfterReplaced DEF AskedInv
<1> QED
  BY <1>3, <1>4, <1>5, <1>6, StepShapes

LEMMA AskedAlways == Spec => []AskedInv
<1>1. Init => AskedInv
  <2> SUFFICES ASSUME Init PROVE AskedInv
    OBVIOUS
  <2>1. stack = <<StartPass(Root, 0, 0, FCSSuccess)>>
    BY DEF Init
  <2> QED
    BY <2>1 DEF StartPass, AskedInv, Asked, FCSSuccess, FCSRetry
<1>2. IInv /\ AskedInv /\ [Next]_vars => AskedInv'
  BY AskedStep DEF AskedInv, vars
<1> QED
  BY Invariant, <1>1, <1>2, PTL DEF Spec

\* A further pass of a chain whose first loop is empty stays in that loop.  One
\* of any other chain that has called nothing yet was asked for, and has an
\* element to call in the loop it is in; a frame that waits for an answer made
\* a call.
HasWork(f) ==
  f.pass > 0 /\ (StartsEmpty(f.node) \/ ~f.called) =>
    /\ f.status >= FCSRetry
    /\ IF StartsEmpty(f.node)
       THEN ~f.called /\ f.part = "before"
       ELSE \E p \in Nat : f.pos <= p /\ p < End(f) /\ Runs(f.node, p)
WorkInv ==
  /\ \A k \in 1 .. Len(stack) : HasWork(stack[k])
  /\ \A k \in 1 .. Len(stack) : k < Len(stack) \/ ret # NoStatus => stack[k].called

\* There is nothing to call in an empty first loop.
LEMMA NothingToCall ==
  ASSUME NEW f, HasWork(f), f.pass > 0, StartsEmpty(f.node), f.pos \in Nat
  PROVE  ~f.called /\ ~(f.pos < End(f)) /\ f.status >= FCSRetry /\ f.part = "before"
BY DEF HasWork, StartsEmpty, End, To

LEMMA StartedWithWork ==
  ASSUME IInv, AskedInv, NEW f, Starts(f)
  PROVE  HasWork(f)
<1> DEFINE n == Top.node
<1>1. stack \in Seq(Frame) /\ stack # <<>> /\ Top \in Frame
  BY TopFrame DEF IInv, StackInv, Starts, PassFails, AtEnd, Active
<1>2. Top.status >= FCSRetry /\ n \in Chains /\ Callable(n)
  <2>1. Len(stack) \in 1 .. Len(stack)
    BY <1>1
  <2>2. Asked(Top)
    BY <2>1 DEF AskedInv, Top
  <2>3. Top.status >= FCSRetry
    BY DEF Starts
  <2> QED
    BY <1>1, <2>2, <2>3 DEF Asked, Frame
<1>3. f.pos = 0 /\ f.node = n /\ f.part = FirstPart(n) /\ f.bin = -1
      /\ f.status = Top.status /\ f.called = FALSE
  BY DEF Starts, StartPass
<1>4. CASE StartsEmpty(n)
  BY <1>2, <1>3, <1>4 DEF HasWork, StartsEmpty, FirstPart
<1>5. CASE Kind[n] = "binned" /\ ~StartsEmpty(n)
  <2>1. End(f) = BinStart[n][1]
    BY <1>3, <1>5 DEF End, FirstPart, To
  <2>2. End(f) > 0
    BY <1>2, <1>5, <2>1, BinAssumption DEF StartsEmpty
  <2>3. Runs(n, 0)
    BY <1>5 DEF Runs
  <2> QED
    BY <1>2, <1>3, <1>5, <2>2, <2>3 DEF HasWork
<1>6. CASE Kind[n] # "binned"
  <2>1. End(f) = Len(Kids[n]) /\ Len(Kids[n]) \in Nat
    BY <1>2, <1>3, <1>6, TreeAssumption DEF End, FirstPart, To
  <2>2. PICK p \in 0 .. Len(Kids[n]) - 1 : Runs(n, p)
    BY <1>2 DEF Callable
  <2>3. p \in Nat /\ 0 <= p /\ p < Len(Kids[n])
    BY <2>1, <2>2
  <2> QED
    BY <1>2, <1>3, <1>6, <2>1, <2>2, <2>3 DEF HasWork, StartsEmpty
<1> QED
  BY <1>4, <1>5, <1>6

\* WorkInv survives a step that only replaces the innermost frame.
LEMMA WorkReplaced ==
  ASSUME stack \in Seq(Frame), stack # <<>>, WorkInv, NEW f \in Frame,
         HasWork(f), ret' = NoStatus \/ f.called, stack' = Append(Below, f)
  PROVE  WorkInv'
<1>1. /\ Len(stack) \in Nat \ {0} /\ Len(stack') = Len(stack)
      /\ stack'[Len(stack)] = f
      /\ \A k \in 1 .. Len(stack) - 1 : stack'[k] = stack[k]
  BY AfterReplaced
<1>2. ASSUME NEW k \in 1 .. Len(stack)
      PROVE  /\ HasWork(stack'[k])
             /\ (k < Len(stack) \/ ret' # NoStatus => stack'[k].called)
  <2>1. CASE k = Len(stack)
    BY <1>1, <2>1
  <2>2. CASE k # Len(stack)
    <3>1. k \in 1 .. Len(stack) - 1 /\ k < Len(stack)
      BY <1>1, <2>2
    <3>2. HasWork(stack[k]) /\ stack[k].called
      BY <1>2, <3>1 DEF WorkInv
    <3> QED
      BY <1>1, <3>1, <3>2
  <2> QED
    BY <2>1, <2>2
<1> QED
  BY <1>1, <1>2 DEF WorkInv

LEMMA WorkStep ==
  ASSUME IInv, AskedInv, WorkInv, Next
  PROVE  WorkInv'
<1>1. stack \in Seq(Frame) /\ stack # <<>> /\ Top \in Frame
  BY StepShapes
<1>2. HasWork(Top) /\ Len(stack) \in Nat \ {0} /\ (ret # NoStatus => Top.called)
      /\ Top.pos \in Nat
  BY <1>1 DEF WorkInv, Top, Frame
<1>0. Top.pass > 0 /\ StartsEmpty(Top.node) =>
        ~Top.called /\ ~(Top.pos < End(Top)) /\ Top.status >= FCSRetry
  BY <1>2, NothingToCall
<1>3. CASE Ends
  BY <1>1, <1>3, AfterPopped DEF Ends, WorkInv
<1>4. ASSUME NEW f, Starts(f)
      PROVE  WorkInv'
  <2>1. HasWork(f)
    BY <1>4, StartedWithWork
  <2>2. f \in Frame /\ stack' = Append(Below, f) /\ ret' = NoStatus
    BY <1>4 DEF Starts
  <2> QED
    BY <1>1, <2>1, <2>2, WorkReplaced
<1>5. ASSUME NEW f, NEW g, Descends(f, g)
      PROVE  WorkInv'
  <2>1. HasWork(f) /\ HasWork(g)
    BY <1>0, <1>5 DEF Descends, StartPass, HasWork
  <2>2. f \in Frame /\ g \in Frame /\ stack' = Append(Append(Below, f), g)
        /\ ret' = NoStatus /\ f.called
    BY <1>5 DEF Descends
  <2> QED
    BY <1>1, <2>1, <2>2, AfterPushed DEF WorkInv
<1>6. ASSUME NEW f, Moved(f), Calls(f)
      PROVE  WorkInv'
  <2>1. HasWork(f) /\ f.called
    BY <1>0, <1>6 DEF Calls, Moved, HasWork
  <2>2. f \in Frame /\ stack' = Append(Below, f)
    BY <1>6 DEF Moved
  <2> QED
    BY <1>1, <2>1, <2>2, WorkReplaced
<1>7. ASSUME NEW f, Moved(f), Turns(f) \/ Takes(f)
      PROVE  WorkInv'
  <2>1. ASSUME Takes(f) PROVE HasWork(f)
    BY <1>0, <1>2, <1>7, <2>1 DEF Takes, Moved, HasWork
  <2>2. ASSUME Turns(f) PROVE HasWork(f)
    <3>5. f.called = Top.called /\ f.pass = Top.pass /\ f.node = Top.node
          /\ Top.status \in Int
      BY <1>1, <1>7, <2>2 DEF Moved, Turns, Frame, Statuses
    <3>6. ASSUME f.pass > 0, StartsEmpty(f.node) PROVE FALSE
      <4>1. Top.status >= FCSRetry
        BY <1>0, <3>5, <3>6
      <4>2. ~Runs(Top.node, Top.pos)
        BY <1>7, <2>2, <3>5, <4>1 DEF Turns, FCSRetry
      <4> QED
        BY <3>5, <3>6, <4>2 DEF StartsEmpty, Runs
    <3> SUFFICES ASSUME f.pass > 0, ~f.called, ~StartsEmpty(f.node)
                 PROVE  HasWork(f)
      BY <3>6 DEF HasWork
    <3>1. PICK p \in Nat : Top.pos <= p /\ p < End(Top) /\ Runs(Top.node, p)
      BY <1>2, <1>7, <2>2 DEF HasWork, Moved, Turns
    <3>2. Top.status >= FCSRetry /\ Top.status \in Int
      BY <1>1, <1>2, <1>7, <2>2 DEF HasWork, Moved, Turns, Frame, Statuses
    <3>3. /\ f.part = Top.part /\ f.bin = Top.bin /\ f.pos = Top.pos + 1
          /\ ~Runs(Top.node, Top.pos) /\ f.node = Top.node /\ f.status = Top.status
      BY <1>7, <2>2, <3>2 DEF Moved, Turns, FCSRetry
    <3>4. End(f) = End(Top) /\ f.pos <= p
      BY <1>2, <3>1, <3>3 DEF End
    <3> QED
      BY <3>1, <3>2, <3>3, <3>4 DEF HasWork
  <2>3. HasWork(f)
    BY <1>7, <2>1, <2>2
  <2>4. f \in Frame /\ stack' = Append(Below, f) /\ ret' = NoStatus
    BY <1>7 DEF Moved, Turns, Takes
  <2> QED
    BY <1>1, <2>3, <2>4, WorkReplaced
<1> QED
  BY <1>3, <1>4, <1>5, <1>6, <1>7, StepShapes

\* In every tree of parametrizations, a further pass of a chain that starts over
\* simulates at least one element, unless the chain is binned and has no element
\* before its first bin: such a chain simulates nothing in any further pass and
\* never succeeds in one (TFCSParametrizationBinnedChain.cxx:95).
THEOREM WhatFurtherPassesDo == Spec => FurtherPasses
<1>1. Init => WorkInv
  <2> SUFFICES ASSUME Init PROVE WorkInv
    OBVIOUS
  <2>1. stack = <<StartPass(Root, 0, 0, FCSSuccess)>> /\ ret = NoStatus
    BY DEF Init
  <2> QED
    BY <2>1 DEF StartPass, WorkInv, HasWork
<1>2. IInv /\ AskedInv /\ WorkInv /\ [Next]_vars => WorkInv'
  <2>1. ASSUME WorkInv, UNCHANGED vars PROVE WorkInv'
    BY <2>1 DEF vars, WorkInv
  <2> QED
    BY <2>1, WorkStep
<1>3. ASSUME IInv, WorkInv, PassFails \/ PassSucceeds, Top.pass > 0
      PROVE  /\ PassFails => (Top.called <=> ~StartsEmpty(Top.node))
             /\ PassSucceeds => ~StartsEmpty(Top.node)
  <2>1. stack # <<>> /\ Top.pos >= End(Top) /\ Top \in Frame /\ FrameInv(Top)
        /\ Len(stack) \in 1 .. Len(stack)
    BY <1>3, TopFrame DEF IInv, PassFails, PassSucceeds, AtEnd, Active
  <2>2. HasWork(Top)
    BY <1>3, <2>1 DEF WorkInv, Top
  <2>3. Top.pos \in Nat /\ End(Top) \in Nat
    BY <2>1, Ranges DEF FrameInv, FrameRange, Frame, End
  <2>4. StartsEmpty(Top.node) => ~Top.called /\ Top.part = "before"
    BY <1>3, <2>2 DEF HasWork
  <2>5. ~StartsEmpty(Top.node) => Top.called
    <3> SUFFICES ASSUME ~StartsEmpty(Top.node), ~Top.called PROVE FALSE
      OBVIOUS
    <3>1. PICK p \in Nat : Top.pos <= p /\ p < End(Top)
      BY <1>3, <2>2 DEF HasWork
    <3> QED
      BY <2>1, <2>3, <3>1
  <2>6. PassSucceeds => Top.part = "last"
    BY DEF PassSucceeds
  <2> QED
    BY <2>4, <2>5, <2>6
<1>4. IInv /\ WorkInv /\ [Next]_vars =>
        [/\ PassFails /\ Top.pass > 0 => (Top.called <=> ~StartsEmpty(Top.node))
         /\ PassSucceeds /\ Top.pass > 0 => ~StartsEmpty(Top.node)]_vars
  BY <1>3
<1> QED
  BY Invariant, AskedAlways, <1>1, <1>2, <1>4, PTL DEF Spec, FurtherPasses

-----------------------------------------------------------------------------
(* What succeeded is not run again.                                          *)

\* The active calls are a path from the root down; no chain is in it twice.
PathInv ==
  /\ stack # <<>> => stack[1].node = Root
  /\ \A k \in 1 .. Len(stack) - 1 : stack[k + 1].node = Element(stack[k])
  /\ \A j, k \in 1 .. Len(stack) : stack[j].node = stack[k].node => j = k

\* The i-th element of chain c has been dealt with: c itself has returned for
\* good, or c is active and past it, or about to be told of its answer.
Behind(D, c, i) ==
  \/ c \in D
  \/ \E k \in 1 .. Len(stack) :
       /\ stack[k].node = c
       /\ \/ i <= stack[k].pos
          \/ k = Len(stack) /\ Answered /\ i = stack[k].pos + 1

\* D holds the nodes that have been dealt with for good: with each of them the
\* place where it hangs is behind, and no active chain is one of them.
SpentInv(D) ==
  /\ D \cap Repeatable = {}
  /\ \A l \in Leaves \ Repeatable : ok[l] <= 1 /\ (ok[l] # 0 => l \in D)
  /\ \A n \in D : n = Root \/ \E c \in Chains : \E i \in 1 .. Len(Kids[c]) :
                                Kids[c][i] = n /\ Behind(D, c, i)
  /\ \A k \in 1 .. Len(stack) : stack[k].node \notin D

OnceInv == PathInv /\ \E D \in SUBSET Nodes : SpentInv(D)

\* The elements of a chain that starts over, or is run again by one, are run
\* again.
LEMMA RunAgain ==
  ASSUME NEW c \in Chains, c \in FromStart \/ c \in Repeatable,
         NEW i \in 1 .. Len(Kids[c])
  PROVE  Kids[c][i] \in Repeatable
<1>1. Kids[c][i] \in Elements(c) /\ Kids[c][i] \in Nodes
  BY TreeAssumption DEF Elements
<1>2. ASSUME NEW S \in SUBSET Nodes,
             \A d \in FromStart \cup (S \cap Chains) : Elements(d) \subseteq S
      PROVE  Kids[c][i] \in S
  <2>1. c \in FromStart \cup (S \cap Chains)
    BY <1>2 DEF Repeatable
  <2> QED
    BY <1>1, <1>2, <2>1
<1> QED
  BY <1>1, <1>2 DEF Repeatable

\* The element a chain is about to run, or has in a call.
LEMMA ElementPlace ==
  ASSUME NEW f \in Frame, FrameInv(f), f.pos < End(f)
  PROVE  /\ f.node \in Chains /\ f.pos \in Nat
         /\ f.pos + 1 \in 1 .. Len(Kids[f.node])
         /\ Element(f) = Kids[f.node][f.pos + 1] /\ Element(f) \in Nodes
<1>1. /\ f.node \in Chains /\ f.part \in {"before", "bin", "last"}
      /\ f.bin \in BinsOf(f.node) /\ f.pos \in Nat
  BY DEF FrameInv, FrameRange, Frame
<1>2. End(f) \in Nat /\ End(f) <= Len(Kids[f.node]) /\ Len(Kids[f.node]) \in Nat
  BY <1>1, Ranges DEF End
<1>3. f.pos + 1 \in 1 .. Len(Kids[f.node])
  BY <1>1, <1>2
<1> QED
  BY <1>1, <1>3, TreeAssumption DEF Element

\* What is about to run has not been dealt with.
LEMMA NotYet ==
  ASSUME IInv, EachOnce, PathInv, NEW D \in SUBSET Nodes, SpentInv(D),
         Active, Top.pos < End(Top)
  PROVE  Element(Top) \notin D /\ Element(Top) # Root
<1>1. /\ stack # <<>> /\ Top \in Frame /\ FrameInv(Top) /\ ~Answered
      /\ Len(stack) \in 1 .. Len(stack) /\ Top = stack[Len(stack)]
  BY TopFrame DEF IInv, Active, Answered, NoStatus, FCSFatal, FCSSuccess, Top
<1> DEFINE n == Top.node
<1> DEFINE p == Top.pos
<1>2. /\ n \in Chains /\ p \in Nat /\ p + 1 \in 1 .. Len(Kids[n])
      /\ Element(Top) = Kids[n][p + 1]
  BY <1>1, ElementPlace
<1>3. Element(Top) # Root
  BY <1>2 DEF EachOnce
<1>4. ASSUME Element(Top) \in D
      PROVE  FALSE
  <2>1. PICK c \in Chains : \E i \in 1 .. Len(Kids[c]) :
                              Kids[c][i] = Element(Top) /\ Behind(D, c, i)
    BY <1>3, <1>4 DEF SpentInv
  <2>2. PICK i \in 1 .. Len(Kids[c]) : Kids[c][i] = Element(Top) /\ Behind(D, c, i)
    BY <2>1
  <2>3. c = n /\ i = p + 1
    BY <1>2, <2>2 DEF EachOnce
  <2>4. n \notin D
    BY <1>1 DEF SpentInv
  <2>5. PICK k \in 1 .. Len(stack) : stack[k].node = n /\ p + 1 <= stack[k].pos
    BY <1>1, <2>2, <2>3, <2>4 DEF Behind
  <2>6. k = Len(stack)
    BY <1>1, <2>5 DEF PathInv
  <2> QED
    BY <1>1, <1>2, <2>5, <2>6
<1> QED
  BY <1>3, <1>4

\* The chain above a node of D is not started over.
LEMMA PlaceOfSpent ==
  ASSUME NEW D, D \cap Repeatable = {}, NEW c \in Chains,
         NEW i \in 1 .. Len(Kids[c]), Kids[c][i] \in D
  PROVE  c \notin FromStart /\ c \notin Repeatable
BY RunAgain

LEMMA PathKept ==
  ASSUME PathInv, stack \in Seq(Frame), stack # <<>>, NEW f \in Frame,
         stack' = Append(Below, f), f.node = Top.node
  PROVE  PathInv'
<1>1. /\ Len(stack) \in Nat \ {0} /\ Len(stack') = Len(stack)
      /\ stack'[Len(stack)].node = stack[Len(stack)].node
      /\ \A k \in 1 .. Len(stack) - 1 : stack'[k] = stack[k]
  BY AfterReplaced
<1>2. \A k \in 1 .. Len(stack) : stack'[k].node = stack[k].node
  BY <1>1
<1>3. stack'[1].node = Root
  BY <1>1, <1>2 DEF PathInv
<1>4. \A k \in 1 .. Len(stack') - 1 : stack'[k + 1].node = Element(stack'[k])
  BY <1>1, <1>2 DEF PathInv
<1>5. \A j, k \in 1 .. Len(stack') : stack'[j].node = stack'[k].node => j = k
  BY <1>1, <1>2 DEF PathInv
<1> QED
  BY <1>3, <1>4, <1>5 DEF PathInv

LEMMA PathPopped ==
  ASSUME PathInv, stack \in Seq(Frame), stack # <<>>, stack' = Below
  PROVE  PathInv'
<1>1. /\ Len(stack) \in Nat \ {0} /\ Len(stack') = Len(stack) - 1
      /\ \A k \in 1 .. Len(stack) - 1 : stack'[k] = stack[k]
  BY AfterPopped
<1>2. stack' # <<>> => stack'[1].node = Root
  <2> SUFFICES ASSUME stack' # <<>> PROVE stack'[1].node = Root
    OBVIOUS
  <2>1. Below \in Seq(Frame)
    BY FramesBelow
  <2>2. Len(stack') # 0
    BY <2>1
  <2> QED
    BY <1>1, <2>2 DEF PathInv
<1>3. \A k \in 1 .. Len(stack') - 1 : stack'[k + 1].node = Element(stack'[k])
  BY <1>1 DEF PathInv
<1>4. \A j, k \in 1 .. Len(stack') : stack'[j].node = stack'[k].node => j = k
  BY <1>1 DEF PathInv
<1> QED
  BY <1>2, <1>3, <1>4 DEF PathInv

LEMMA PathPushed ==
  ASSUME IInv, EachOnce, PathInv, Element(Top) # Root, NEW f, NEW g, Descends(f, g)
  PROVE  PathInv'
<1>1. stack \in Seq(Frame) /\ stack # <<>> /\ Top \in Frame /\ FrameInv(Top)
  BY TopFrame DEF IInv, StackInv, Descends, RunChain, Active
<1>2. /\ f \in Frame /\ g \in Frame /\ stack' = Append(Append(Below, f), g)
      /\ f.node = Top.node /\ f.pos = Top.pos /\ g.node = Element(Top)
      /\ Top.pos < End(Top)
  BY DEF Descends, StartPass
<1>3. /\ Len(stack) \in Nat \ {0} /\ Len(stack') = Len(stack) + 1
      /\ stack'[Len(stack) + 1] = g /\ stack'[Len(stack)] = f
      /\ Top = stack[Len(stack)]
      /\ \A k \in 1 .. Len(stack) - 1 : stack'[k] = stack[k]
  BY <1>1, <1>2, AfterPushed
<1> DEFINE L == Len(stack)
<1> HIDE DEF L
<1>4. \A k \in 1 .. L : stack'[k].node = stack[k].node /\ Element(stack'[k]) = Element(stack[k])
  BY <1>2, <1>3 DEF L, Element
<1>5. ASSUME NEW k \in 1 .. L, stack[k].node = Element(Top)
      PROVE  FALSE
  <2>1. k # 1
    BY <1>1, <1>5 DEF PathInv
  <2>2. k - 1 \in 1 .. Len(stack) - 1 /\ k - 1 \in 1 .. Len(stack)
        /\ k = (k - 1) + 1 /\ k - 1 < Len(stack)
    BY <1>3, <2>1 DEF L
  <2>3. stack[k].node = Element(stack[k - 1])
    BY <2>2 DEF PathInv
  <2>4. Calling(stack[k - 1]) /\ FrameInv(stack[k - 1]) /\ stack[k - 1] \in Frame
    BY <1>1, <2>2 DEF IInv, StackInv
  <2>5. /\ stack[k - 1].node \in Chains
        /\ stack[k - 1].pos + 1 \in 1 .. Len(Kids[stack[k - 1].node])
        /\ Element(stack[k - 1]) = Kids[stack[k - 1].node][stack[k - 1].pos + 1]
    BY <2>4, ElementPlace DEF Calling
  <2>6. /\ Top.node \in Chains /\ Top.pos + 1 \in 1 .. Len(Kids[Top.node])
        /\ Element(Top) = Kids[Top.node][Top.pos + 1]
    BY <1>1, <1>2, ElementPlace
  <2>7. stack[k - 1].node = Top.node
    <3>1. Kids[stack[k - 1].node][stack[k - 1].pos + 1] = Kids[Top.node][Top.pos + 1]
      BY <1>5, <2>3, <2>5, <2>6
    <3>2. ASSUME NEW c \in Chains, NEW d \in Chains, NEW i \in 1 .. Len(Kids[c]),
                 NEW j \in 1 .. Len(Kids[d]), Kids[c][i] = Kids[d][j]
          PROVE  c = d
      BY <3>2 DEF EachOnce
    <3> QED
      BY <2>5, <2>6, <3>1, <3>2
  <2>8. Len(stack) \in 1 .. Len(stack)
    BY <1>3
  <2>9. k - 1 = Len(stack)
    BY <1>3, <2>2, <2>7, <2>8 DEF PathInv
  <2> QED
    BY <2>2, <2>9
<1>6. stack'[1].node = Root
  BY <1>1, <1>3, <1>4 DEF L, PathInv
<1>7. \A k \in 1 .. Len(stack') - 1 : stack'[k + 1].node = Element(stack'[k])
  <2> SUFFICES ASSUME NEW k \in 1 .. L
               PROVE  stack'[k + 1].node = Element(stack'[k])
    BY <1>3 DEF L
  <2>1. CASE k = L
    <3>1. Element(stack'[k]) = Element(Top)
      BY <1>3, <1>4, <2>1 DEF L
    <3> QED
      BY <1>2, <1>3, <2>1, <3>1 DEF L
  <2>2. CASE k # L
    <3>1. k \in 1 .. Len(stack) - 1 /\ k + 1 \in 1 .. L
      BY <1>3, <2>2 DEF L
    <3> QED
      BY <1>4, <3>1 DEF PathInv
  <2> QED
    BY <2>1, <2>2
<1>8. \A j, k \in 1 .. Len(stack') : stack'[j].node = stack'[k].node => j = k
  <2> SUFFICES ASSUME NEW j \in 1 .. L + 1, NEW k \in 1 .. L + 1,
                      stack'[j].node = stack'[k].node
               PROVE  j = k
    BY <1>3 DEF L
  <2>1. L \in Nat
    BY <1>3 DEF L
  <2>2. stack'[L + 1].node = Element(Top)
    BY <1>2, <1>3 DEF L
  <2>3. CASE j \in 1 .. L /\ k \in 1 .. L
    BY <1>4, <2>3 DEF PathInv, L
  <2>4. CASE j = L + 1 /\ k \in 1 .. L
    BY <1>4, <1>5, <2>2, <2>4
  <2>5. CASE j \in 1 .. L /\ k = L + 1
    BY <1>4, <1>5, <2>2, <2>5
  <2> QED
    BY <2>1, <2>3, <2>4, <2>5
<1> QED
  BY <1>6, <1>7, <1>8 DEF PathInv


\* A move within the innermost frame.
LEMMA MoveSpent ==
  ASSUME IInv, stack # <<>>, NEW D \in SUBSET Nodes, SpentInv(D),
         NEW f, Moved(f), Turns(f) \/ Takes(f)
  PROVE  SpentInv(D)'
<1>1. stack \in Seq(Frame) /\ stack # <<>> /\ Top \in Frame
  BY TopFrame DEF IInv, StackInv
<1>2. /\ f \in Frame /\ f.node = Top.node /\ stack' = Append(Below, f)
      /\ ok' = ok /\ f.pos \in Nat /\ Top.pos \in Nat /\ f.pos >= Top.pos
      /\ (Answered => f.pos > Top.pos) /\ ret' = NoStatus
  <2>1. f \in Frame /\ f.pos \in Nat /\ Top.pos \in Nat
    BY <1>1 DEF Moved, Frame
  <2>2. f.pos >= Top.pos /\ (Answered => f.pos > Top.pos)
    BY <2>1 DEF Turns, Takes, Answered, NoStatus, FCSFatal, FCSSuccess, FCSRetry
  <2> QED
    BY <2>1, <2>2 DEF Moved, Turns, Takes
<1>3. /\ Len(stack) \in Nat \ {0} /\ Len(stack') = Len(stack)
      /\ stack'[Len(stack)] = f /\ Top = stack[Len(stack)]
      /\ \A k \in 1 .. Len(stack) - 1 : stack'[k] = stack[k]
  BY <1>1, <1>2, AfterReplaced
<1>4. ASSUME NEW c \in Chains, NEW i \in 1 .. Len(Kids[c]), Behind(D, c, i)
      PROVE  Behind(D, c, i)'
  <2>1. CASE c \in D
    BY <2>1 DEF Behind
  <2>2. CASE c \notin D
    <3>1. PICK k \in 1 .. Len(stack) :
            /\ stack[k].node = c
            /\ \/ i <= stack[k].pos
               \/ k = Len(stack) /\ Answered /\ i = stack[k].pos + 1
      BY <1>4, <2>2 DEF Behind
    <3>2. stack'[k].node = c /\ i <= stack'[k].pos
      <4>1. CASE k = Len(stack)
        BY <1>2, <1>3, <3>1, <4>1
      <4>2. CASE k # Len(stack)
        BY <1>3, <3>1, <4>2
      <4> QED
        BY <4>1, <4>2
    <3> QED
      BY <1>3, <3>1, <3>2 DEF Behind
  <2> QED
    BY <2>1, <2>2
<1>5. \A k \in 1 .. Len(stack') : stack'[k].node \notin D
  BY <1>2, <1>3 DEF SpentInv
<1>6. \A n \in D : n = Root \/ \E c \in Chains : \E i \in 1 .. Len(Kids[c]) :
                                 Kids[c][i] = n /\ Behind(D, c, i)'
  BY <1>4 DEF SpentInv
<1> QED
  BY <1>2, <1>5, <1>6 DEF SpentInv

\* A chain that starts over.
LEMMA StartSpent ==
  ASSUME IInv, AskedInv, NEW D \in SUBSET Nodes, SpentInv(D), NEW f, Starts(f)
  PROVE  SpentInv(D)'
<1>1. stack \in Seq(Frame) /\ stack # <<>> /\ Top \in Frame /\ ~Answered
  BY TopFrame DEF IInv, StackInv, Starts, PassFails, AtEnd, Active, Answered, NoStatus,
       FCSFatal, FCSSuccess
<1>2. /\ f \in Frame /\ f.node = Top.node /\ stack' = Append(Below, f)
      /\ ok' = ok /\ Top.status >= FCSRetry
  BY DEF Starts, StartPass
<1>3. /\ Len(stack) \in Nat \ {0} /\ Len(stack') = Len(stack)
      /\ stack'[Len(stack)] = f /\ Top = stack[Len(stack)]
      /\ \A k \in 1 .. Len(stack) - 1 : stack'[k] = stack[k]
  BY <1>1, <1>2, AfterReplaced
<1>4. Top.node \in FromStart
  <2>1. Len(stack) \in 1 .. Len(stack)
    BY <1>3
  <2> QED
    BY <1>2, <1>3, <2>1 DEF AskedInv, Asked
<1>5. ASSUME NEW c \in Chains, NEW i \in 1 .. Len(Kids[c]), Kids[c][i] \in D,
             Behind(D, c, i)
      PROVE  Behind(D, c, i)'
  <2>1. c # Top.node
    BY <1>4, <1>5, PlaceOfSpent DEF SpentInv
  <2>2. CASE c \in D
    BY <2>2 DEF Behind
  <2>3. CASE c \notin D
    <3>1. PICK k \in 1 .. Len(stack) : stack[k].node = c /\ i <= stack[k].pos
      BY <1>1, <1>5, <2>3 DEF Behind
    <3>2. k # Len(stack)
      BY <1>3, <2>1, <3>1
    <3>3. stack'[k] = stack[k] /\ k \in 1 .. Len(stack')
      BY <1>3, <3>2
    <3> QED
      BY <3>1, <3>3 DEF Behind
  <2> QED
    BY <2>2, <2>3
<1>6. \A k \in 1 .. Len(stack') : stack'[k].node \notin D
  BY <1>2, <1>3 DEF SpentInv
<1>7. \A n \in D : n = Root \/ \E c \in Chains : \E i \in 1 .. Len(Kids[c]) :
                                 Kids[c][i] = n /\ Behind(D, c, i)'
  BY <1>5 DEF SpentInv
<1> QED
  BY <1>2, <1>6, <1>7 DEF SpentInv

\* The call of a chain.
LEMMA DescendSpent ==
  ASSUME IInv, NEW D \in SUBSET Nodes, SpentInv(D), Element(Top) \notin D,
         NEW f, NEW g, Descends(f, g)
  PROVE  SpentInv(D)'
<1>1. stack \in Seq(Frame) /\ stack # <<>> /\ Top \in Frame /\ ~Answered
  BY TopFrame DEF IInv, StackInv, Descends, RunChain, Active, Answered, NoStatus,
       FCSFatal, FCSSuccess
<1>2. /\ f \in Frame /\ g \in Frame /\ stack' = Append(Append(Below, f), g)
      /\ f.node = Top.node /\ f.pos = Top.pos /\ g.node = Element(Top) /\ ok' = ok
  BY DEF Descends, StartPass
<1>3. /\ Len(stack) \in Nat \ {0} /\ Len(stack') = Len(stack) + 1
      /\ stack'[Len(stack) + 1] = g /\ stack'[Len(stack)] = f
      /\ Top = stack[Len(stack)]
      /\ \A k \in 1 .. Len(stack) - 1 : stack'[k] = stack[k]
  BY <1>1, <1>2, AfterPushed
<1>4. \A k \in 1 .. Len(stack) :
        stack'[k].node = stack[k].node /\ stack'[k].pos = stack[k].pos
  BY <1>2, <1>3
<1>5. ASSUME NEW c \in Chains, NEW i \in 1 .. Len(Kids[c]), Behind(D, c, i)
      PROVE  Behind(D, c, i)'
  BY <1>1, <1>3, <1>4, <1>5 DEF Behind
<1>6. \A k \in 1 .. Len(stack') : stack'[k].node \notin D
  BY <1>2, <1>3, <1>4 DEF SpentInv
<1>7. \A n \in D : n = Root \/ \E c \in Chains : \E i \in 1 .. Len(Kids[c]) :
                                 Kids[c][i] = n /\ Behind(D, c, i)'
  BY <1>5 DEF SpentInv
<1> QED
  BY <1>2, <1>6, <1>7 DEF SpentInv


\* The call of a leaf: if that was for good, it is dealt with.
LEMMA LeafSpent ==
  ASSUME IInv, RunLeaf, NEW D \in SUBSET Nodes, SpentInv(D), Element(Top) \notin D,
         NEW f, Moved(f), Calls(f)
  PROVE  \E E \in SUBSET Nodes : SpentInv(E)'
<1>1. /\ stack \in Seq(Frame) /\ stack # <<>> /\ Top \in Frame /\ ~Answered
      /\ FrameInv(Top) /\ ok \in [Leaves -> 0 .. 2]
  BY TopFrame DEF IInv, TypeOK, StackInv, RunLeaf, Active, Answered, NoStatus,
       FCSFatal, FCSSuccess
<1>2. /\ f \in Frame /\ f.node = Top.node /\ stack' = Append(Below, f)
      /\ f.pos = Top.pos /\ Top.pos < End(Top)
  BY DEF Moved, Calls
<1>3. /\ Len(stack) \in Nat \ {0} /\ Len(stack') = Len(stack)
      /\ stack'[Len(stack)] = f /\ Top = stack[Len(stack)]
      /\ \A k \in 1 .. Len(stack) - 1 : stack'[k] = stack[k]
  BY <1>1, <1>2, AfterReplaced
<1>4. PICK l \in Leaves : l = Element(Top)
  BY DEF RunLeaf
<1>5. /\ ok' \in [Leaves -> 0 .. 2]
      /\ \A m \in Leaves \ {l} : ok'[m] = ok[m]
      /\ ok'[l] = ok[l] \/ (ok'[l] = ok[l] + 1 /\ ret' = FCSSuccess)
  <2>1. PICK s \in Answers[Element(Top)] :
          /\ ret' = s
          /\ ok' = IF s = FCSSuccess /\ ok[Element(Top)] < 2
                   THEN [ok EXCEPT ![Element(Top)] = @ + 1] ELSE ok
    BY DEF RunLeaf
  <2> QED
    BY <1>1, <1>4, <2>1
<1>6. \A k \in 1 .. Len(stack) :
        stack'[k].node = stack[k].node /\ stack'[k].pos = stack[k].pos
  BY <1>2, <1>3
<1>7. \A k \in 1 .. Len(stack') : stack'[k].node \notin D \cup {l}
  <2> SUFFICES ASSUME NEW k \in 1 .. Len(stack)
               PROVE  stack[k].node \notin D \cup {l}
    BY <1>3, <1>6
  <2>1. stack[k] \in Frame
    BY <1>1
  <2>2. stack[k].node \in Chains
    BY <2>1 DEF Frame
  <2> QED
    BY <2>2, TreeAssumption DEF SpentInv
<1>8. ASSUME NEW E, D \subseteq E, NEW c \in Chains, NEW i \in 1 .. Len(Kids[c]),
             Behind(D, c, i)
      PROVE  Behind(E, c, i)'
  BY <1>1, <1>3, <1>6, <1>8 DEF Behind
<1>9. l \in Repeatable \/ ok[l] = 0
  BY <1>1, <1>4 DEF SpentInv
<1>10. CASE Answered' /\ l \notin Repeatable
  <2> DEFINE E == D \cup {l}
  <2>1. E \in SUBSET Nodes /\ E \cap Repeatable = {}
    BY <1>10 DEF Nodes, SpentInv
  <2>2. \A m \in Leaves \ Repeatable : ok'[m] <= 1 /\ (ok'[m] # 0 => m \in E)
    BY <1>1, <1>5, <1>9 DEF SpentInv
  <2>3. /\ Top.node \in Chains /\ Top.pos \in Nat
        /\ Top.pos + 1 \in 1 .. Len(Kids[Top.node])
        /\ l = Kids[Top.node][Top.pos + 1]
    BY <1>1, <1>2, <1>4, ElementPlace
  <2>4. PICK n \in Chains, p \in Nat : n = Top.node /\ p = Top.pos
    BY <2>3
  <2>5. Behind(E, n, p + 1)'
    <3>1. Len(stack) \in 1 .. Len(stack')
      BY <1>3
    <3>2. stack'[Len(stack)].node = n /\ stack'[Len(stack)].pos = p
      BY <1>2, <1>3, <2>4
    <3> QED
      BY <1>3, <1>10, <3>1, <3>2 DEF Behind
  <2>6. \A m \in E : m = Root \/ \E c \in Chains : \E i \in 1 .. Len(Kids[c]) :
                                   Kids[c][i] = m /\ Behind(E, c, i)'
    <3> SUFFICES ASSUME NEW m \in E, m # Root
                 PROVE  \E c \in Chains : \E i \in 1 .. Len(Kids[c]) :
                          Kids[c][i] = m /\ Behind(E, c, i)'
      OBVIOUS
    <3>1. CASE m = l
      <4>1. p + 1 \in 1 .. Len(Kids[n]) /\ Kids[n][p + 1] = m
        BY <2>3, <2>4, <3>1
      <4> QED
        BY <2>5, <4>1
    <3>2. CASE m \in D
      <4>1. PICK c \in Chains : \E i \in 1 .. Len(Kids[c]) :
                                   Kids[c][i] = m /\ Behind(D, c, i)
        BY <3>2 DEF SpentInv
      <4>2. PICK i \in 1 .. Len(Kids[c]) : Kids[c][i] = m /\ Behind(D, c, i)
        BY <4>1
      <4>3. Behind(E, c, i)'
        BY <1>8, <4>2
      <4> QED
        BY <4>2, <4>3
    <3> QED
      BY <3>1, <3>2
  <2>7. SpentInv(E)'
    BY <1>7, <2>1, <2>2, <2>6 DEF SpentInv
  <2> QED
    BY <2>1, <2>7
<1>11. CASE l \in Repeatable \/ ~Answered'
  <2>1. \A m \in Leaves \ Repeatable : ok'[m] = ok[m]
    BY <1>5, <1>11 DEF Answered
  <2>2. \A n \in D : n = Root \/ \E c \in Chains : \E i \in 1 .. Len(Kids[c]) :
                                   Kids[c][i] = n /\ Behind(D, c, i)'
    BY <1>8 DEF SpentInv
  <2>3. SpentInv(D)'
    BY <1>7, <2>1, <2>2 DEF SpentInv
  <2> QED
    BY <2>3
<1> QED
  BY <1>10, <1>11

\* A chain returns: with what succeeded in it, it is dealt with.
LEMMA EndSpent ==
  ASSUME IInv, PathInv, stack # <<>>, NEW D \in SUBSET Nodes, SpentInv(D), Ends
  PROVE  \E E \in SUBSET Nodes : SpentInv(E)'
<1>1. stack \in Seq(Frame) /\ Top \in Frame /\ Answered' /\ ok' = ok
  BY TopFrame DEF IInv, StackInv, Ends
<1>2. /\ Len(stack) \in Nat \ {0} /\ Len(stack') = Len(stack) - 1
      /\ Top = stack[Len(stack)]
      /\ \A k \in 1 .. Len(stack) - 1 : stack'[k] = stack[k]
  BY <1>1, AfterPopped DEF Ends
<1>3. PICK r \in Chains : r = Top.node
  BY <1>1 DEF Frame
<1> DEFINE E == (D \cup {r}) \ Repeatable
<1>4. E \in SUBSET Nodes /\ E \cap Repeatable = {} /\ D \subseteq E
  BY DEF Nodes, SpentInv
<1>5. \A k \in 1 .. Len(stack') : stack'[k].node \notin E
  <2> SUFFICES ASSUME NEW k \in 1 .. Len(stack) - 1
               PROVE  stack[k].node \notin E
    BY <1>2
  <2>1. k \in 1 .. Len(stack) /\ Len(stack) \in 1 .. Len(stack) /\ k # Len(stack)
    BY <1>2
  <2>2. stack[k].node # r
    BY <1>2, <1>3, <2>1 DEF PathInv
  <2> QED
    BY <2>1, <2>2 DEF SpentInv
<1>6. ASSUME NEW c \in Chains, NEW i \in 1 .. Len(Kids[c]), Kids[c][i] \in D,
             Behind(D, c, i)
      PROVE  Behind(E, c, i)'
  <2>1. CASE c \in D
    BY <1>4, <2>1 DEF Behind
  <2>2. CASE c = r
    <3>1. c \in E
      BY <1>6, <2>2, PlaceOfSpent DEF SpentInv
    <3> QED
      BY <3>1 DEF Behind
  <2>3. CASE c \notin D /\ c # r
    <3>1. PICK k \in 1 .. Len(stack) :
            /\ stack[k].node = c
            /\ \/ i <= stack[k].pos
               \/ k = Len(stack) /\ Answered /\ i = stack[k].pos + 1
      BY <1>6, <2>3 DEF Behind
    <3>2. k \in 1 .. Len(stack) - 1
      BY <1>2, <1>3, <2>3, <3>1
    <3>3. stack'[k].node = c /\ i <= stack'[k].pos /\ k \in 1 .. Len(stack')
      BY <1>2, <3>1, <3>2
    <3> QED
      BY <3>3 DEF Behind
  <2> QED
    BY <2>1, <2>2, <2>3
<1>7. r = Root \/ \E c \in Chains : \E i \in 1 .. Len(Kids[c]) :
                    Kids[c][i] = r /\ Behind(E, c, i)'
  <2>1. CASE Len(stack) = 1
    BY <1>2, <1>3, <2>1 DEF PathInv
  <2>2. CASE Len(stack) # 1
    <3>1. PICK k \in 1 .. Len(stack) - 1 : k + 1 = Len(stack)
      BY <1>2, <2>2
    <3>2. k \in 1 .. Len(stack) /\ k < Len(stack)
      BY <1>2, <3>1
    <3>3. r = Element(stack[k])
      BY <1>2, <1>3, <3>1 DEF PathInv
    <3>4. Calling(stack[k]) /\ FrameInv(stack[k]) /\ stack[k] \in Frame
      BY <1>1, <3>2 DEF IInv, StackInv
    <3>5. /\ stack[k].node \in Chains /\ stack[k].pos \in Nat
          /\ stack[k].pos + 1 \in 1 .. Len(Kids[stack[k].node])
          /\ r = Kids[stack[k].node][stack[k].pos + 1]
      BY <3>3, <3>4, ElementPlace DEF Calling
    <3>6. PICK n \in Chains, p \in Nat : n = stack[k].node /\ p = stack[k].pos
      BY <3>5
    <3>7. /\ stack'[k].node = n /\ stack'[k].pos = p
          /\ k \in 1 .. Len(stack') /\ k = Len(stack')
      BY <1>2, <3>1, <3>6
    <3>8. Behind(E, n, p + 1)'
      BY <1>1, <3>7 DEF Behind
    <3>9. p + 1 \in 1 .. Len(Kids[n]) /\ Kids[n][p + 1] = r
      BY <3>5, <3>6
    <3> QED
      BY <3>8, <3>9
  <2> QED
    BY <2>1, <2>2
<1>8. ASSUME NEW m \in E, m # Root
      PROVE  \E c \in Chains : \E i \in 1 .. Len(Kids[c]) :
               Kids[c][i] = m /\ Behind(E, c, i)'
  <2>1. CASE m = r
    BY <1>7, <1>8, <2>1
  <2>2. CASE m # r
    <3>1. m \in D
      BY <1>8, <2>2
    <3>2. PICK c \in Chains : \E i \in 1 .. Len(Kids[c]) :
                                Kids[c][i] = m /\ Behind(D, c, i)
      BY <1>8, <3>1 DEF SpentInv
    <3>3. PICK i \in 1 .. Len(Kids[c]) : Kids[c][i] = m /\ Behind(D, c, i)
      BY <3>2
    <3>4. Behind(E, c, i)'
      BY <1>6, <3>1, <3>3
    <3> QED
      BY <3>3, <3>4
  <2> QED
    BY <2>1, <2>2
<1>9. \A l \in Leaves \ Repeatable : ok'[l] <= 1 /\ (ok'[l] # 0 => l \in E)
  BY <1>1, <1>4 DEF SpentInv
<1> HIDE DEF E
<1>10. SpentInv(E)'
  BY <1>4, <1>5, <1>8, <1>9 DEF SpentInv
<1> QED
  BY <1>4, <1>10

LEMMA OnceStep ==
  ASSUME IInv, AskedInv, EachOnce, OnceInv, Next
  PROVE  OnceInv'
<1>1. stack \in Seq(Frame) /\ stack # <<>> /\ Top \in Frame
  BY StepShapes
<1>2. PathInv
  BY DEF OnceInv
<1>3. PICK D \in SUBSET Nodes : SpentInv(D)
  BY DEF OnceInv
<1>4. CASE Ends
  BY <1>1, <1>2, <1>3, <1>4, PathPopped, EndSpent DEF Ends, OnceInv
<1>5. ASSUME NEW f, Starts(f)
      PROVE  OnceInv'
  <2>1. f \in Frame /\ f.node = Top.node /\ stack' = Append(Below, f)
    BY <1>5 DEF Starts, StartPass
  <2>2. SpentInv(D)'
    BY <1>3, <1>5, StartSpent
  <2> QED
    BY <1>1, <1>2, <2>1, <2>2, PathKept DEF OnceInv
<1>6. ASSUME NEW f, NEW g, Descends(f, g)
      PROVE  OnceInv'
  <2>1. Element(Top) \notin D /\ Element(Top) # Root
    BY <1>2, <1>3, <1>6, NotYet DEF Descends, RunChain
  <2>2. SpentInv(D)'
    BY <1>3, <1>6, <2>1, DescendSpent
  <2>3. PathInv'
    BY <1>2, <1>6, <2>1, PathPushed
  <2> QED
    BY <2>2, <2>3 DEF OnceInv
<1>7. ASSUME RunLeaf, NEW f, Moved(f), Calls(f)
      PROVE  OnceInv'
  <2>1. Element(Top) \notin D
    BY <1>2, <1>3, <1>7, NotYet DEF RunLeaf
  <2>2. \E E \in SUBSET Nodes : SpentInv(E)'
    BY <1>3, <1>7, <2>1, LeafSpent
  <2>3. PathInv'
    BY <1>1, <1>2, <1>7, PathKept DEF Moved
  <2> QED
    BY <2>2, <2>3 DEF OnceInv
<1>8. ASSUME NEW f, Moved(f), Turns(f) \/ Takes(f)
      PROVE  OnceInv'
  <2>1. SpentInv(D)'
    BY <1>1, <1>3, <1>8, MoveSpent
  <2>2. PathInv'
    BY <1>1, <1>2, <1>8, PathKept DEF Moved
  <2> QED
    BY <2>1, <2>2 DEF OnceInv
<1> QED
  BY <1>4, <1>5, <1>6, <1>7, <1>8, StepShapes

\* In a tree in which every parametrization hangs once, what succeeded and is in
\* no chain that may start over is not simulated again, however the retries of
\* the chains are nested, and nothing is after FCSFatal.
THEOREM NothingRunsAgain ==
  ASSUME EachOnce
  PROVE  Spec => []NothingOnceTooOften
<1>1. Init => OnceInv
  <2> SUFFICES ASSUME Init PROVE OnceInv
    OBVIOUS
  <2>1. stack = <<StartPass(Root, 0, 0, FCSSuccess)>> /\ ok = [l \in Leaves |-> 0]
    BY DEF Init
  <2>2. Len(stack) = 1 /\ stack[1].node = Root
    BY <2>1 DEF StartPass
  <2>3. PathInv
    BY <2>2 DEF PathInv
  <2>4. SpentInv({})
    BY <2>1 DEF SpentInv
  <2> QED
    BY <2>3, <2>4 DEF OnceInv
<1>2. IInv /\ AskedInv /\ OnceInv /\ [Next]_vars => OnceInv'
  <2>1. ASSUME OnceInv, UNCHANGED vars PROVE OnceInv'
    <3>1. PathInv'
      BY <2>1 DEF vars, OnceInv, PathInv
    <3>2. PICK D \in SUBSET Nodes : SpentInv(D)
      BY <2>1 DEF OnceInv
    <3>3. \A c, i : Behind(D, c, i) <=> Behind(D, c, i)'
      BY <2>1 DEF vars, Behind, Answered
    <3>4. SpentInv(D)'
      BY <2>1, <3>2, <3>3 DEF vars, SpentInv
    <3> QED
      BY <3>1, <3>4 DEF OnceInv
  <2>2. EachOnce
    OBVIOUS
  <2> QED
    BY <2>1, <2>2, OnceStep
<1>3. OnceInv => AppliedOnce
  BY DEF OnceInv, SpentInv, AppliedOnce
<1>4. Spec => []AppliedOnce
  BY Invariant, AskedAlways, <1>1, <1>2, <1>3, PTL DEF Spec
<1> QED
  BY <1>4, FatalEndsTheShower, PTL DEF NothingOnceTooOften

-----------------------------------------------------------------------------
(* The fluctuation chain.                                                    *)

\* The values of the numbers the loop keeps.
FluctType ==
  /\ pc \in {"setup", "element", "returned"}
  /\ result \in {"none", "Success", "Fatal"}
  /\ sigma2 \in Nat \X (Nat \ {0})
  /\ pos \in 1 .. Len(Chain) + 1
  /\ hitE \in Int /\ sumE \in Int /\ sumE2 \in Int /\ deposit \in Int
  /\ error2 \in Int \X Int

\* The sum of the completed hits is what the cells hold, but for the hit the
\* last element has just placed.
SumIsDeposit ==
  pc = "element" =>
    deposit = IF pos > Len(Chain) THEN sumE + hitE ELSE sumE

\* While hits are drawn the fluctuation has not come down far enough.
NotYetReached ==
  /\ error2[2] > 0
  /\ pc = "setup" => sumE = 0 /\ sumE2 = 0 /\ deposit = 0
                     /\ error2 = <<2 * MaxSigma, 1>>
  /\ pc = "element" => Exceeds(error2, sigma2) /\ ~Exceeds(MinSigma, sigma2)
  /\ pc # "returned" => result = "none"

FInv == FluctType /\ SumIsDeposit /\ NotYetReached /\ FluctuationReached

-----------------------------------------------------------------------------
LEMMA FluctLen == Len(Chain) \in Nat /\ Len(Chain) > 0
  BY FluctAssumption, MapLast

\* A square that is not the square of zero is positive.
LEMMA SquarePositive == ASSUME NEW x \in Int, x # 0 PROVE x * x \in Int /\ x * x > 0
<1>1. CASE x > 0
  BY <1>1
<1>2. CASE x < 0
  BY <1>2
<1>3. QED
  BY <1>1, <1>2

\* The fluctuation the loop starts with exceeds every one it goes on for.
LEMMA StartExceeds ==
  ASSUME NEW s \in Nat \X (Nat \ {0}), Exceeds(<<MaxSigma, 1>>, s)
  PROVE  Exceeds(<<2 * MaxSigma, 1>>, s)
<1> DEFINE p == MaxSigma * s[2]
<1>1. MaxSigma \in Nat /\ s[1] \in Nat /\ s[2] \in Nat
  BY FluctAssumption
<1>2. p \in Nat
  BY <1>1
<1>3. p > s[1]
  BY <1>1 DEF Exceeds
<1>4. (2 * MaxSigma) * s[2] = p + p
  BY <1>1
<1>5. p + p > s[1]
  BY <1>1, <1>2, <1>3
<1>6. s[1] * 1 = s[1] \/ 1 * s[1] = s[1]
  BY <1>1
<1>7. QED
  BY <1>1, <1>4, <1>5, <1>6 DEF Exceeds

\* The smallest value asked for is one, not below itself, and a fluctuation the
\* loop can start from.
LEMMA ReachableType ==
  ASSUME NEW s \in Nat \X (Nat \ {0}), Exceeds(<<MaxSigma, 1>>, s)
  PROVE  /\ Reachable(s) \in Nat \X (Nat \ {0})
         /\ Exceeds(<<MaxSigma, 1>>, Reachable(s))
         /\ ~Exceeds(MinSigma, Reachable(s))
<1>1. /\ MinSigma \in Nat \X (Nat \ {0}) /\ MaxSigma \in Nat
      /\ MinSigma[1] < MaxSigma * MinSigma[2]
  BY FluctAssumption
<1>2. Exceeds(<<MaxSigma, 1>>, MinSigma)
  <2>1. MinSigma[1] \in Nat /\ MinSigma[2] \in Nat /\ MaxSigma * MinSigma[2] \in Nat
    BY <1>1
  <2>2. MinSigma[1] * 1 = MinSigma[1]
    BY <2>1
  <2>3. QED
    BY <1>1, <2>1, <2>2 DEF Exceeds
<1>3. ~Exceeds(MinSigma, MinSigma)
  <2>1. PICK x \in Int : x = MinSigma[1] * MinSigma[2]
    BY <1>1
  <2>2. ~(MinSigma[1] * MinSigma[2] > MinSigma[1] * MinSigma[2])
    BY <2>1
  <2>3. QED
    BY <2>2 DEF Exceeds
<1>4. CASE Exceeds(MinSigma, s)
  BY <1>1, <1>2, <1>3, <1>4 DEF Reachable
<1>5. CASE ~Exceeds(MinSigma, s)
  BY <1>5 DEF Reachable
<1>6. QED
  BY <1>4, <1>5

LEMMA NextAttemptType ==
  ASSUME NextAttempt
  PROVE  /\ pc' = "element" /\ pos' = 1 /\ pos' \in 1 .. Len(Chain) + 1
         /\ ~(pos' > Len(Chain)) /\ hitE' \in Int /\ result' = result
  BY FluctAssumption, FluctLen DEF NextAttempt

LEMMA InitFInv == FluctInit => FInv
<1> SUFFICES ASSUME FluctInit PROVE FInv
  OBVIOUS
<1>1. MaxSigma \in Nat /\ 2 * MaxSigma \in Int
  BY FluctAssumption
<1>2. error2 = <<2 * MaxSigma, 1>> /\ error2 \in Int \X Int /\ error2[2] = 1
  BY <1>1 DEF FluctInit
<1>3. FluctType
  BY <1>2, FluctLen, FluctAssumption DEF FluctInit, FluctType
<1>4. QED
  BY <1>2, <1>3 DEF FluctInit, FInv, SumIsDeposit, NotYetReached, FluctuationReached

\* Only a completed hit changes the sums; what succeeds without one was empty.
LEMMA NextFInv == FInv /\ [FluctNext]_fluctVars => FInv'
<1> SUFFICES ASSUME FInv, [FluctNext]_fluctVars PROVE FInv'
  OBVIOUS
<1> USE FluctLen DEF FInv
<1>1. CASE Setup
  <2>1. /\ pc = "setup" /\ sumE = 0 /\ sumE2 = 0 /\ deposit = 0
        /\ error2 = <<2 * MaxSigma, 1>> /\ result = "none"
        /\ UNCHANGED <<sumE, sumE2, error2, ifail, deposit>>
    BY <1>1 DEF Setup, NotYetReached
  <2>2. CASE /\ FluctReturn("Success") \/ FluctReturn("Fatal")
             /\ UNCHANGED <<sigma2, pos, hitE>>
    BY <2>1, <2>2 DEF FluctReturn, FluctType, SumIsDeposit, NotYetReached, FluctuationReached
  <2>3. CASE /\ Exceeds(<<MaxSigma, 1>>, sigma2)
             /\ sigma2' = Reachable(sigma2) /\ NextAttempt
    <3>1. /\ sigma2' \in Nat \X (Nat \ {0})
          /\ Exceeds(<<MaxSigma, 1>>, sigma2')
          /\ ~Exceeds(MinSigma, sigma2')
      BY <2>3, ReachableType DEF FluctType
    <3>2. Exceeds(<<2 * MaxSigma, 1>>, sigma2')
      BY <3>1, StartExceeds
    <3>3. Exceeds(error2', sigma2') /\ ~Exceeds(MinSigma, sigma2')
      <4>1. error2' = <<2 * MaxSigma, 1>>
        BY <2>1
      <4> QED
        BY <3>1, <3>2, <4>1
    <3>4. QED
      BY <2>1, <2>3, <3>1, <3>3, NextAttemptType
      DEF FluctType, SumIsDeposit, NotYetReached, FluctuationReached
  <2>4. QED
    BY <1>1, <2>2, <2>3 DEF Setup
<1>2. CASE ElementSuccess
  <2>1. /\ pc = "element" /\ pos <= Len(Chain) /\ pos' = pos + 1
        /\ UNCHANGED <<pc, sigma2, sumE, sumE2, error2, ifail, result>>
        /\ deposit = sumE /\ result = "none"
    BY <1>2 DEF ElementSuccess, FluctType, SumIsDeposit, NotYetReached
  <2>2. hitE' \in Int /\ deposit' \in Int
    <3>1. hitE \in Int /\ deposit \in Int
      BY DEF FluctType
    <3>2. CASE UNCHANGED <<hitE, deposit>>
      BY <3>1, <3>2
    <3>3. CASE (\E w \in Weights : hitE' = w * hitE) /\ UNCHANGED deposit
      <4>1. PICK w \in Weights : hitE' = w * hitE
        BY <3>3
      <4>2. w \in Int
        BY FluctAssumption
      <4> QED
        BY <3>1, <3>3, <4>1, <4>2
    <3>4. CASE MatchCell
      BY <3>1, <3>4 DEF MatchCell, FarFromCell
    <3> QED
      BY <1>2, <3>2, <3>3, <3>4 DEF ElementSuccess
  <2>3. SumIsDeposit'
    <3>1. CASE pos = Len(Chain)
      <4>1. Chain[pos] \in {"map", "fcal"}
        BY <3>1, MapLast DEF FluctType
      <4>2. \/ deposit' = deposit + hitE /\ hitE' = hitE
            \/ deposit' = deposit /\ hitE' = 0
        BY <1>2, <4>1 DEF ElementSuccess, MatchCell, FarFromCell
      <4>3. QED
        BY <2>1, <3>1, <4>2 DEF SumIsDeposit, FluctType
    <3>2. CASE pos < Len(Chain)
      <4>1. Chain[pos] \notin {"map", "fcal"}
        BY <3>2, MapLast DEF FluctType
      <4>2. deposit' = deposit
        BY <1>2, <4>1 DEF ElementSuccess
      <4>3. QED
        BY <2>1, <3>2, <4>2 DEF SumIsDeposit, FluctType
    <3>3. QED
      BY <2>1, <3>1, <3>2 DEF FluctType
  <2>4. Exceeds(error2, sigma2)' /\ ~Exceeds(MinSigma, sigma2)'
    BY <2>1 DEF NotYetReached, Exceeds
  <2>5. QED
    BY <2>1, <2>2, <2>3, <2>4 DEF FluctType, NotYetReached, FluctuationReached
<1>3. CASE ElementFatal
  BY <1>3 DEF ElementFatal, FluctReturn, FluctType, SumIsDeposit, NotYetReached,
     FluctuationReached
<1>4. CASE ElementRetry
  <2>1. /\ pc = "element" /\ pos <= Len(Chain)
        /\ UNCHANGED <<sigma2, sumE, sumE2, error2, deposit>>
        /\ deposit = sumE /\ result = "none"
    BY <1>4 DEF ElementRetry, FluctType, SumIsDeposit, NotYetReached
  <2>2. CASE FluctReturn("Fatal") /\ UNCHANGED <<pos, hitE>>
    BY <2>1, <2>2 DEF FluctReturn, FluctType, SumIsDeposit, NotYetReached, FluctuationReached
  <2>3. CASE NextAttempt
    <3>1. Exceeds(error2, sigma2)' /\ ~Exceeds(MinSigma, sigma2)'
      BY <2>1 DEF NotYetReached, Exceeds
    <3>2. QED
      BY <2>1, <2>3, <3>1, NextAttemptType
      DEF FluctType, SumIsDeposit, NotYetReached, FluctuationReached
  <2>4. QED
    BY <1>4, <2>2, <2>3 DEF ElementRetry
<1>5. CASE HitDone
  <2>1. /\ pc = "element" /\ result = "none"
        /\ sumE' = sumE + hitE /\ sumE2' = sumE2 + hitE * hitE
        /\ error2' = Fluctuation(sumE', sumE2')
        /\ UNCHANGED <<sigma2, deposit>> /\ ~Exceeds(MinSigma, sigma2)
        /\ deposit = sumE' /\ sumE' \in Int /\ sumE2' \in Int
    <3>1. hitE * hitE \in Int
      BY DEF FluctType
    <3>2. QED
      BY <1>5, <3>1 DEF HitDone, FluctType, SumIsDeposit, NotYetReached
  <2>2. error2' \in Int \X Int /\ error2'[2] > 0
    BY <2>1, SquarePositive DEF Fluctuation, FluctType, NotYetReached
  <2>3. CASE Exceeds(error2', sigma2) /\ NextAttempt
    <3>1. Exceeds(error2, sigma2)' /\ ~Exceeds(MinSigma, sigma2)'
      BY <2>1, <2>3 DEF Exceeds
    <3>2. QED
      BY <2>1, <2>2, <2>3, <3>1, NextAttemptType
      DEF FluctType, SumIsDeposit, NotYetReached, FluctuationReached
  <2>4. CASE ~Exceeds(error2', sigma2) /\ FluctReturn("Success") /\ UNCHANGED <<pos, hitE>>
    \* A sum of zero would have left the fluctuation where it was.
    <3>1. sumE' # 0
      BY <2>1, <2>4 DEF Fluctuation, NotYetReached
    <3>2. error2' = <<sumE2', deposit' * deposit'>>
      BY <2>1, <3>1 DEF Fluctuation
    <3>3. /\ ~Exceeds(<<sumE2, deposit * deposit>>, sigma2)'
          /\ ~Exceeds(MinSigma, sigma2)'
      BY <2>1, <2>4, <3>2 DEF Exceeds
    <3>4. QED
      BY <2>1, <2>2, <2>4, <3>3
      DEF FluctReturn, FluctType, SumIsDeposit, NotYetReached, FluctuationReached
  <2>5. QED
    BY <1>5, <2>3, <2>4 DEF HitDone
<1>6. CASE UNCHANGED fluctVars
  BY <1>6 DEF fluctVars, FluctType, SumIsDeposit, NotYetReached, FluctuationReached, Exceeds
<1>7. QED
  BY <1>1, <1>2, <1>3, <1>4, <1>5, <1>6 DEF FluctNext

\* The fluctuation of the energy in the cells is down to what
\* get_sigma2_fluctuation() answered, or to 1e-8 where that is more, whenever
\* TFCSLateralShapeParametrizationFluctChain::simulate() succeeds on a layer
\* with energy, and the quotient it compares is always defined: for every chain
\* whose last element matches the hit to a cell, every answer (0, too), every
\* drawn energy and weight (negative ones, too), and every pattern of retries.
THEOREM Reached == FluctSpec => []FluctuationReached
<1>1. FluctInit => FInv
  BY InitFInv
<1>2. FInv /\ [FluctNext]_fluctVars => FInv'
  BY NextFInv
<1>3. FInv => FluctuationReached
  BY DEF FInv
<1>4. QED
  BY <1>1, <1>2, <1>3, PTL DEF FluctSpec
=============================================================================
