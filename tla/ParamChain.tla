---------------------------- MODULE ParamChain ------------------------------
(***************************************************************************)
(* The simulate() calls of a tree of parametrizations: plain chains         *)
(* (TFCSParametrizationChain), chains that select their elements by the     *)
(* particle (TFCSParametrizationPDGIDSelectChain) and chains that select    *)
(* one bin of elements (TFCSParametrizationBinnedChain).  Any element may   *)
(* ask to be simulated again; TFCSParametrizationChain::simulate_and_retry  *)
(* does so, or, in a chain with kRetryChainFromStart, hands the request to  *)
(* the loop of simulate(), which starts the chain over.                     *)
(*                                                                          *)
(* The call stack is explicit: one frame per active chain, which also holds *)
(* the locals of the simulate_and_retry() call it is in.                    *)
(***************************************************************************)
EXTENDS Integers, Sequences, FiniteSets

CONSTANTS
  Leaves,     \* the parametrizations that are no chains
  Chains,     \* the chains
  Root,       \* the chain the shower is simulated with
  Kind,       \* per chain: "plain", "pdgid" or "binned"
  Kids,       \* per chain, m_chain
  FromStart,  \* the chains with kRetryChainFromStart
  OnlyOne,    \* the PDGID chains with kSimulateOnlyOnePDGID
  Matching,   \* the elements whose is_match_pdgid() accepts the particle
  BinStart,   \* per binned chain, m_bin_start
  BinsDrawn,  \* per binned chain, the values get_bin() may return
  Answers     \* per leaf, the statuses its simulate() may return

FCSFatal == 0
FCSSuccess == 1
FCSRetry == 2
NoStatus == -1

Nodes == Leaves \cup Chains
Statuses == {s \in Int : s >= FCSFatal}

ASSUME TreeAssumption ==
  /\ Leaves \cap Chains = {}
  /\ Root \in Chains
  /\ Kind \in [Chains -> {"plain", "pdgid", "binned"}]
  /\ Kids \in [Chains -> Seq(Nodes)]
  /\ FromStart \subseteq Chains /\ OnlyOne \subseteq Chains
  /\ Matching \subseteq Nodes
ASSUME BinAssumption ==
  /\ BinStart \in [Chains -> Seq(Nat)]
  /\ \A c \in Chains :
       /\ BinStart[c] # <<>>
       /\ \A i \in 1 .. Len(BinStart[c]) : BinStart[c][i] <= Len(Kids[c])
       /\ \A i, j \in 1 .. Len(BinStart[c]) :
            i <= j => BinStart[c][i] <= BinStart[c][j]
  /\ BinsDrawn \in [Chains -> SUBSET Int]
ASSUME AnswerAssumption ==
  /\ Answers \in [Leaves -> SUBSET Int]
  /\ \A l \in Leaves : \A s \in Answers[l] : s >= FCSFatal

VARIABLES
  stack,  \* the active simulate() calls, the innermost last
  ret,    \* the status a call has just returned, or NoStatus
  ok,     \* history: per leaf, how often its simulate() succeeded, up to 2
  fatal   \* history: a leaf returned FCSFatal

vars == <<stack, ret, ok, fatal>>

\* The locals of one simulate() call.
Frame ==
  [node: Chains,
   pass: Nat, retry: Nat,                \* i and retry of its loop
   status: Statuses,
   part: {"before", "bin", "last"},      \* which of its element loops it is in
   bin: Int, pos: Nat,                   \* the bin selected, and ichain
   attempt: Nat, granted: Nat,           \* simulate_and_retry()'s i and retry
   done: SUBSET Nat,                     \* history: elements that succeeded
   called: BOOLEAN]                      \* history: this pass ran an element

-----------------------------------------------------------------------------
NBins(n) == Len(BinStart[n]) - 1

\* The elements the loop of a part runs over are From, ..., To - 1.
From(n, part, bin) ==
  CASE part = "before" -> 0
    [] part = "bin" -> BinStart[n][IF bin < 0 THEN 1 ELSE bin + 1]
    [] part = "last" /\ Kind[n] = "binned" -> BinStart[n][Len(BinStart[n])]
    [] part = "last" /\ Kind[n] # "binned" -> 0
To(n, part, bin) ==
  CASE part = "before" -> BinStart[n][1]
    [] part = "bin" -> BinStart[n][IF bin < 0 THEN 1 ELSE bin + 2]
    [] part = "last" -> Len(Kids[n])

\* A value get_bin() returned, -1 when there is no such bin.
CheckedBin(n, b) == IF b >= 0 /\ b < NBins(n) THEN b ELSE -1

FirstPart(n) == IF Kind[n] = "binned" THEN "before" ELSE "last"

\* The head of the loop in simulate(): everything is run again, but status
\* keeps its value.
StartPass_Resumes(n, i, n_retry, s) ==
  [node |-> n, pass |-> i, retry |-> n_retry, status |-> s,
   part |-> FirstPart(n), bin |-> -1,
   pos |-> IF i > 0 /\ Len(Kids[n]) > 1 THEN 1 ELSE 0,
   attempt |-> 0, granted |-> 0, done |-> {}, called |-> FALSE]
StartPass(n, i, n_retry, s) ==
  [node |-> n, pass |-> i, retry |-> n_retry, status |-> s,
   part |-> FirstPart(n), bin |-> -1, pos |-> 0,
   attempt |-> 0, granted |-> 0, done |-> {}, called |-> FALSE]

Top == stack[Len(stack)]
Below == SubSeq(stack, 1, Len(stack) - 1)
Element(f) == Kids[f.node][f.pos + 1]
End(f) == To(f.node, f.part, f.bin)

\* Only a PDGID chain tests its elements.
Runs(n, p) == Kind[n] = "pdgid" => Kids[n][p + 1] \in Matching

Init ==
  /\ stack = <<StartPass(Root, 0, 0, FCSSuccess)>>
  /\ ret = NoStatus
  /\ ok = [l \in Leaves |-> 0]
  /\ fatal = FALSE

\* The innermost call is between two of its steps.
Active == stack # <<>> /\ ret = NoStatus

Become(f) == stack' = Append(Below, f)

\* simulate() returns s.
Return(s) ==
  /\ stack' = Below
  /\ ret' = s
  /\ UNCHANGED <<ok, fatal>>

SkipElement ==
  /\ Active /\ Top.pos < End(Top) /\ ~Runs(Top.node, Top.pos)
  /\ Become([Top EXCEPT !.pos = @ + 1])
  /\ UNCHANGED <<ret, ok, fatal>>

\* simulate_and_retry() calls simulate() of an element that is no chain.
RunLeaf ==
  /\ Active /\ Top.pos < End(Top) /\ Runs(Top.node, Top.pos)
  /\ Element(Top) \in Leaves
  /\ \E s \in Answers[Element(Top)] :
       /\ ret' = s
       /\ ok' = IF s = FCSSuccess /\ ok[Element(Top)] < 2
                THEN [ok EXCEPT ![Element(Top)] = @ + 1] ELSE ok
       /\ fatal' = (fatal \/ s = FCSFatal)
  /\ Become([Top EXCEPT !.called = TRUE])

\* ... of an element that is a chain.
RunChain ==
  /\ Active /\ Top.pos < End(Top) /\ Runs(Top.node, Top.pos)
  /\ Element(Top) \in Chains
  /\ stack' = Append(Append(Below, [Top EXCEPT !.called = TRUE]),
                     StartPass(Element(Top), 0, 0, FCSSuccess))
  /\ UNCHANGED <<ret, ok, fatal>>

-----------------------------------------------------------------------------
\* What a call to simulate_and_retry() makes of the status of simulate().
Granted(s) == s - FCSRetry

Stops_Never(f) == FALSE
Stops(f) == Kind[f.node] = "pdgid" /\ f.node \in OnlyOne

TakeSuccess ==
  /\ stack # <<>> /\ ret = FCSSuccess
  /\ Become([Top EXCEPT !.status = FCSSuccess,
                        !.pos = IF Stops(Top) THEN End(Top) ELSE @ + 1,
                        !.attempt = 0, !.granted = 0,
                        !.done = @ \cup {Top.pos}])
  /\ ret' = NoStatus /\ UNCHANGED <<ok, fatal>>

\* FCSFatal ends every call of the stack, one after the other.
TakeFatal ==
  /\ stack # <<>> /\ ret = FCSFatal
  /\ Return(FCSFatal)

\* RetryChainFromStart() hands the status to the loop of simulate(), which
\* leaves its element loop.
HandsUp_Always(f) == TRUE
HandsUp(f) == f.node \in FromStart

TakeRetryFromStart ==
  /\ stack # <<>> /\ ret >= FCSRetry /\ HandsUp(Top)
  /\ Become([Top EXCEPT !.status = ret, !.retry = Granted(ret),
                        !.pos = End(Top), !.attempt = 0, !.granted = 0])
  /\ ret' = NoStatus /\ UNCHANGED <<ok, fatal>>

\* simulate() of the same element again, if the last answer grants it.
GrantedMore(f, n) == f.attempt + 1 <= n

TakeRetry_GivesUp ==
  /\ stack # <<>> /\ ret >= FCSRetry /\ ~HandsUp(Top)
  /\ IF GrantedMore(Top, Granted(ret))
     THEN /\ Become([Top EXCEPT !.attempt = @ + 1, !.granted = Granted(ret)])
          /\ ret' = NoStatus
     ELSE /\ Become([Top EXCEPT !.pos = @ + 1, !.attempt = 0, !.granted = 0])
          /\ ret' = NoStatus
  /\ UNCHANGED <<ok, fatal>>
TakeRetry ==
  /\ stack # <<>> /\ ret >= FCSRetry /\ ~HandsUp(Top)
  /\ IF GrantedMore(Top, Granted(ret))
     THEN /\ Become([Top EXCEPT !.attempt = @ + 1, !.granted = Granted(ret)])
          /\ ret' = NoStatus /\ UNCHANGED <<ok, fatal>>
     ELSE Return(FCSFatal)

-----------------------------------------------------------------------------
AtEnd == Active /\ Top.pos >= End(Top)

\* get_bin(), with what the elements before the first bin left in the state.
SelectBin ==
  /\ AtEnd /\ Top.part = "before" /\ Top.status < FCSRetry
  /\ \E b \in BinsDrawn[Top.node] :
       LET bin == CheckedBin(Top.node, b)
       IN  Become([Top EXCEPT !.part = "bin", !.bin = bin,
                              !.pos = From(Top.node, "bin", bin)])
  /\ UNCHANGED <<ret, ok, fatal>>

RunForAllBins ==
  /\ AtEnd /\ Top.part = "bin" /\ Top.status < FCSRetry
  /\ Become([Top EXCEPT !.part = "last", !.pos = From(Top.node, "last", Top.bin)])
  /\ UNCHANGED <<ret, ok, fatal>>

\* The element loops are done: success, or a further pass as long as the last
\* element that asked for it grants one.
PassSucceeds ==
  /\ AtEnd /\ Top.part = "last" /\ Top.status = FCSSuccess
  /\ Return(FCSSuccess)

NextPass_Same(f) == f.pass
NextPass(f) == f.pass + 1

PassFails ==
  /\ AtEnd /\ Top.status >= FCSRetry
  /\ IF NextPass(Top) <= Top.retry
     THEN /\ Become(StartPass(Top.node, NextPass(Top), Top.retry, Top.status))
          /\ UNCHANGED <<ret, ok, fatal>>
     ELSE Return(FCSFatal)

Next ==
  \/ SkipElement \/ RunLeaf \/ RunChain
  \/ TakeSuccess \/ TakeFatal \/ TakeRetryFromStart \/ TakeRetry
  \/ SelectBin \/ RunForAllBins \/ PassSucceeds \/ PassFails

Spec == Init /\ [][Next]_vars

\* One thread runs the tree to its end.
LiveSpec == Spec /\ WF_vars(Next)

-----------------------------------------------------------------------------
\* The elements one pass of chain n has to run when bin is selected.
Matched(n, bin) ==
  {p \in 0 .. Len(Kids[n]) - 1 :
     /\ Runs(n, p)
     /\ \E part \in {"before", "bin", "last"} :
          /\ part # "last" => Kind[n] = "binned"
          /\ From(n, part, bin) <= p /\ p < To(n, part, bin)}
Planned(n, bin) ==
  {p \in Matched(n, bin) :
     Kind[n] = "pdgid" /\ n \in OnlyOne => \A q \in Matched(n, bin) : p <= q}

\* What a chain that starts over runs again: its elements, and with a chain that
\* is one of them the elements of that chain.
Elements(n) == {Kids[n][i] : i \in 1 .. Len(Kids[n])}
Repeatable ==
  {n \in Nodes :
     \A S \in SUBSET Nodes :
       (\A c \in FromStart \cup (S \cap Chains) : Elements(c) \subseteq S)
         => n \in S}

\* Every parametrization hangs in the tree once.
EachOnce ==
  \A c, d \in Chains : \A i \in 1 .. Len(Kids[c]), j \in 1 .. Len(Kids[d]) :
    /\ Kids[c][i] # Root
    /\ Kids[c][i] = Kids[d][j] => c = d /\ i = j

\* The variables have the types their use in the code gives them.
TypeOK ==
  /\ stack \in Seq(Frame)
  /\ ret \in Int
  /\ ok \in [Leaves -> 0 .. 2]
  /\ fatal \in BOOLEAN

\* While a pass is going on, the elements that succeeded in it are those that
\* come before the current one, none left out and none out of place.
InOrder ==
  \A k \in 1 .. Len(stack) :
    LET f == stack[k]
    IN  (f.status < FCSRetry \/ f.pos < End(f)) =>
          f.done = {p \in Planned(f.node, f.bin) : p < f.pos}

\* A chain reports success only after a pass in which every element that had to
\* run succeeded, whatever was retried or started over on the way.
SuccessIsComplete ==
  [][Len(stack') < Len(stack) /\ ret' = FCSSuccess
       => Top.done = Planned(Top.node, Top.bin)]_vars

\* Unless a chain above it may start over, the work of an element that hangs in
\* the tree once is applied to the simulation state at most once: no retry
\* repeats what succeeded.
AppliedOnce == \A l \in Leaves \ Repeatable : ok[l] <= 1

\* After FCSFatal nothing is simulated any more and every active call of the
\* tree returns FCSFatal in turn.
FatalIsFinal == fatal => ret = FCSFatal

\* Nothing is simulated once too often: not by a retry that goes on where the
\* last pass stopped, and not after a failure.
NothingOnceTooOften == AppliedOnce /\ FatalIsFinal

\* The first of the element loops of a binned chain has nothing to run: as
\* constructed, and as long as push_back_in_bin() fills nothing but bins.
StartsEmpty(n) == Kind[n] = "binned" /\ BinStart[n][1] = 0

\* A chain that starts over simulates something in every further pass, and may
\* succeed in one, unless its first loop is empty: then the status of the pass
\* before is still there when the loop ends
\* (TFCSParametrizationBinnedChain.cxx:95), and the further passes, though the
\* code announces each as "Retry simulate call" (lines 78-80), call nothing until
\* the chain gives up, whatever its elements would have answered.
FurtherPasses ==
  [][/\ PassFails /\ Top.pass > 0 => (Top.called <=> ~StartsEmpty(Top.node))
     /\ PassSucceeds /\ Top.pass > 0 => ~StartsEmpty(Top.node)]_vars

\* However the retries of the chains are nested, the shower comes to an end.
Terminates == <>(stack = <<>>)
=============================================================================
