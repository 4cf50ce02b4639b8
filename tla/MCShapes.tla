------------------------------ MODULE MCShapes ------------------------------
(***************************************************************************)
(* An instance of Shapes.                                                  *)
(***************************************************************************)
EXTENDS Shapes

\* Borders so close that 8 bits cannot tell them apart, contents so small that
\* they are lost, empty bins and negative ones.
SomeBorders == {<<0, 1, 2, 600, 1000, 1001>>, <<-10, 0, 10, 20, 30, 40>>}
FromZero(seq) == [i \in 0 .. Len(seq) - 1 |-> seq[i + 1]]
SomeContents ==
  [0 .. 4 -> {0, 1, 900}]
  \cup {FromZero(<<-2, 5, -1, 3, 0>>), FromZero(<<-2, -2, 0, 0, 0>>), FromZero(<<7, -3, -3, 0, 2>>)}
TheHistograms1D ==
  {[low |-> FromZero(b), cont |-> c] : b \in SomeBorders, c \in SomeContents}
Grid == (0 .. 1) \X (0 .. 2)
TheHistograms2D ==
  {[x |-> <<0, 1, 2>>, y |-> <<0, 1, 2, 4>>, cont |-> c] :
     c \in [Grid -> {0, 70}] \cup {[g \in Grid |-> (g[1] + 2 * g[2]) - 2], [g \in Grid |-> 900 * g[2] + 1]}}

TheCumulative ==
  {[border |-> <<0, 1, 2, 4, 5, 6, 7, 9, 10, 12>>, content |-> c \o <<95, 100>>] :
     c \in {<<5, 7, 20, 50, 70, 80, 90>>, <<5, 5, 20, 22, 24, 60, 70>>,
            <<0, 0, 0, 10, 40, 80, 94>>, <<10, 20, 30, 40, 50, 60, 75>>,
            <<0, 40, 41, 42, 43, 44, 90>>, <<1, 2, 50, 51, 90, 91, 92>>,
            <<30, 30, 30, 30, 30, 30, 30>>, <<2, 8, 14, 20, 26, 32, 90>>}}

TheCharge == [p \in {22, -22, 11, -11, 211, -211} |->
                IF p \in {11, -211} THEN -1 ELSE IF p \in {-11, 211} THEN 1 ELSE 0]
Load(min, max, shift, opens) ==
  [min |-> min, max |-> max, edges |-> <<0, 3, 8>>, values |-> <<10 + min, 20 + min>>,
   shift |-> shift, opens |-> opens]
TheLoads ==
  {Load(0, 2, 2, TRUE), Load(2, 4, 3, TRUE), Load(2, 4, 1, FALSE), Load(5, 6, 1, TRUE),
   Load(1, 2, 5, TRUE), Load(4, 5, 7, TRUE)}
TheWeights == {<<2, 4, 8, 16>>, <<1, 32>>}
TheRange == [min |-> 4, max |-> 16]
TheFunctions == <<-2, NoFunction, 3>>
TheEdges == <<1, 2, 4, 6>>
TheAccordion == <<2, 3, 5, 8>>
ThePhis == {-20, -13, -1, 0, 5, 14, 19}
=============================================================================
