--------------------------- MODULE MCBinnedShower ---------------------------
\* Instances of MLShower.  The events of the library have voxels too small for a
\* hit, negative ones, ones with more hits than allowed, layers without a voxel,
\* and fewer layers than the geometry; the network answers with NaN, with too
\* little or nothing, for layers of one and of two bins.
EXTENDS MLShower

SmallFirst == << <<1, 7, -1, 2>>, <<2, 1, 4>> >>
Capped == << <<9, 0, 2>>, << >> >>
OneLayer == << <<3>> >>
Tiny == << <<1>>, <<-2, 1>> >>

Mixed == {<<>>, <<Tiny>>, <<SmallFirst, OneLayer, Capped>>}
File == <<OneLayer, Capped, OneLayer>>
AskedFor == {-1, 0, 2, 3}

NotANumber == -1000
ShapesMC ==
  {[bounds |-> <<0, 2, 3>>, used |-> <<1, 2>>], [bounds |-> <<0, 1, 3>>, used |-> <<2, 1>>],
   [bounds |-> <<0, 2, 3>>, used |-> <<2>>]}
AnswersMC ==
  {<<6, 9, 18>>, <<0, 12, -3>>, <<3, NotANumber, 6>>, <<6, 9>>, <<>>}
MetaMC == {<<2, 2>>}

Even == <<4, 8, 12>>
Outer == <<8, 8, 8>>
Matrices(e, rows) == [energy |-> e, layer |-> 1, rows |-> rows]
SubBinsMC ==
  {{Matrices(1, <<Even, <<0, 8, 16>> >>), Matrices(9, <<Outer, Even>>)},
   {Matrices(3, <<Outer>>), [energy |-> 3, layer |-> 2, rows |-> << <<6, 8, 10>>, <<1, 10, 13>> >>]}}
LogMC == [e \in {1, 3, 9} |-> CASE e = 1 -> 0 [] e = 3 -> 1 [] OTHER -> 2]
=============================================================================
