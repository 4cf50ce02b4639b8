---------------------------- MODULE MCNetworks -----------------------------
(***************************************************************************)
(* An instance of NetworkHandlers and GanShower.  Either networks are      *)
(* handled by themselves, or they are those of a GAN, and showers made     *)
(* with them.                                                              *)
(***************************************************************************)
EXTENDS GanShower

File(stem, ext) == [stem |-> stem, ext |-> ext]
NoName == File(<<0, 0, "none">>, "none")
Text(form, net) == [form |-> form, net |-> net]
Photon == [pid |-> 22, etaMin |-> 20]
Pion == [pid |-> 211, etaMin |-> 20]

\* Network 1 has as many outputs as the binning below has voxels, 2 has two
\* nodes, and 3 one output only.
TheNodes == <<
  <<[name |-> "out", size |-> 14]>>,
  <<[name |-> "mean", size |-> 2], [name |-> "sigma", size |-> 1]>>,
  <<[name |-> "out", size |-> 1]>> >>

\* The photon's high network is there in both formats; the low network of the
\* second slice is missing.
Name(s, role, ext) == File(<<s.pid, s.etaMin, role>>, ext)
TheDisk ==
  Name(Photon, "high", "onnx") :> Text("onnx", 1)
    @@ Name(Photon, "high", "json") :> Text("graph", 3)
    @@ Name(Photon, "low", "json") :> Text("graph", 1)
    @@ Name(Pion, "all", "json") :> Text("sequential", 1)
    @@ Name([Photon EXCEPT !.etaMin = 25], "high", "json") :> Text("graph", 1)
    @@ Name([Pion EXCEPT !.etaMin = 25], "all", "onnx") :> Text("onnx", 3)

TheSlices == {Photon, Pion, [Photon EXCEPT !.etaMin = 25], [Pion EXCEPT !.etaMin = 25]}

Binning == 1 :> [edges |-> <<0, 2, 5>>, alpha |-> 1]
             @@ 2 :> [edges |-> <<0>>, alpha |-> 8]
             @@ 3 :> [edges |-> <<0, 8, 20>>, alpha |-> 32]
Unused == 2 :> [edges |-> <<0, 5>>, alpha |-> 8]
TheBin(pid, eta, version, sym) ==
  [pid |-> pid, etaMin |-> eta, etaMax |-> eta + 5, version |-> version, sym |-> sym,
   layers |-> Unused @@ Binning]
TheXml == {TheBin(22, 20, 2, TRUE), TheBin(22, 25, 2, FALSE),
           TheBin(211, 20, 1, FALSE), TheBin(211, 25, 2, FALSE)}

\* What the network may answer: energy in a few voxels only.
Pattern(f) == [i \in 1 .. 14 |-> IF i \in DOMAIN f THEN f[i] ELSE 0]
SomeAnswers ==
  {Pattern(1 :> 2 @@ 3 :> 1), Pattern(2 :> -1 @@ 4 :> 3 @@ 14 :> 1),
   Pattern(1 :> 1 @@ 2 :> 2 @@ 10 :> 2), Pattern(1 :> -1), Pattern(1 :> 0)}

Particle(pdg, p, ekin) == [pdg |-> pdg, p |-> p, ekin |-> ekin]
SomeParticles == {Particle(22, 4096, 30), Particle(22, 4097, 30), Particle(211, 5000, 7)}

TheArc == 1 :> 0 @@ 2 :> 0 @@ 3 :> 12
DrawnRadii == {-1, 0, 3, 9, 30}

Input(name, text, bytes, form) == [name |-> name, text |-> text, bytes |-> bytes, form |-> form]
Guess(name) == Input(name, Empty, Empty, "unknown")
SomeInputs ==
  {Guess(Name(Photon, "high", "*")), Guess(Name(Photon, "low", "*")),
   Guess(Name(Pion, "low", "*")), Guess(Name(Pion, "all", "json")),
   Guess(Saved), Guess(File(<<0, 0, "missing">>, "json")), Guess(NoName)}
  \cup {Input(NoName, Text("sequential", 2), Empty, f) : f \in {"unknown", "graph", "plain"}}
  \cup {Input(NoName, Text("graph", 2), Empty, f) : f \in {"unknown", "graph", "plain"}}
  \cup {Input(NoName, Empty, Text("onnx", 2), "unknown"),
        Input(Name(Pion, "low", "*"), Empty, Text("onnx", 2), "unknown")}

\* Networks by themselves: there is no GAN, and two owners suffice.
Alone == pc = "alone" /\ UNCHANGED ganVars
Owners == {"all", "low"}
AloneMake(s, i) == Alone /\ Make(s, i)
AloneCopy(s, t) == Alone /\ Copy(s, t)
AloneDestroy(s) == Alone /\ Destroy(s)
AloneDelete(s) == Alone /\ DeleteAllButNet(s)
AloneWriteTree(s) == Alone /\ WriteTree(s)
AloneWrite(s) == Alone /\ WriteBuffer(s)
AloneRead(s) == Alone /\ ReadBuffer(s)

Init == GanInit("idle") \/ GanInit("alone")
Next ==
  \/ GanNext
  \/ \E s \in Owners, i \in SomeInputs : AloneMake(s, i)
  \/ \E s, t \in Owners : AloneCopy(s, t)
  \/ \E s \in Owners :
       \/ AloneDestroy(s) \/ AloneDelete(s) \/ AloneWriteTree(s)
       \/ AloneWrite(s) \/ AloneRead(s)
Spec == Init /\ [][Next]_vars

GanSlots == {"all", "low", "high"}
=============================================================================
