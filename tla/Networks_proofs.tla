--------------------------- MODULE Networks_proofs ---------------------------
(***************************************************************************)
(* Theorems about NetworkHandlers and GanShower: handlers that exist can   *)
(* compute and number their outputs, a GAN asks the network its files      *)
(* describe, and its hits carry the energy of their voxels and lie in      *)
(* them, for every set of files, networks, slices, inputs and answers.     *)
(***************************************************************************)
EXTENDS GanShower, FiniteSetTheorems, NaturalsInduction, TLAPS

\* A handler in its slot: it computes with a network of its form, under its own
\* names, and what it kept for saving is that network's description or nothing.
Good(h, slot) ==
  \/ h = NoNet
  \/ /\ h.kind \in Kinds /\ h.call /\ h.names = slot
     /\ Parses(h.kind, h.net)
     /\ h.text \in {Empty, h.net}
     /\ h.layers = OutputKeys(h)

GoodHandlers ==
  /\ obj = [s \in Slots |-> obj[s]]
  /\ \A s \in Slots : Good(obj[s], s)
GoodBuffer(b) == b = NoBuffer \/ b.kind \in Kinds

-----------------------------------------------------------------------------
\* What the factory and the streamers make is good, or nothing.
LEMMA HandledGood ==
  ASSUME NEW kind \in Kinds, NEW text, NEW slot
  PROVE  /\ Good(Handled(kind, text, slot), slot)
         /\ Handled(kind, text, slot) # NoNet =>
              /\ Handled(kind, text, slot).net = text
              /\ text.form \in Forms
<1>1. CASE Parses(kind, text)
  <2>1. Handled(kind, text, slot) = Handler(kind, text, slot)
    BY <1>1 DEF Handled
  <2>2. /\ Handler(kind, text, slot).kind = kind
        /\ Handler(kind, text, slot).call = TRUE
        /\ Handler(kind, text, slot).names = slot
        /\ Handler(kind, text, slot).net = text
        /\ Handler(kind, text, slot).text = text
        /\ Handler(kind, text, slot).layers = RemovePrefixes(OutputNames(text.net))
    BY DEF Handler
  <2>3. text.form \in Forms
    BY <1>1 DEF Parses, FormOf, Kinds, Forms
  <2>4. QED
    BY <1>1, <2>1, <2>2, <2>3 DEF Good, OutputKeys
<1>2. CASE ~Parses(kind, text)
  BY <1>2 DEF Handled, Good
<1>3. QED
  BY <1>1, <1>2

LEMMA CreateGood ==
  ASSUME NEW input, NEW slot
  PROVE  Good(Create(input, slot), slot)
<1>1. \A text : \A k \in Kinds : Good(Handled(k, text, slot), slot)
  BY HandledGood
<1>2. {"onnx", "simple", "lwtgraph"} = Kinds
  BY DEF Kinds
<1>3. \A name, text : Good(CreateGuess(name, text, slot), slot)
  BY <1>1, <1>2 DEF CreateGuess
<1>4. \A name, text, graph : Good(CreateForm(name, text, graph, slot), slot)
  <2> TAKE name, text, graph
  <2> DEFINE kind == IF graph THEN "lwtgraph" ELSE "simple"
  <2>1. kind \in Kinds /\ "onnx" \in Kinds
    BY <1>2
  <2>2. /\ Good(Handled(kind, TextOf(kind, name, text), slot), slot)
        /\ Good(Handled("onnx", TextOf("onnx", name, text), slot), slot)
    BY <1>1, <2>1
  <2>3. QED
    BY <2>2 DEF CreateForm
<1>5. Good(FromString(input, slot), slot)
  BY <1>3, <1>4 DEF FromString
<1>6. Good(NoNet, slot)
  BY DEF Good
<1>7. QED
  BY <1>1, <1>2, <1>5, <1>6 DEF Create

LEMMA StrippedGood ==
  ASSUME NEW h, NEW slot, Good(h, slot), h # NoNet
  PROVE  Good(Stripped(h), slot) /\ Stripped(h) # NoNet /\ Stripped(h).net = h.net
         /\ Stripped(h).text \in {Empty, h.net}
  BY DEF Good, Stripped, Parses, OutputKeys, NoNet

LEMMA ReadGood ==
  ASSUME NEW b, b.kind \in Kinds, NEW slot
  PROVE  /\ Good(Read(b, slot), slot)
         /\ Read(b, slot) # NoNet => Read(b, slot).net = b.text /\ b.text.form \in Forms
<1> DEFINE h == Handled(b.kind, b.text, slot)
<1>1. Good(h, slot) /\ (h # NoNet => h.net = b.text /\ b.text.form \in Forms)
  BY HandledGood
<1>2. CASE h = NoNet \/ StandAlone
  BY <1>1, <1>2 DEF Read
<1>3. CASE ~(h = NoNet \/ StandAlone)
  BY <1>1, <1>3, StrippedGood DEF Read
<1>4. QED
  BY <1>2, <1>3

LEMMA CopyGood ==
  ASSUME NEW h, NEW s, NEW t, Good(h, s), h # NoNet, h.kind # "onnx"
  PROVE  Good(CopyOf(h, t), t)
<1>1. CASE h.text = Empty
  BY <1>1 DEF CopyOf, Good
<1>2. CASE h.text # Empty
  <2>1. h.kind \in Kinds /\ Parses(h.kind, h.text)
    BY <1>2 DEF Good
  <2>2. CopyOf(h, t) = Handled(h.kind, h.text, t)
    BY <1>2, <2>1 DEF CopyOf, Handled
  <2>3. QED
    BY <2>1, <2>2, HandledGood
<1>3. QED
  BY <1>1, <1>2

LEMMA GoodComputes == GoodHandlers => ExistingNetworksCompute
<1> SUFFICES ASSUME GoodHandlers, NEW s \in Slots, obj[s] # NoNet
             PROVE  Computes(obj[s]) /\ Parses(obj[s].kind, obj[s].net)
  BY DEF ExistingNetworksCompute
<1>1. Good(obj[s], s)
  BY DEF GoodHandlers
<1>2. QED
  BY <1>1 DEF Good, Computes

LEMMA GoodNamesLayers ==
  GoodHandlers => \A s \in Slots : obj[s] # NoNet => obj[s].layers = OutputKeys(obj[s])
  BY DEF GoodHandlers, Good

-----------------------------------------------------------------------------
(***************************************************************************)
(* Handlers by themselves, made from any input.                            *)
(***************************************************************************)
HandlerNext(Inputs) ==
  \/ \E s \in Slots, i \in Inputs : Make(s, i)
  \/ \E s, t \in Slots : Copy(s, t)
  \/ \E s \in Slots : \/ Destroy(s) \/ DeleteAllButNet(s) \/ WriteTree(s)
                      \/ WriteBuffer(s) \/ ReadBuffer(s)
HandlerSpec(Inputs) == NetInit /\ [][HandlerNext(Inputs)]_netVars

HInv == GoodHandlers /\ GoodBuffer(buffer)

LEMMA TakesGood ==
  ASSUME GoodHandlers, NEW s \in Slots, NEW h, Good(h, s), Takes(s, h)
  PROVE  GoodHandlers'
<1>1. CASE h = NoNet
  BY <1>1 DEF Takes, GoodHandlers
<1>2. CASE h # NoNet
  <2>1. obj' = [obj EXCEPT ![s] = h]
    BY <1>2 DEF Takes
  <2>2. obj' = [t \in Slots |-> IF t = s THEN h ELSE obj[t]]
    BY <2>1 DEF GoodHandlers
  <2>3. QED
    BY <2>2 DEF GoodHandlers
<1>3. QED
  BY <1>1, <1>2

\* Nothing a handler goes through takes away what it computes with.
LEMMA HandlerStep ==
  ASSUME "onnx" \notin CopyKinds, NEW Inputs, HInv, [HandlerNext(Inputs)]_netVars
  PROVE  HInv'
<1> USE DEF HInv
<1>1. ASSUME NEW s \in Slots, NEW i \in Inputs, Make(s, i) PROVE HInv'
  BY <1>1, CreateGood, TakesGood DEF Make, GoodBuffer
<1>2. ASSUME NEW s \in Slots, NEW t \in Slots, Copy(s, t) PROVE HInv'
  <2>1. obj[s].kind \in CopyKinds /\ CopyKinds \subseteq Kinds
    BY <1>2, HandlerAssumption DEF Copy
  <2>2. obj[s] # NoNet /\ obj[s].kind # "onnx"
    BY <2>1 DEF Kinds, NoNet
  <2>3. Good(CopyOf(obj[s], t), t)
    BY <2>2, CopyGood DEF GoodHandlers
  <2>4. QED
    BY <1>2, <2>3, TakesGood DEF Copy, GoodBuffer
<1>3. ASSUME NEW s \in Slots, Destroy(s) PROVE HInv'
  <2>1. obj' = [t \in Slots |-> IF t = s THEN NoNet ELSE obj[t]]
    BY <1>3 DEF Destroy, GoodHandlers
  <2>2. GoodHandlers'
    BY <2>1 DEF GoodHandlers, Good
  <2>3. QED
    BY <1>3, <2>2 DEF Destroy, GoodBuffer
<1>4. ASSUME NEW s \in Slots, DeleteAllButNet(s) PROVE HInv'
  <2>1. Good(Stripped(obj[s]), s)
    BY <1>4, StrippedGood DEF DeleteAllButNet, GoodHandlers
  <2>2. obj' = [t \in Slots |-> IF t = s THEN Stripped(obj[s]) ELSE obj[t]]
    BY <1>4 DEF DeleteAllButNet, GoodHandlers
  <2>3. GoodHandlers'
    BY <2>1, <2>2 DEF GoodHandlers
  <2>4. QED
    BY <1>4, <2>3 DEF DeleteAllButNet, GoodBuffer
<1>5. ASSUME NEW s \in Slots, WriteTree(s) PROVE HInv'
  BY <1>5 DEF WriteTree, GoodHandlers, GoodBuffer
<1>6. ASSUME NEW s \in Slots, WriteBuffer(s) PROVE HInv'
  <2>1. obj[s].kind \in Kinds
    BY <1>6 DEF WriteBuffer, GoodHandlers, Good
  <2>2. buffer'.kind \in Kinds
    BY <1>6, <2>1 DEF WriteBuffer, Persisted
  <2>3. QED
    BY <1>6, <2>2 DEF WriteBuffer, GoodHandlers, GoodBuffer
<1>7. ASSUME NEW s \in Slots, ReadBuffer(s) PROVE HInv'
  <2>1. Good(Read(buffer, s), s)
    BY <1>7, ReadGood DEF ReadBuffer, GoodBuffer
  <2>2. QED
    BY <1>7, <2>1, TakesGood DEF ReadBuffer, GoodBuffer
<1>8. CASE UNCHANGED netVars
  BY <1>8 DEF netVars, GoodHandlers, GoodBuffer
<1>9. QED
  BY <1>1, <1>2, <1>3, <1>4, <1>5, <1>6, <1>7, <1>8 DEF HandlerNext

LEMMA InitGood == NetInit => GoodHandlers /\ GoodBuffer(buffer)
  BY DEF NetInit, GoodHandlers, Good, GoodBuffer

\* A handler made by TFCSNetworkFactory from any file, text or bytes can compute
\* for as long as it exists, through every order of copying LWTNN handlers,
\* deleteAllButNet(), writing to a tree or a buffer, and making a handler from
\* what was written, in Athena and alone.
THEOREM HandlersCompute ==
  ASSUME "onnx" \notin CopyKinds, NEW CONSTANT Inputs
  PROVE  HandlerSpec(Inputs) => []ExistingNetworksCompute
<1>1. NetInit => HInv
  BY InitGood DEF HInv
<1>2. HInv /\ [HandlerNext(Inputs)]_netVars => HInv'
  BY HandlerStep
<1>3. HInv => ExistingNetworksCompute
  BY GoodComputes DEF HInv
<1>4. QED
  BY <1>1, <1>2, <1>3, PTL DEF HandlerSpec

-----------------------------------------------------------------------------
(***************************************************************************)
(* The names under which a handler gives its outputs.                      *)
(***************************************************************************)
\* Different numbers are written differently.
DistinctNumbers == \A i, j \in Nat : ToString(i) = ToString(j) => i = j

\* Inputs with descriptions of networks, if with any.
Known(text) == text.net \in DOMAIN Nodes
KnownIfAny(text) == text = Empty \/ Known(text)
Described(Inputs) == \A i \in Inputs : KnownIfAny(i.text) /\ KnownIfAny(i.bytes)

\* A name of three parts, and what it begins and ends with.
LEMMA Parts3 ==
  ASSUME NEW a, NEW b, NEW c
  PROVE  /\ Len(<<a, b, c>>) = 3
         /\ SubSeq(<<a, b, c>>, 1, 1) = <<a>> /\ SubSeq(<<a, b, c>>, 1, 2) = <<a, b>>
         /\ SubSeq(<<a, b, c>>, 1, 3) = <<a, b, c>>
         /\ SubSeq(<<a, b, c>>, 3, 3) = <<c>>
<1>1. <<a, b, c>> \in Seq({a, b, c})
  OBVIOUS
<1> DEFINE s == <<a, b, c>>
<1>2. Len(s) = 3 /\ s[1] = a /\ s[2] = b /\ s[3] = c
  OBVIOUS
<1> HIDE DEF s
<1>3. \A m, n \in Int : SubSeq(s, m, n) = [i \in 1 .. (1 + n - m) |-> s[i + m - 1]]
  BY DEF SubSeq
<1>4. SubSeq(s, 1, 1) = [i \in 1 .. 1 |-> s[i]]
  <2>1. SubSeq(s, 1, 1) = [i \in 1 .. (1 + 1 - 1) |-> s[i + 1 - 1]]
    BY <1>3
  <2> QED
    BY <2>1
<1>5. SubSeq(s, 1, 2) = [i \in 1 .. 2 |-> s[i]]
  <2>1. SubSeq(s, 1, 2) = [i \in 1 .. (1 + 2 - 1) |-> s[i + 1 - 1]]
    BY <1>3
  <2> QED
    BY <2>1
<1>6. SubSeq(s, 1, 3) = [i \in 1 .. 3 |-> s[i]]
  <2>1. SubSeq(s, 1, 3) = [i \in 1 .. (1 + 3 - 1) |-> s[i + 1 - 1]]
    BY <1>3
  <2> QED
    BY <2>1
<1>7. SubSeq(s, 3, 3) = [i \in 1 .. 1 |-> s[3]]
  <2>1. SubSeq(s, 3, 3) = [i \in 1 .. (1 + 3 - 3) |-> s[i + 3 - 1]]
    BY <1>3
  <2> QED
    BY <2>1
<1>8. [i \in 1 .. 1 |-> s[i]] = <<a>>
  BY <1>2
<1>9. [i \in 1 .. 2 |-> s[i]] = <<a, b>>
  BY <1>2
<1>10. [i \in 1 .. 3 |-> s[i]] = <<a, b, c>>
  BY <1>2
<1>11. [i \in 1 .. 1 |-> s[3]] = <<c>>
  BY <1>2
<1> QED
  BY <1>2, <1>4, <1>5, <1>6, <1>7, <1>8, <1>9, <1>10, <1>11 DEF s

\* removePrefixes() leaves the numbers of the outputs of a network with one node.
LEMMA NumberedOutputs ==
  ASSUME DistinctNumbers, NEW net \in DOMAIN Nodes, Len(Nodes[net]) = 1, Nodes[net][1].size > 1
  PROVE  RemovePrefixes(OutputNames(net)) = {Number(i) : i \in 0 .. Nodes[net][1].size - 1}
<1> DEFINE name == Nodes[net][1].name
           size == Nodes[net][1].size
           full(i) == <<name, "_", ToString(i)>>
           names == {full(i) : i \in 0 .. size - 1}
           first == CHOOSE a \in names : TRUE
<1>1. size \in Nat /\ size > 1 /\ 0 \in 0 .. size - 1 /\ 1 \in 0 .. size - 1
  <2>1. 1 \in 1 .. Len(Nodes[net])
    OBVIOUS
  <2>2. size \in Nat
    BY <2>1, HandlerAssumption
  <2> QED
    BY <2>2
<1>2. OutputNames(net) = names
  <2>1. 1 .. Len(Nodes[net]) = {1}
    OBVIOUS
  <2>2. OutputNames(net) = UNION {names}
    BY <2>1 DEF OutputNames
  <2> QED
    BY <2>2
<1>3. \A i : /\ Len(full(i)) = 3
             /\ SubSeq(full(i), 1, 1) = <<name>> /\ SubSeq(full(i), 1, 2) = <<name, "_">>
             /\ SubSeq(full(i), 1, 3) = full(i) /\ SubSeq(full(i), 3, 3) = Number(i)
  <2> TAKE i
  <2> DEFINE c == ToString(i)
  <2> HIDE DEF name, c
  <2>1. /\ Len(<<name, "_", c>>) = 3
        /\ SubSeq(<<name, "_", c>>, 1, 1) = <<name>> /\ SubSeq(<<name, "_", c>>, 1, 2) = <<name, "_">>
        /\ SubSeq(<<name, "_", c>>, 1, 3) = <<name, "_", c>>
        /\ SubSeq(<<name, "_", c>>, 3, 3) = <<c>>
    <3>1. ASSUME NEW u
          PROVE  /\ Len(<<name, u, c>>) = 3
                 /\ SubSeq(<<name, u, c>>, 1, 1) = <<name>>
                 /\ SubSeq(<<name, u, c>>, 1, 2) = <<name, u>>
                 /\ SubSeq(<<name, u, c>>, 1, 3) = <<name, u, c>>
                 /\ SubSeq(<<name, u, c>>, 3, 3) = <<c>>
      BY Parts3
    <3> QED
      BY <3>1
  <2> QED
    BY <2>1 DEF Number, c
<1>4. full(0) # full(1)
  <2>1. ToString(0) # ToString(1)
    BY DEF DistinctNumbers
  <2> QED
    BY <2>1
<1> HIDE DEF name, size, full
<1>5. full(0) \in names /\ full(1) \in names
  BY <1>1
<1>6. first \in names
  BY <1>5
<1>7. \A a \in names : /\ Len(a) = 3 /\ SubSeq(a, 1, 1) = <<name>>
                       /\ SubSeq(a, 1, 2) = <<name, "_">> /\ SubSeq(a, 1, 3) = a
  BY <1>3
<1>8. PrefixLength(names) =
        CHOOSE n \in 0 .. Len(first) : Agree(names, first, n) /\ ~Agree(names, first, n + 1)
  BY DEF PrefixLength
<1> HIDE DEF first
<1>9. Agree(names, first, 1) /\ Agree(names, first, 2) /\ ~Agree(names, first, 3)
  <2> HIDE DEF names
  <2>3. \A a \in names : Len(a) = 3
    BY <1>7, Zenon
  <2>0. \A a \in names : Len(a) >= 1 /\ Len(a) >= 2
    BY <2>3
  <2>1. Agree(names, first, 1) /\ Agree(names, first, 2)
    BY <1>6, <1>7, <2>0 DEF Agree
  <2>2. ~Agree(names, first, 3)
    BY <1>4, <1>5, <1>6, <1>7 DEF Agree
  <2> QED
    BY <2>1, <2>2
<1> HIDE DEF names
<1>10. PrefixLength(names) = 2
  <2>1. Len(first) = 3
    BY <1>6, <1>7
  <2>2. \A n \in 0 .. Len(first) : Agree(names, first, n) /\ ~Agree(names, first, n + 1) <=> n = 2
    <3> TAKE n \in 0 .. Len(first)
    <3>1. n = 0 \/ n = 1 \/ n = 2 \/ n = 3
      BY <2>1
    <3>2. n = 0 => n + 1 = 1
      OBVIOUS
    <3>3. n = 1 => n + 1 = 2
      OBVIOUS
    <3>4. n = 2 => n + 1 = 3
      OBVIOUS
    <3> QED
      BY <1>9, <3>1, <3>2, <3>3, <3>4
  <2>3. 2 \in 0 .. Len(first)
    BY <2>1
  <2> QED
    BY <1>8, <2>2, <2>3
<1>11. RemovePrefixes(names) = {SubSeq(a, 3, 3) : a \in names}
  <2>1. RemovePrefixes(names) = {SubSeq(a, 2 + 1, Len(a)) : a \in names}
    BY <1>10 DEF RemovePrefixes
  <2>2. \A a \in names : SubSeq(a, 2 + 1, Len(a)) = SubSeq(a, 3, 3)
    <3>1. 2 + 1 = 3
      OBVIOUS
    <3> QED
      BY <1>7, <3>1
  <2> QED
    BY <2>1, <2>2
<1>12. {SubSeq(a, 3, 3) : a \in names} = {Number(i) : i \in 0 .. size - 1}
  BY <1>3 DEF names
<1> QED
  BY <1>2, <1>11, <1>12 DEF size

\* A handler is made only from a description of a network, so its network is one.
LEMMA HandledKnown ==
  ASSUME NEW kind \in Kinds, NEW text, KnownIfAny(text), NEW slot,
         Handled(kind, text, slot) # NoNet
  PROVE  Known(Handled(kind, text, slot).net)
<1>1. Handled(kind, text, slot).net = text /\ text.form \in Forms
  BY HandledGood
<1>2. text # Empty
  BY <1>1 DEF Empty, Forms
<1> QED
  BY <1>1, <1>2 DEF KnownIfAny

DInv ==
  /\ HInv
  /\ \A s \in Slots : obj[s] # NoNet => Known(obj[s].net)
  /\ KnownIfAny(tree.text) /\ KnownIfAny(buffer.text)

LEMMA CreateKnown ==
  ASSUME DInv, NEW input, KnownIfAny(input.text), KnownIfAny(input.bytes), NEW slot,
         Create(input, slot) # NoNet
  PROVE  Known(Create(input, slot).net)
<1>1. {"onnx", "simple", "lwtgraph"} = Kinds
  BY DEF Kinds
<1>2. \A kind \in Kinds : \A text :
        KnownIfAny(text) /\ Handled(kind, text, slot) # NoNet
          => Known(Handled(kind, text, slot).net)
  BY HandledKnown
<1>3. \A kind, name : KnownIfAny(TextOf(kind, name, input.text))
  <2> TAKE kind, name
  <2>1. ASSUME IsFile(name), name.ext # "root" PROVE Known(Disk[name])
    <3>1. name \in DOMAIN Disk
      BY <2>1 DEF IsFile, Saved
    <3> QED
      BY <3>1, HandlerAssumption DEF Known
  <2>2. KnownIfAny(FromTree(Branch(kind)))
    BY DEF FromTree, DInv, KnownIfAny
  <2> QED
    BY <2>1, <2>2 DEF TextOf, KnownIfAny
<1>4. \A name : CreateGuess(name, input.text, slot) # NoNet
                => Known(CreateGuess(name, input.text, slot).net)
  BY <1>1, <1>2, <1>3 DEF CreateGuess
<1>5. \A name, graph : CreateForm(name, input.text, graph, slot) # NoNet
                       => Known(CreateForm(name, input.text, graph, slot).net)
  <2> TAKE name, graph
  <2> DEFINE kind == IF graph THEN "lwtgraph" ELSE "simple"
  <2>1. kind \in Kinds /\ "onnx" \in Kinds
    BY <1>1
  <2>2. \/ CreateForm(name, input.text, graph, slot)
            = Handled("onnx", TextOf("onnx", name, input.text), slot)
        \/ CreateForm(name, input.text, graph, slot)
            = Handled(kind, TextOf(kind, name, input.text), slot)
    BY DEF CreateForm
  <2> HIDE DEF kind
  <2> QED
    BY <1>2, <1>3, <2>1, <2>2
<1>6. FromString(input, slot) # NoNet => Known(FromString(input, slot).net)
  BY <1>4, <1>5 DEF FromString
<1> QED
  BY <1>1, <1>2, <1>6 DEF Create

LEMMA TakesKnown ==
  ASSUME DInv, NEW s \in Slots, NEW h, h # NoNet => Known(h.net), Takes(s, h)
  PROVE  \A t \in Slots : obj'[t] # NoNet => Known(obj'[t].net)
<1>1. obj' = [t \in Slots |-> IF t = s /\ h # NoNet THEN h ELSE obj[t]]
  BY DEF Takes, DInv, HInv, GoodHandlers
<1> QED
  BY <1>1 DEF DInv

LEMMA KnownStep ==
  ASSUME "onnx" \notin CopyKinds, NEW Inputs, Described(Inputs), DInv,
         [HandlerNext(Inputs)]_netVars
  PROVE  DInv'
<1>0. HInv' /\ HInv
  BY HandlerStep DEF DInv
<1> DEFINE K == \A s \in Slots : obj[s] # NoNet => Known(obj[s].net)
<1>1. ASSUME NEW s \in Slots, NEW i \in Inputs, Make(s, i) PROVE DInv'
  <2>1. K'
    BY <1>1, CreateKnown, TakesKnown DEF Make, Described
  <2> QED
    BY <1>0, <1>1, <2>1 DEF Make, DInv
<1>2. ASSUME NEW s \in Slots, NEW t \in Slots, Copy(s, t) PROVE DInv'
  <2>1. obj[s].kind \in CopyKinds /\ CopyKinds \subseteq Kinds
    BY <1>2, HandlerAssumption DEF Copy
  <2>2. obj[s] # NoNet /\ obj[s].kind # "onnx" /\ Known(obj[s].net)
    BY <2>1 DEF Kinds, NoNet, DInv
  <2>3. CopyOf(obj[s], t) # NoNet => Known(CopyOf(obj[s], t).net)
    <3>1. Good(obj[s], s)
      BY <1>0 DEF HInv, GoodHandlers
    <3>2. CASE obj[s].text = Empty
      BY <2>2, <3>2 DEF CopyOf
    <3>3. CASE obj[s].text # Empty
      <4>1. obj[s].text = obj[s].net
        BY <2>2, <3>1, <3>3 DEF Good
      <4>2. CopyOf(obj[s], t).net = obj[s].text
        BY <2>2, <3>3 DEF CopyOf, Handler
      <4> QED
        BY <2>2, <4>1, <4>2
    <3> QED
      BY <3>2, <3>3
  <2>4. K'
    BY <1>2, <2>3, TakesKnown DEF Copy
  <2> QED
    BY <1>0, <1>2, <2>4 DEF Copy, DInv
<1>3. ASSUME NEW s \in Slots, Destroy(s) PROVE DInv'
  <2>1. obj' = [t \in Slots |-> IF t = s THEN NoNet ELSE obj[t]]
    BY <1>0, <1>3 DEF Destroy, HInv, GoodHandlers
  <2>2. K'
    BY <2>1 DEF DInv
  <2> QED
    BY <1>0, <1>3, <2>2 DEF Destroy, DInv
<1>4. ASSUME NEW s \in Slots, DeleteAllButNet(s) PROVE DInv'
  <2>1. obj' = [t \in Slots |-> IF t = s THEN Stripped(obj[s]) ELSE obj[t]]
    BY <1>0, <1>4 DEF DeleteAllButNet, HInv, GoodHandlers
  <2>2. obj[s] # NoNet /\ Stripped(obj[s]).net = obj[s].net
    BY <1>0, <1>4, StrippedGood DEF DeleteAllButNet, HInv, GoodHandlers
  <2>3. K'
    BY <2>1, <2>2 DEF DInv
  <2> QED
    BY <1>0, <1>4, <2>3 DEF DeleteAllButNet, DInv
<1>5. ASSUME NEW s \in Slots, obj[s] # NoNet PROVE KnownIfAny(obj[s].text)
  BY <1>0, <1>5 DEF HInv, GoodHandlers, Good, DInv, KnownIfAny
<1>6. ASSUME NEW s \in Slots, WriteTree(s) PROVE DInv'
  <2>1. KnownIfAny(tree'.text)
    BY <1>5, <1>6 DEF WriteTree
  <2> QED
    BY <1>0, <1>6, <2>1 DEF WriteTree, DInv
<1>7. ASSUME NEW s \in Slots, WriteBuffer(s) PROVE DInv'
  <2>1. KnownIfAny(buffer'.text)
    BY <1>5, <1>7 DEF WriteBuffer, Persisted
  <2> QED
    BY <1>0, <1>7, <2>1 DEF WriteBuffer, DInv
<1>8. ASSUME NEW s \in Slots, ReadBuffer(s) PROVE DInv'
  <2>1. buffer.kind \in Kinds /\ KnownIfAny(buffer.text)
    BY <1>0, <1>8 DEF ReadBuffer, HInv, GoodBuffer, DInv
  <2>2. Read(buffer, s) # NoNet => Known(Read(buffer, s).net)
    <3>1. ASSUME Read(buffer, s) # NoNet PROVE Known(Read(buffer, s).net)
      <4>1. Read(buffer, s).net = buffer.text /\ buffer.text.form \in Forms
        BY <2>1, <3>1, ReadGood
      <4>2. buffer.text # Empty
        BY <4>1 DEF Empty, Forms
      <4> QED
        BY <2>1, <4>1, <4>2 DEF KnownIfAny
    <3> QED
      BY <3>1
  <2>3. K'
    BY <1>8, <2>2, TakesKnown DEF ReadBuffer
  <2> QED
    BY <1>0, <1>8, <2>3 DEF ReadBuffer, DInv
<1>9. CASE UNCHANGED netVars
  BY <1>0, <1>9 DEF netVars, DInv
<1> QED
  BY <1>1, <1>2, <1>3, <1>4, <1>6, <1>7, <1>8, <1>9 DEF HandlerNext

LEMMA KnownUsable == DistinctNumbers /\ DInv => HandlersAreUsable
<1> SUFFICES ASSUME DistinctNumbers, DInv PROVE HandlersAreUsable
  OBVIOUS
<1>1. ExistingNetworksCompute /\ \A s \in Slots : obj[s] # NoNet => obj[s].layers = OutputKeys(obj[s])
  BY GoodComputes, GoodNamesLayers DEF DInv, HInv
<1>2. ASSUME NEW s \in Slots, obj[s] # NoNet,
             Len(Nodes[obj[s].net.net]) = 1, Nodes[obj[s].net.net][1].size > 1
      PROVE  OutputKeys(obj[s]) = {Number(i) : i \in 0 .. Nodes[obj[s].net.net][1].size - 1}
  <2>1. obj[s].net.net \in DOMAIN Nodes
    BY <1>2 DEF DInv, Known
  <2> QED
    BY <1>2, <2>1, NumberedOutputs DEF OutputKeys
<1> QED
  BY <1>1, <1>2 DEF HandlersAreUsable, OutputsAreNumbered

\* Such a handler also gives its outputs under the names compute() returns them,
\* and those of a network with one node are the numbers 0, 1, ... that its users
\* look up, whatever the node is called: removePrefixes().
THEOREM HandlersUsable ==
  ASSUME "onnx" \notin CopyKinds, DistinctNumbers, NEW CONSTANT Inputs, Described(Inputs)
  PROVE  HandlerSpec(Inputs) => []HandlersAreUsable
<1>1. NetInit => DInv
  BY InitGood DEF NetInit, HInv, DInv, NoTree, NoBuffer, KnownIfAny
<1>2. DInv /\ [HandlerNext(Inputs)]_netVars => DInv'
  BY KnownStep
<1>3. DInv => HandlersAreUsable
  BY KnownUsable
<1> QED
  BY <1>1, <1>2, <1>3, PTL DEF HandlerSpec

-----------------------------------------------------------------------------
(***************************************************************************)
(* The networks of a GAN.                                                  *)
(***************************************************************************)
\* The description LoadGAN() finds for a network: ONNX where there is such a file.
FileText(s, role) ==
  LET file(ext) == [stem |-> <<s.pid, s.etaMin, role>>, ext |-> ext]
  IN  Disk[IF file("onnx") \in DOMAIN Disk THEN file("onnx") ELSE file("json")]

NetsOfFiles ==
  \A r \in RolesOf(slice.pid) : obj[r] # NoNet => obj[r].net = FileText(slice, r)
StoredNets ==
  /\ \A r \in Roles : GoodBuffer(stored.nets[r])
  /\ \A r \in RolesOf(stored.slice.pid) :
       stored.nets[r].text \in {Empty, FileText(stored.slice, r)}
GInv == GoodHandlers /\ NetsOfFiles /\ StoredNets

LEMMA RolesOfType == ASSUME NEW pid PROVE RolesOf(pid) \subseteq Roles
  BY DEF RolesOf, Roles

\* What a name of the GAN is resolved to, and read from.
LEMMA CreateFromFile ==
  ASSUME NEW s, NEW r, Create(FileOf(s, r), r) # NoNet
  PROVE  Create(FileOf(s, r), r).net = FileText(s, r)
<1> DEFINE file(ext) == [stem |-> <<s.pid, s.etaMin, r>>, ext |-> ext]
           input == FileOf(s, r)
           name == ResolveGlobs(input.name)
<1>1. /\ input.name = file("*") /\ input.text = Empty
      /\ input.bytes = Empty /\ input.form = "unknown"
  BY DEF FileOf
<1>2. \A ext : Globbed(file("*"), ext) = file(ext)
  BY DEF Globbed
<1>3. \A ext : ext # "root" => (IsFile(file(ext)) <=> file(ext) \in DOMAIN Disk)
  <2>1. \A ext : ext # "root" => file(ext) # Saved
    BY DEF Saved
  <2>2. QED
    BY <2>1 DEF IsFile
<1>4. file("onnx") \in DOMAIN Disk \/ file("json") \in DOMAIN Disk
  <2>1. ~ResolveFails(input.name)
    BY DEF Create
  <2>2. file("*").ext = "*"
    OBVIOUS
  <2>3. QED
    BY <1>1, <1>2, <1>3, <2>1, <2>2 DEF ResolveFails
<1>5. name = IF file("onnx") \in DOMAIN Disk THEN file("onnx") ELSE file("json")
  <2>1. file("*").ext = "*"
    OBVIOUS
  <2>2. QED
    BY <1>1, <1>2, <1>3, <2>1 DEF ResolveGlobs
<1>6. name \in DOMAIN Disk /\ IsFile(name) /\ name.ext # "root" /\ Disk[name] = FileText(s, r)
  BY <1>3, <1>4, <1>5 DEF FileText
<1>7. \A kind, text : TextOf(kind, name, text) = Disk[name]
  BY <1>6 DEF TextOf
<1>8. Create(input, r) = CreateGuess(name, Empty, r)
  <2>1. Create(input, r) = FromString(input, r)
    BY <1>1 DEF Create
  <2>2. QED
    BY <1>1, <2>1 DEF FromString
<1>9. \/ Create(input, r) = Handled("onnx", Disk[name], r)
      \/ Create(input, r) = Handled("lwtgraph", Disk[name], r)
      \/ Create(input, r) = Handled("simple", Disk[name], r)
  BY <1>7, <1>8 DEF CreateGuess
<1>10. {"onnx", "lwtgraph", "simple"} \subseteq Kinds
  BY DEF Kinds
<1>11. QED
  BY <1>6, <1>9, <1>10, HandledGood

LEMMA InitGInv == GanInit("idle") => GInv
<1> SUFFICES ASSUME GanInit("idle") PROVE GInv
  OBVIOUS
<1>1. GoodHandlers /\ obj = [s \in Slots |-> NoNet]
  BY InitGood DEF GanInit, NetInit
<1>2. NetsOfFiles
  BY <1>1, RolesOfType, GanAssumption DEF NetsOfFiles
<1>3. stored = NotStored /\ stored.nets = [r \in Roles |-> NoBuffer]
  BY DEF GanInit, NotStored
<1>4. StoredNets
  BY <1>3, RolesOfType DEF StoredNets, GoodBuffer, NoBuffer
<1>5. QED
  BY <1>1, <1>2, <1>4 DEF GInv

\* Only setting the slice up and reading it back touch its networks.
LEMMA OtherSteps ==
  ASSUME [GanNext]_vars,
         \A s \in Slices : ~InitializeNetwork(s), ~SaveSlice, ~RestoreSlice
  PROVE  UNCHANGED <<obj, slice, stored>>
<1>1. CASE \E p \in Particles, e \in Before : Start(p, e)
  BY <1>1 DEF Start, SetUpIsKept, netVars
<1>2. CASE \E a \in Answers : AskNetwork(a)
  BY <1>2 DEF AskNetwork, SetUpIsKept, netVars
<1>3. CASE FillEnergy
  BY <1>3 DEF FillEnergy, NotLoaded, FillEnergies, RunAfter, StartLayer, SkipVoxel,
     FillVoxel, SetFractions, Return, SetUpIsKept, netVars
<1>4. CASE UNCHANGED vars
  BY <1>4 DEF vars, netVars, ganVars
<1>5. QED
  BY <1>1, <1>2, <1>3, <1>4 DEF GanNext

LEMMA NextGInv == GInv /\ [GanNext]_vars => GInv'
<1> SUFFICES ASSUME GInv, [GanNext]_vars PROVE GInv'
  OBVIOUS
<1> USE DEF GInv
<1>1. ASSUME NEW s \in Slices, InitializeNetwork(s) PROVE GInv'
  <2> DEFINE new == Loaded(s)
  <2>1. /\ slice' = s /\ stored' = stored
        /\ obj' = [t \in Slots |->
                     IF t \notin Roles THEN obj[t]
                     ELSE IF t = "low" /\ new["high"] = NoNet THEN NoNet ELSE new[t]]
    BY <1>1 DEF InitializeNetwork, shower
  <2>2. \A r \in Roles : Good(new[r], r)
    BY CreateGood DEF Loaded, Good
  <2>3. \A r \in RolesOf(s.pid) : new[r] # NoNet => new[r].net = FileText(s, r)
    BY CreateFromFile, RolesOfType DEF Loaded
  <2>4. GoodHandlers'
    BY <2>1, <2>2 DEF GoodHandlers, Good
  <2>5. NetsOfFiles'
    BY <2>1, <2>3, RolesOfType, GanAssumption DEF NetsOfFiles
  <2>6. StoredNets'
    BY <2>1 DEF StoredNets
  <2>7. QED
    BY <2>4, <2>5, <2>6
<1>2. CASE SaveSlice
  <2>1. /\ stored'.slice = slice
        /\ stored'.nets = [r \in Roles |-> Persisted(obj[r])]
        /\ UNCHANGED <<obj, slice>>
    BY <1>2 DEF SaveSlice, netVars
  <2>2. \A r \in Roles : Good(obj[r], r)
    BY GanAssumption DEF GoodHandlers
  <2>3. \A r \in Roles : GoodBuffer(Persisted(obj[r]))
    BY <2>2 DEF Persisted, GoodBuffer, Good, NoBuffer, NoNet
  <2>4. \A r \in RolesOf(slice.pid) : Persisted(obj[r]).text \in {Empty, FileText(slice, r)}
    BY <2>2, RolesOfType DEF Persisted, Good, NetsOfFiles, NoNet
  <2>5. StoredNets'
    BY <2>1, <2>3, <2>4, RolesOfType DEF StoredNets
  <2>6. GoodHandlers' /\ NetsOfFiles'
    BY <2>1 DEF GoodHandlers, NetsOfFiles
  <2>7. QED
    BY <2>5, <2>6
<1>3. CASE RestoreSlice
  <2>1. /\ slice' = stored.slice /\ stored' = stored
        /\ obj' = [t \in Slots |-> IF t \in Roles THEN ReadBack(t) ELSE obj[t]]
    BY <1>3 DEF RestoreSlice, shower
  <2>2. ASSUME NEW r \in Roles
        PROVE  /\ Good(ReadBack(r), r)
               /\ ReadBack(r) # NoNet =>
                    ReadBack(r).net = stored.nets[r].text /\ stored.nets[r].text # Empty
    <3>1. CASE stored.nets[r] = NoBuffer
      BY <3>1 DEF ReadBack, Good
    <3>2. CASE stored.nets[r] # NoBuffer
      <4>1. stored.nets[r].kind \in Kinds
        BY <3>2 DEF StoredNets, GoodBuffer
      <4>2. ReadBack(r) = Read(stored.nets[r], r)
        BY <3>2 DEF ReadBack
      <4>3. Empty.form \notin Forms
        BY DEF Empty, Forms
      <4>4. QED
        BY <4>1, <4>2, <4>3, ReadGood
    <3>3. QED
      BY <3>1, <3>2
  <2>3. GoodHandlers'
    BY <2>1, <2>2 DEF GoodHandlers
  <2>4. NetsOfFiles'
    BY <2>1, <2>2, RolesOfType, GanAssumption DEF NetsOfFiles, StoredNets
  <2>5. StoredNets'
    BY <2>1 DEF StoredNets
  <2>6. QED
    BY <2>3, <2>4, <2>5
<1>4. CASE (\A s \in Slices : ~InitializeNetwork(s)) /\ ~SaveSlice /\ ~RestoreSlice
  BY <1>4, OtherSteps DEF GoodHandlers, NetsOfFiles, StoredNets
<1>5. QED
  BY <1>1, <1>2, <1>3, <1>4

\* A slice that IsGanCorrectlyLoaded() accepts has the networks the files of its
\* particle and eta range describe, and each of them can compute: for every set
\* of files, and whether the slice was initialised, saved and read back, with or
\* without its descriptions, or failed to load and was set up again.
THEOREM GanIsOfItsFiles == GanSpec => [](LoadedFromItsFiles /\ ExistingNetworksCompute)
<1>1. GanInit("idle") => GInv
  BY InitGInv
<1>2. GInv /\ [GanNext]_vars => GInv'
  BY NextGInv
<1>3. GInv => LoadedFromItsFiles
  BY DEF GInv, NetsOfFiles, FileText, LoadedFromItsFiles, IsGanCorrectlyLoaded
<1>4. GInv => ExistingNetworksCompute
  BY GoodComputes DEF GInv
<1>5. QED
  BY <1>1, <1>2, <1>3, <1>4, PTL DEF GanSpec
-----------------------------------------------------------------------------
(***************************************************************************)
(* The network a shower asks.                                              *)
(***************************************************************************)
\* The slices are those of the particles the GANs were trained for, and the
\* showers are asked for momenta, in MeV, the labels of their networks cover.
LeastMomentum(pid) ==
  2 ^ (IF Electromagnetic(pid) THEN 6 ELSE IF pid = 211 THEN 8 ELSE 10)
Trained ==
  \A s \in Slices : /\ s.pid \in {22, 11, 211, 2212}
                    /\ \A q \in Particles : q.p \in LeastMomentum(s.pid) .. 2 ^ 22

\* A slice and its binning: only a network for all momenta has a binning of
\* version 1.
SetUp(s, binning) == s \in Slices /\ (binning.version = 1 => OneNet(s.pid))

AInv ==
  /\ GInv
  /\ slice # NoSlice => SetUp(slice, param)
  /\ stored # NotStored => SetUp(stored.slice, stored.param)
  /\ pc = "fill" => slice # NoSlice /\ truth \in Particles
  /\ AskedForItsMomentum

LEMMA BinningFits ==
  ASSUME Trained, NEW s \in Slices, NEW b \in BinsFor(s)
  PROVE  b.version = 1 => OneNet(s.pid)
<1>1. b \in Xml /\ b.pid = XmlPid(s.pid) /\ s.pid \in {22, 11, 211, 2212}
  BY DEF BinsFor, Trained
<1>2. b.version >= 2 \/ b.pid = 211
  BY <1>1, GanAssumption
<1>3. CASE s.pid \in {22, 11}
  BY <1>1, <1>2, <1>3 DEF XmlPid
<1>4. CASE s.pid \in {211, 2212}
  BY <1>4 DEF OneNet
<1> QED
  BY <1>1, <1>3, <1>4

\* The label of the network asked covers the momentum of the particle.
LEMMA LabelCovers ==
  ASSUME Trained, SetUp(slice, param), NEW q \in Particles
  PROVE  /\ RoleAsked(q.p) \in RolesOf(slice.pid)
         /\ 2 ^ Exponents(q.p)[1] <= q.p /\ q.p <= 2 ^ Exponents(q.p)[2]
         /\ RoleAsked(q.p) = "low" => Exponents(q.p)[2] = 12
         /\ RoleAsked(q.p) = "high" => Exponents(q.p)[1] = 12
<1>1. /\ slice.pid \in {22, 11, 211, 2212} /\ q.p \in LeastMomentum(slice.pid) .. 2 ^ 22
      /\ param.version = 1 => OneNet(slice.pid)
  BY DEF Trained, SetUp
<1>2. 2 ^ 12 = 4096 /\ \A i \in {6, 8, 10, 22} : 2 ^ i \in Nat
  BY SMT
<1>3. CASE slice.pid \in {22, 11}
  <2>1. ~OneNet(slice.pid) /\ Electromagnetic(slice.pid) /\ param.version # 1
    BY <1>1, <1>3 DEF OneNet, Electromagnetic
  <2>2. RolesOf(slice.pid) = {"high", "low"}
    BY <2>1 DEF RolesOf
  <2>3. q.p \in 2 ^ 6 .. 2 ^ 22
    BY <1>1, <2>1 DEF LeastMomentum
  <2>6. Exponents(q.p) = IF HighMomentum(q.p) THEN <<12, 22>> ELSE <<6, 12>>
    BY <1>3, <2>1 DEF Exponents
  <2>4. CASE q.p > 4096
    <3>1. RoleAsked(q.p) = "high"
      BY <2>1, <2>4 DEF RoleAsked
    <3>2. HighMomentum(q.p)
      BY <2>4 DEF HighMomentum
    <3>3. Exponents(q.p) = <<12, 22>>
      BY <2>6, <3>2
    <3> QED
      BY <1>2, <2>2, <2>3, <2>4, <3>1, <3>3
  <2>5. CASE ~(q.p > 4096)
    <3>1. RoleAsked(q.p) = "low"
      BY <2>1, <2>5 DEF RoleAsked
    <3>2. ~HighMomentum(q.p)
      BY <2>5 DEF HighMomentum
    <3>3. Exponents(q.p) = <<6, 12>>
      BY <2>6, <3>2
    <3> QED
      BY <1>2, <2>2, <2>3, <2>5, <3>1, <3>3
  <2> QED
    BY <2>4, <2>5
<1>4. CASE slice.pid \in {211, 2212}
  <2>1. OneNet(slice.pid) /\ ~Electromagnetic(slice.pid)
    BY <1>4 DEF OneNet, Electromagnetic
  <2>2. RolesOf(slice.pid) = {"all"} /\ RoleAsked(q.p) = "all"
    BY <2>1 DEF RolesOf, RoleAsked
  <2>3. CASE slice.pid = 211
    <3>1. Exponents(q.p) = <<8, 22>> /\ q.p \in 2 ^ 8 .. 2 ^ 22
      BY <1>1, <2>1, <2>3 DEF Exponents, LeastMomentum
    <3> QED
      BY <1>2, <2>2, <3>1
  <2>4. CASE slice.pid = 2212
    <3>1. Exponents(q.p) = <<10, 22>> /\ q.p \in 2 ^ 10 .. 2 ^ 22
      BY <1>1, <2>1, <2>4 DEF Exponents, LeastMomentum
    <3> QED
      BY <1>2, <2>2, <3>1
  <2> QED
    BY <1>4, <2>3, <2>4
<1> QED
  BY <1>1, <1>3, <1>4

LEMMA AskStep ==
  ASSUME Trained, AInv, NEW a \in Answers, AskNetwork(a)
  PROVE  AskedForItsMomentum' /\ pc' # "fill"
<1>1. slice # NoSlice /\ truth \in Particles /\ truth' = truth /\ IsGanCorrectlyLoaded
      /\ SetUp(slice, param) /\ GoodHandlers
  BY DEF AskNetwork, AInv, GInv
<1> DEFINE role == RoleAsked(truth.p)
           exps == Exponents(truth.p)
<1>2. /\ asked' = [role |-> role, minExp |-> exps[1], maxExp |-> exps[2]]
      /\ ~Computes(obj[role]) \/ pc' \in {"skipped", "energies"}
      /\ pc' # "fill"
  BY DEF AskNetwork
<1>3. /\ role \in RolesOf(slice.pid)
      /\ 2 ^ exps[1] <= truth.p /\ truth.p <= 2 ^ exps[2]
      /\ role = "low" => exps[2] = 12
      /\ role = "high" => exps[1] = 12
  BY <1>1, LabelCovers
<1>4. Computes(obj[role])
  <2>1. obj[role] # NoNet /\ role \in Slots
    BY <1>1, <1>3, RolesOfType, GanAssumption DEF IsGanCorrectlyLoaded
  <2>2. ExistingNetworksCompute
    BY <1>1, GoodComputes
  <2> QED
    BY <2>1, <2>2 DEF ExistingNetworksCompute
<1> HIDE DEF role, exps
<1>5. pc' # "crashed" /\ pc' # "fill"
  BY <1>2, <1>4
<1> QED
  BY <1>1, <1>2, <1>3, <1>5 DEF AskedForItsMomentum

LEMMA NextAInv == Trained /\ AInv /\ [GanNext]_vars => AInv'
<1> SUFFICES ASSUME Trained, AInv, [GanNext]_vars PROVE AInv'
  OBVIOUS
<1>0. GInv'
  BY NextGInv DEF AInv
<1>1. ASSUME NEW s \in Slices, InitializeNetwork(s) PROVE AInv'
  <2>1. /\ slice' = s /\ UNCHANGED <<stored, pc, truth, asked>> /\ pc = "idle"
        /\ \E b \in BinsFor(s) : param' = [version |-> b.version, sym |-> b.sym, layers |-> b.layers]
    BY <1>1 DEF InitializeNetwork, shower
  <2>2. SetUp(slice', param')
    BY <2>1, BinningFits DEF SetUp
  <2>3. (stored # NotStored => SetUp(stored.slice, stored.param))'
    BY <2>1 DEF AInv, SetUp
  <2>4. AskedForItsMomentum'
    BY <2>1 DEF AInv, AskedForItsMomentum
  <2> QED
    BY <1>0, <2>1, <2>2, <2>3, <2>4 DEF AInv
<1>2. CASE SaveSlice
  <2>1. /\ slice # NoSlice /\ UNCHANGED <<slice, param, pc, truth, asked>> /\ pc = "idle"
        /\ stored'.slice = slice /\ stored'.param = param
    BY <1>2 DEF SaveSlice, shower
  <2>2. SetUp(slice, param)
    BY <2>1 DEF AInv
  <2>3. AskedForItsMomentum'
    BY <2>1 DEF AInv, AskedForItsMomentum
  <2> QED
    BY <1>0, <2>1, <2>2, <2>3 DEF AInv, SetUp
<1>3. CASE RestoreSlice
  <2>1. /\ stored # NotStored /\ slice' = stored.slice /\ param' = stored.param
        /\ UNCHANGED <<stored, pc, truth, asked>> /\ pc = "idle"
    BY <1>3 DEF RestoreSlice, shower
  <2>2. SetUp(stored.slice, stored.param)
    BY <2>1 DEF AInv
  <2>3. AskedForItsMomentum'
    BY <2>1 DEF AInv, AskedForItsMomentum
  <2> QED
    BY <1>0, <2>1, <2>2, <2>3 DEF AInv, SetUp
<1>4. ASSUME NEW q \in Particles, NEW e \in Before, Start(q, e) PROVE AInv'
  <2>1. /\ UNCHANGED <<slice, param, stored>> /\ truth' = q /\ (pc' = "fill" => slice # NoSlice)
        /\ asked'.role = "none"
    BY <1>4 DEF Start, SetUpIsKept, NotAsked
  <2>2. AskedForItsMomentum'
    BY <2>1 DEF AskedForItsMomentum
  <2> QED
    BY <1>0, <2>1, <2>2 DEF AInv, SetUp
<1>5. ASSUME NEW a \in Answers, AskNetwork(a) PROVE AInv'
  <2>1. UNCHANGED <<slice, param, stored>>
    BY <1>5 DEF AskNetwork, SetUpIsKept
  <2> QED
    BY <1>0, <1>5, <2>1, AskStep DEF AInv, SetUp
<1>6. CASE FillEnergy \/ UNCHANGED vars
  <2>1. UNCHANGED <<slice, param, stored, truth, asked>>
    BY <1>6 DEF FillEnergy, NotLoaded, FillEnergies, RunAfter, StartLayer, SkipVoxel, FillVoxel,
       SetFractions, Return, SetUpIsKept, shower, vars, ganVars
  <2>2. pc' = pc \/ pc' \notin {"crashed", "fill"}
    <3>1. CASE NotLoaded \/ FillEnergies \/ RunAfter \/ StartLayer \/ SetFractions \/ Return
      BY <3>1 DEF NotLoaded, FillEnergies, RunAfter, StartLayer, SetFractions, Return
    <3>2. CASE SkipVoxel
      BY <3>2 DEF SkipVoxel, Moves
    <3>3. CASE FillVoxel
      BY <3>3 DEF FillVoxel, Moves
    <3>4. CASE UNCHANGED vars
      BY <3>4 DEF vars, ganVars
    <3> QED
      BY <1>6, <3>1, <3>2, <3>3, <3>4 DEF FillEnergy
  <2>3. AskedForItsMomentum'
    BY <2>1, <2>2 DEF AInv, AskedForItsMomentum
  <2> QED
    BY <1>0, <2>1, <2>2, <2>3 DEF AInv, SetUp
<1> QED
  BY <1>1, <1>2, <1>3, <1>4, <1>5, <1>6 DEF GanNext

\* Every shower asks a network that was loaded from the files of its slice, for
\* the side of the split its momentum is on, with a label in the range that
\* network was trained with: TFCSGANEtaSlice::LoadGAN() and GetNetworkOutputs()
\* choose alike, also for a slice that was saved and read back.
THEOREM GanAsksTheRightNetwork == ASSUME Trained PROVE GanSpec => []RightNetworkAsked
<1>1. GanInit("idle") => AInv
  <2> SUFFICES ASSUME GanInit("idle") PROVE AInv
    OBVIOUS
  <2>1. GInv
    BY InitGInv
  <2>2. slice = NoSlice /\ stored = NotStored /\ pc # "fill" /\ asked.role = "none"
    BY DEF GanInit, NotAsked
  <2> QED
    BY <2>1, <2>2 DEF AInv, AskedForItsMomentum
<1>2. AInv /\ [GanNext]_vars => AInv'
  BY NextAInv
<1>3. AInv => RightNetworkAsked
  BY DEF AInv, GInv, NetsOfFiles, FileText, LoadedFromItsFiles, IsGanCorrectlyLoaded,
     RightNetworkAsked
<1> QED
  BY <1>1, <1>2, <1>3, PTL DEF GanSpec

-----------------------------------------------------------------------------
(***************************************************************************)
(* The voxels and the hits.  The voxels are counted through the layers and *)
(* the bins by sums, of which the first part proves what is needed; the    *)
(* invariant then says, at each layer and each voxel, which voxel has its  *)
(* turn and how much of the energy of every layer its hits have had.       *)
(***************************************************************************)
-----------------------------------------------------------------------------
\* Induction: a set of numbers that is not empty has a least one, ...
LEMMA Least ==
  ASSUME NEW T, T \subseteq Nat, T # {}
  PROVE  \E m \in T : \A k \in T : m <= k
<1>1. \E x \in T : \A y \in T : ~(<<y, x>> \in OpToRel(<, Nat))
  BY WFMin, NatLessThanWellFounded
<1>2. \A x, y \in Nat : <<y, x>> \in OpToRel(<, Nat) <=> y < x
  BY DEF OpToRel
<1>3. PICK x \in T : \A y \in T : ~(y < x)
  BY <1>1, <1>2
<1> QED
  BY <1>3

\* ... so one that has 0 and with a number its successor has them all.
LEMMA NatInduct ==
  ASSUME NEW T, 0 \in T, \A k \in Nat : k \in T => k + 1 \in T
  PROVE  Nat \subseteq T
<1> SUFFICES ASSUME Nat \ T # {} PROVE FALSE
  OBVIOUS
<1>1. PICK m \in Nat \ T : \A k \in Nat \ T : m <= k
  BY Least
<1>2. m - 1 \in Nat /\ m - 1 \notin Nat \ T
  BY <1>1
<1> QED
  BY <1>1, <1>2

\* SumUpTo() is defined by a function that exists and is unique.
IsSum(s, n, f) == f = [i \in 0 .. n |-> IF i = 0 THEN 0 ELSE f[i - 1] + s[i]]

LEMMA SumExists ==
  ASSUME NEW s, NEW n \in Nat
  PROVE  \E f : IsSum(s, n, f)
<1> DEFINE T == {k \in Nat : \E f : IsSum(s, k, f)}
<1>1. 0 \in T
  <2>1. IsSum(s, 0, [i \in 0 .. 0 |-> 0])
    BY DEF IsSum
  <2> QED
    BY <2>1
<1>2. ASSUME NEW k \in Nat, k \in T PROVE k + 1 \in T
  <2>1. PICK g : IsSum(s, k, g)
    BY <1>2
  <2> DEFINE h == [i \in 0 .. k + 1 |-> IF i <= k THEN g[i] ELSE g[k] + s[k + 1]]
  <2>2. IsSum(s, k + 1, h)
    BY <2>1 DEF IsSum
  <2> QED
    BY <2>2
<1> HIDE DEF T
<1>3. Nat \subseteq T
  BY <1>1, <1>2, NatInduct
<1> QED
  BY <1>3 DEF T

LEMMA SumUnique ==
  ASSUME NEW s, NEW n \in Nat, NEW m \in Nat, m <= n, NEW f, NEW g,
         IsSum(s, n, f), IsSum(s, m, g)
  PROVE  \A i \in 0 .. m : f[i] = g[i]
<1> DEFINE T == {k \in Nat : k <= m => f[k] = g[k]}
<1>1. 0 \in T
  BY DEF IsSum
<1>2. ASSUME NEW k \in Nat, k \in T PROVE k + 1 \in T
  BY <1>2 DEF IsSum
<1> HIDE DEF T
<1>3. Nat \subseteq T
  BY <1>1, <1>2, NatInduct
<1> QED
  BY <1>3 DEF T

LEMMA SumIs ==
  ASSUME NEW s, NEW n \in Nat
  PROVE  \E f : IsSum(s, n, f) /\ SumUpTo(s, n) = f[n]
<1>1. SumUpTo(s, n) = (CHOOSE f : IsSum(s, n, f))[n]
  BY DEF SumUpTo, IsSum
<1> QED
  BY <1>1, SumExists

LEMMA SumZero == ASSUME NEW s PROVE SumUpTo(s, 0) = 0
<1>1. PICK f : IsSum(s, 0, f) /\ SumUpTo(s, 0) = f[0]
  BY SumIs
<1> QED
  BY <1>1 DEF IsSum

LEMMA SumStep ==
  ASSUME NEW s, NEW n \in Nat
  PROVE  SumUpTo(s, n + 1) = SumUpTo(s, n) + s[n + 1]
<1>1. PICK f : IsSum(s, n + 1, f) /\ SumUpTo(s, n + 1) = f[n + 1]
  BY SumIs
<1>2. PICK g : IsSum(s, n, g) /\ SumUpTo(s, n) = g[n]
  BY SumIs
<1>3. f[n] = g[n]
  BY <1>1, <1>2, SumUnique
<1>4. f[n + 1] = f[n] + s[n + 1]
  BY <1>1 DEF IsSum
<1> QED
  BY <1>1, <1>2, <1>3, <1>4

LEMMA SumInt ==
  ASSUME NEW s, NEW N \in Nat, \A i \in 1 .. N : s[i] \in Int
  PROVE  \A n \in 0 .. N : SumUpTo(s, n) \in Int
<1> DEFINE T == {k \in Nat : k <= N => SumUpTo(s, k) \in Int}
<1>1. 0 \in T
  BY SumZero
<1>2. ASSUME NEW k \in Nat, k \in T PROVE k + 1 \in T
  BY <1>2, SumStep
<1> HIDE DEF T
<1>3. Nat \subseteq T
  BY <1>1, <1>2, NatInduct
<1> QED
  BY <1>3 DEF T

LEMMA SumOfZeros ==
  ASSUME NEW s, NEW N \in Nat, \A i \in 1 .. N : s[i] = 0
  PROVE  SumUpTo(s, N) = 0
<1> DEFINE T == {k \in Nat : k <= N => SumUpTo(s, k) = 0}
<1>1. 0 \in T
  BY SumZero
<1>2. ASSUME NEW k \in Nat, k \in T PROVE k + 1 \in T
  BY <1>2, SumStep
<1> HIDE DEF T
<1>3. Nat \subseteq T
  BY <1>1, <1>2, NatInduct
<1> QED
  BY <1>3 DEF T


LEMMA SumNat ==
  ASSUME NEW s, NEW N \in Nat, \A i \in 1 .. N : s[i] \in Nat
  PROVE  \A n \in 0 .. N : SumUpTo(s, n) \in Nat
<1> DEFINE T == {k \in Nat : k <= N => SumUpTo(s, k) \in Nat}
<1>1. 0 \in T
  BY SumZero
<1>2. ASSUME NEW k \in Nat, k \in T PROVE k + 1 \in T
  BY <1>2, SumStep
<1> HIDE DEF T
<1>3. Nat \subseteq T
  BY <1>1, <1>2, NatInduct
<1> QED
  BY <1>3 DEF T

\* A sum of numbers that are not negative does not fall.
LEMMA SumGrows ==
  ASSUME NEW s, NEW N \in Nat, \A i \in 1 .. N : s[i] \in Nat, NEW m \in 0 .. N
  PROVE  SumUpTo(s, m) <= SumUpTo(s, N)
<1> DEFINE T == {k \in Nat : k >= m /\ k <= N => SumUpTo(s, m) <= SumUpTo(s, k)}
<1>0. \A n \in 0 .. N : SumUpTo(s, n) \in Nat
  BY SumNat
<1>1. 0 \in T
  BY <1>0
<1>2. ASSUME NEW k \in Nat, k \in T PROVE k + 1 \in T
  <2>1. SumUpTo(s, k + 1) = SumUpTo(s, k) + s[k + 1]
    BY SumStep
  <2> QED
    BY <1>0, <1>2, <2>1
<1> HIDE DEF T
<1>3. Nat \subseteq T
  BY <1>1, <1>2, NatInduct
<1> QED
  BY <1>3 DEF T

-----------------------------------------------------------------------------
\* What a setup of the slice leaves: a binning of layers, which is stored with it.
BinningKept ==
  /\ slice # NoSlice => Binned(param.layers)
  /\ slice = NoSlice => stored = NotStored /\ pc \in {"idle", "fatal", "crashed"} /\ hit = NoHit
  /\ stored # NotStored => stored.slice = slice /\ stored.param = param

\* The energy of the hits of a layer once n of its voxels had their turn.
HitEnergy(l) == IF l \in DOMAIN given THEN given[l] ELSE 0
GivenUpTo(l, n) ==
  IF Fine(l) /\ ~Electromagnetic(truth.pdg)
  THEN HitEnergy(l) \in Nat /\ HitEnergy(l) <= SumUpTo(EnergyOf(l), n)
  ELSE HitEnergy(l) = SumUpTo(EnergyOf(l), n)
NSorted == Cardinality(DOMAIN param.layers)

\* The number of voxels before a bin, and how many of the voxels of a layer had
\* their turn.
Offset(l, b) == SumUpTo(InRBins(l), b[1] - 1) + b[2] - 1
TurnsOf(k) ==
  IF k < layer THEN VoxelsIn(Sorted[k])
  ELSE IF k = layer /\ pc = "voxel" THEN Offset(AtLayer, bin) ELSE 0
Answered ==
  /\ \A l \in DOMAIN param.layers : \A v \in Voxels(l) : v < Len(outputs)
  /\ energy = [l \in {k \in DOMAIN param.layers : Positive(k) # {}} |->
                 SumUpTo(EnergyOf(l), VoxelsIn(l))]
AtVoxel ==
  /\ layer <= NSorted /\ Used(AtLayer)
  /\ bin \in Nat \X Nat
  /\ bin[1] \in 1 .. RBins(AtLayer) /\ bin[2] \in 1 .. AlphaBins(AtLayer, bin[1])
ShowerKept ==
  /\ einit \in Nat
  /\ pc = "fill" => etot \in Nat
  /\ pc # "idle" => truth \in Particles
  /\ pc \in {"fill", "energies", "after"} => given = <<>>
  /\ pc \in {"energies", "after", "layer", "voxel"} => outputs \in Seq(Int)
  /\ pc \in {"after", "layer", "voxel", "done"} => Answered
  /\ pc \in {"layer", "voxel"} =>
       /\ layer \in 1 .. NSorted + 1
       /\ \A k \in 1 .. NSorted : GivenUpTo(Sorted[k], TurnsOf(k))
       /\ DOMAIN given \subseteq DOMAIN energy
  /\ pc = "layer" => vox = SumUpTo(InLayers, layer - 1)
  /\ pc = "voxel" => AtVoxel /\ vox = FirstVoxel(AtLayer) + Offset(AtLayer, bin)
  /\ pc = "done" =>
       /\ \A k \in 1 .. NSorted : GivenUpTo(Sorted[k], VoxelsIn(Sorted[k]))
       /\ DOMAIN given \subseteq DOMAIN energy
VInv == BinningKept /\ ShowerKept /\ (slice # NoSlice => HitsAreInTheirBin)

-----------------------------------------------------------------------------
\* The layers in the order of the map.
LEMMA LayersInOrder ==
  ASSUME Binned(param.layers)
  PROVE  /\ NSorted \in Nat /\ Len(Sorted) = NSorted
         /\ \A i \in 1 .. NSorted :
              Sorted[i] \in DOMAIN param.layers /\ LayersBelow(Sorted[i]) = i - 1
         /\ \A l \in DOMAIN param.layers :
              LayersBelow(l) + 1 \in 1 .. NSorted /\ Sorted[LayersBelow(l) + 1] = l
<1> DEFINE S == DOMAIN param.layers
           n == Cardinality(S)
           Less(c) == {d \in S : d < c}
           rank(c) == Cardinality(Less(c))
           f == [c \in S |-> rank(c) + 1]
<1>1. n \in Nat /\ IsFiniteSet(S) /\ S \subseteq Nat
  BY FS_CardinalityType DEF Binned
<1> HIDE DEF S
<1>2. \A c \in S : IsFiniteSet(Less(c)) /\ rank(c) \in Nat /\ rank(c) < n
  <2> SUFFICES ASSUME NEW c \in S PROVE IsFiniteSet(Less(c)) /\ rank(c) \in Nat /\ rank(c) < n
    OBVIOUS
  <2>1. Less(c) \in SUBSET S /\ c \notin Less(c)
    BY <1>1
  <2>2. IsFiniteSet(Less(c)) /\ rank(c) <= n /\ (n = rank(c) => S = Less(c))
    BY <1>1, <2>1, FS_Subset
  <2>3. rank(c) \in Nat
    BY <2>2, FS_CardinalityType
  <2> HIDE DEF Less
  <2> QED
    BY <1>1, <2>1, <2>2, <2>3
<1>3. ASSUME NEW c \in S, NEW d \in S, c < d PROVE rank(c) < rank(d)
  <2>0. (\A x \in S : x < c => x < d) /\ ~(c < c)
    BY <1>1, <1>3
  <2>1. Less(c) \in SUBSET Less(d) /\ c \in Less(d) /\ c \notin Less(c)
    BY <1>3, <2>0
  <2>2. rank(c) <= rank(d) /\ (rank(d) = rank(c) => Less(d) = Less(c))
    BY <1>2, <2>1, FS_Subset
  <2> HIDE DEF Less
  <2> QED
    BY <1>2, <2>1, <2>2
<1>4. \A c, d \in S : rank(c) = rank(d) => c = d
  <2> SUFFICES ASSUME NEW c \in S, NEW d \in S, c # d PROVE rank(c) # rank(d)
    OBVIOUS
  <2>1. c < d \/ d < c
    BY <1>1
  <2>2. rank(c) < rank(d) \/ rank(d) < rank(c)
    BY <1>3, <2>1
  <2>3. rank(c) \in Nat /\ rank(d) \in Nat
    BY <1>2
  <2> HIDE DEF rank
  <2> QED
    BY <2>2, <2>3
<1> HIDE DEF Less
<1>5. f \in Surjection(S, 1 .. n)
  <2>1. f \in [S -> 1 .. n]
    BY <1>1, <1>2
  <2>2. \A c, d \in S : f[c] = f[d] => c = d
    BY <1>2, <1>4
  <2>3. f \in Injection(S, 1 .. n)
    BY <2>1, <2>2, Zenon DEF Injection, IsInjective
  <2>4. IsFiniteSet(1 .. n) /\ Cardinality(1 .. n) = n
    <3>1. 1 \in Int /\ n \in Int
      BY <1>1
    <3>2. IsFiniteSet(1 .. n) /\ Cardinality(1 .. n) = IF 1 > n THEN 0 ELSE n - 1 + 1
      BY <3>1, FS_Interval
    <3> QED
      BY <3>2, <1>1
  <2> QED
    BY <2>3, <2>4, FS_Injection
<1>6. \A i \in 1 .. n : \E c \in S : rank(c) = i - 1
  <2> SUFFICES ASSUME NEW i \in 1 .. n PROVE \E c \in S : rank(c) = i - 1
    OBVIOUS
  <2>1. PICK c \in S : f[c] = i
    BY <1>5 DEF Surjection
  <2> QED
    BY <2>1, <1>2
<1>7. /\ Sorted = [i \in 1 .. n |-> CHOOSE c \in S : rank(c) = i - 1]
      /\ n = NSorted /\ \A c : LayersBelow(c) = rank(c)
  BY DEF Sorted, LayersBelow, NSorted, S, Less
<1> HIDE DEF rank, n
<1>8. \A i \in 1 .. n : Sorted[i] \in S /\ rank(Sorted[i]) = i - 1
  BY <1>6, <1>7
<1>9. Len(Sorted) = n
  BY <1>1, <1>7
<1>10. ASSUME NEW c \in S PROVE rank(c) + 1 \in 1 .. n /\ Sorted[rank(c) + 1] = c
  <2>1. rank(c) + 1 \in 1 .. n
    BY <1>1, <1>2
  <2>2. rank(Sorted[rank(c) + 1]) = rank(c) /\ Sorted[rank(c) + 1] \in S
    BY <1>2, <1>8, <2>1
  <2> QED
    BY <1>4, <2>1, <2>2
<1> QED
  BY <1>1, <1>7, <1>8, <1>9, <1>10 DEF S

\* The bins in alpha of a bin in r, merged from those of the axis.
LEMMA AlphaBinsFit ==
  ASSUME Binned(param.layers), NEW l \in DOMAIN param.layers, NEW ix \in 1 .. RBins(l)
  PROVE  /\ RBins(l) \in Nat /\ Low(l, ix) \in Nat /\ Up(l, ix) \in Nat
         /\ Low(l, ix) < Up(l, ix)
         /\ AlphaBins(l, ix) \in Nat \ {0} /\ ToMerge(l, ix) \in Nat \ {0}
         /\ ToMerge(l, ix) * AlphaBins(l, ix) = param.layers[l].alpha
<1> DEFINE edges == param.layers[l].edges
<1>1. /\ edges \in Seq(Nat) /\ edges # <<>> /\ RBins(l) = Len(edges) - 1
      /\ \A i \in 1 .. Len(edges) - 1 : edges[i] < edges[i + 1]
      /\ param.layers[l].alpha \in Nat \ {0}
  BY DEF Binned, RBins
<1>2. Len(edges) \in Nat /\ Len(edges) >= 1
  BY <1>1
<1> HIDE DEF edges
<1>3. /\ edges[ix] \in Nat /\ edges[ix + 1] \in Nat /\ edges[ix] < edges[ix + 1]
      /\ RBins(l) \in Nat
  <2>1. RBins(l) \in Nat /\ ix \in 1 .. Len(edges) - 1
    BY <1>1, <1>2
  <2>2. ix \in 1 .. Len(edges) /\ ix + 1 \in 1 .. Len(edges)
    BY <1>2, <2>1
  <2>3. edges[ix] < edges[ix + 1]
    BY <1>1, <2>1
  <2> QED
    BY <1>1, <2>1, <2>2, <2>3
<1>4. Low(l, ix) = edges[ix] /\ Up(l, ix) = edges[ix + 1]
  BY DEF Low, Up, edges
<1>5. CASE param.layers[l].alpha = 32
  <2>1. AlphaBins(l, ix) \in {4, 8, 16, 32}
    BY <1>5 DEF AlphaBins, GetBinsInFours
  <2>2. ToMerge(l, ix) = 32 \div AlphaBins(l, ix)
    BY <1>5 DEF ToMerge
  <2>3. \A n \in {4, 8, 16, 32} : 32 \div n \in Nat \ {0} /\ (32 \div n) * n = 32
    OBVIOUS
  <2>4. ToMerge(l, ix) \in Nat \ {0} /\ ToMerge(l, ix) * AlphaBins(l, ix) = 32
    BY <2>1, <2>2, <2>3
  <2>5. AlphaBins(l, ix) \in Nat \ {0}
    BY <2>1
  <2> QED
    BY <1>3, <1>4, <1>5, <2>4, <2>5
<1>6. CASE param.layers[l].alpha # 32
  <2>1. AlphaBins(l, ix) = param.layers[l].alpha /\ ToMerge(l, ix) = 1
    BY <1>6 DEF AlphaBins, ToMerge
  <2> QED
    BY <1>1, <1>3, <1>4, <2>1
<1> QED
  BY <1>5, <1>6

\* The voxels of a layer, and where in it a bin has its voxel.
LEMMA VoxelsOfLayer ==
  ASSUME Binned(param.layers), NEW l \in DOMAIN param.layers
  PROVE  VoxelsIn(l) \in Nat /\ RBins(l) \in Nat
<1>1. RBins(l) \in Nat
  BY DEF Binned, RBins
<1>2. \A i \in 1 .. RBins(l) : InRBins(l)[i] \in Nat
  BY AlphaBinsFit DEF InRBins
<1>3. \A n \in 0 .. RBins(l) : SumUpTo(InRBins(l), n) \in Nat
  BY <1>1, <1>2, SumNat
<1> QED
  BY <1>1, <1>3 DEF VoxelsIn

LEMMA FirstVoxels ==
  ASSUME Binned(param.layers)
  PROVE  /\ \A n \in 0 .. NSorted : SumUpTo(InLayers, n) \in Nat
         /\ \A i \in 1 .. NSorted :
              /\ FirstVoxel(Sorted[i]) = SumUpTo(InLayers, i - 1)
              /\ SumUpTo(InLayers, i) = FirstVoxel(Sorted[i]) + VoxelsIn(Sorted[i])
         /\ \A l \in DOMAIN param.layers : FirstVoxel(l) \in Nat
<1>1. \A i \in 1 .. NSorted : InLayers[i] = VoxelsIn(Sorted[i]) /\ InLayers[i] \in Nat
  BY LayersInOrder, VoxelsOfLayer DEF InLayers
<1>2. NSorted \in Nat
  BY LayersInOrder
<1>3. \A n \in 0 .. NSorted : SumUpTo(InLayers, n) \in Nat
  BY <1>1, <1>2, SumNat
<1>4. ASSUME NEW i \in 1 .. NSorted
      PROVE  /\ FirstVoxel(Sorted[i]) = SumUpTo(InLayers, i - 1)
             /\ SumUpTo(InLayers, i) = FirstVoxel(Sorted[i]) + VoxelsIn(Sorted[i])
  <2>1. FirstVoxel(Sorted[i]) = SumUpTo(InLayers, i - 1)
    BY LayersInOrder DEF FirstVoxel
  <2>2. i - 1 \in Nat /\ (i - 1) + 1 = i
    BY <1>2
  <2>3. SumUpTo(InLayers, (i - 1) + 1) = SumUpTo(InLayers, i - 1) + InLayers[(i - 1) + 1]
    BY <2>2, SumStep
  <2> QED
    BY <1>1, <2>1, <2>2, <2>3
<1>5. ASSUME NEW l \in DOMAIN param.layers PROVE FirstVoxel(l) \in Nat
  <2>1. LayersBelow(l) \in 0 .. NSorted
    BY LayersInOrder
  <2> QED
    BY <1>3, <2>1 DEF FirstVoxel
<1> QED
  BY <1>3, <1>4, <1>5

LEMMA OffsetOfBin ==
  ASSUME Binned(param.layers), NEW l \in DOMAIN param.layers, Used(l),
         NEW ix \in 1 .. RBins(l), NEW iy \in 1 .. AlphaBins(l, ix)
  PROVE  /\ Offset(l, <<ix, iy>>) \in 0 .. VoxelsIn(l) - 1
         /\ LET next == NextBin(l, <<ix, iy>>)
            IN  /\ next \in Nat \X Nat
                /\ next[1] \in 1 .. RBins(l) + 1
                /\ next[1] <= RBins(l) =>
                     /\ next[2] \in 1 .. AlphaBins(l, next[1])
                     /\ Offset(l, next) = Offset(l, <<ix, iy>>) + 1
                /\ next[1] > RBins(l) => VoxelsIn(l) = Offset(l, <<ix, iy>>) + 1
<1>1. /\ RBins(l) \in Nat /\ VoxelsIn(l) \in Nat
      /\ VoxelsIn(l) = SumUpTo(InRBins(l), RBins(l))
  BY VoxelsOfLayer DEF VoxelsIn
<1>2. \A i \in 1 .. RBins(l) :
        InRBins(l)[i] = AlphaBins(l, i) /\ AlphaBins(l, i) \in Nat \ {0}
  BY AlphaBinsFit DEF InRBins
<1>3. \A n \in 0 .. RBins(l) : SumUpTo(InRBins(l), n) \in Nat
  BY <1>1, <1>2, SumNat
<1>4. \A m \in 0 .. RBins(l) : SumUpTo(InRBins(l), m) <= SumUpTo(InRBins(l), RBins(l))
  BY <1>1, <1>2, SumGrows
<1>5. ix - 1 \in 0 .. RBins(l) /\ ix \in 0 .. RBins(l) /\ (ix - 1) + 1 = ix
  BY <1>1
<1>6. SumUpTo(InRBins(l), ix) = SumUpTo(InRBins(l), ix - 1) + AlphaBins(l, ix)
  <2>1. SumUpTo(InRBins(l), (ix - 1) + 1) = SumUpTo(InRBins(l), ix - 1) + InRBins(l)[(ix - 1) + 1]
    BY <1>5, SumStep
  <2> QED
    BY <1>2, <1>5, <2>1
<1> DEFINE a == SumUpTo(InRBins(l), ix - 1)
           b == SumUpTo(InRBins(l), ix)
           n == AlphaBins(l, ix)
<1>7. a \in Nat /\ b \in Nat /\ n \in Nat \ {0} /\ b = a + n /\ b <= VoxelsIn(l)
  BY <1>1, <1>2, <1>3, <1>4, <1>5, <1>6
<1>8. Offset(l, <<ix, iy>>) = a + iy - 1
  BY DEF Offset
<1> DEFINE next == NextBin(l, <<ix, iy>>)
<1>9. CASE iy < n
  <2>1. next = <<ix, iy + 1>>
    BY <1>9 DEF NextBin
  <2>2. Offset(l, next) = a + (iy + 1) - 1
    BY <2>1 DEF Offset
  <2> HIDE DEF next, a, b, n
  <2>3. n = AlphaBins(l, ix)
    BY DEF n
  <2> QED
    BY <1>1, <1>7, <1>8, <1>9, <2>1, <2>2, <2>3 DEF next
<1>10. CASE ~(iy < n)
  <2>1. next = <<ix + 1, 1>> /\ iy = n
    BY <1>7, <1>10 DEF NextBin
  <2>2. (ix + 1) - 1 = ix
    BY <1>1
  <2>3. Offset(l, next) = b + 1 - 1
    BY <2>1, <2>2 DEF Offset
  <2>4. ix + 1 <= RBins(l) => 1 \in 1 .. AlphaBins(l, ix + 1)
    BY <1>1, <1>2
  <2>5. ix + 1 > RBins(l) => ix = RBins(l)
    BY <1>1
  <2>6. ix + 1 > RBins(l) => VoxelsIn(l) = b
    BY <1>1, <2>5
  <2> HIDE DEF next, a, b, n
  <2> QED
    BY <1>1, <1>7, <1>8, <2>1, <2>3, <2>4, <2>6 DEF next
<1> QED
  BY <1>9, <1>10

-----------------------------------------------------------------------------
\* The number of hits of a voxel.
LEMMA RootIs ==
  ASSUME NEW n \in Nat \ {0}
  PROVE  Root(n) \in Nat \ {0}
<1> DEFINE T == {k \in Nat : (k + 1) * (k + 1) > n}
<1>1. n \in T
  <2>1. (n + 1) * (n + 1) = n * n + 2 * n + 1 /\ n * n \in Nat
    BY SMT
  <2> QED
    BY <2>1
<1>2. PICK m \in T : \A k \in T : m <= k
  <2>1. T \subseteq Nat /\ T # {}
    BY <1>1
  <2> HIDE DEF T
  <2> QED
    BY <2>1, Least
<1>3. m \in 0 .. n /\ (m + 1) * (m + 1) > n
  BY <1>1, <1>2
<1>4. m # 0
  BY <1>3
<1>5. m - 1 \in Nat /\ m - 1 \notin T
  BY <1>2, <1>4
<1>6. m * m <= n
  BY <1>5
<1>7. \E k \in 0 .. n : k * k <= n /\ (k + 1) * (k + 1) > n
  BY <1>3, <1>6
<1>8. Root(n) \in 0 .. n /\ (Root(n) + 1) * (Root(n) + 1) > n
  BY <1>7 DEF Root
<1> QED
  BY <1>8

LEMMA HitCounts ==
  ASSUME Binned(param.layers), truth \in Particles,
         NEW l \in DOMAIN param.layers, NEW ix \in 1 .. RBins(l), NEW e \in Nat
  PROVE  /\ HitsIn(l, ix, e)[1] \in Int /\ HitsIn(l, ix, e)[2] \in Int
         /\ ~(Fine(l) /\ ~Electromagnetic(truth.pdg)) =>
              HitsIn(l, ix, e)[1] > 0 /\ HitsIn(l, ix, e)[2] > 0
<1>1. truth.ekin \in Nat
  BY GanAssumption
<1>2. CASE Electromagnetic(truth.pdg)
  <2>1. e * truth.ekin \in Nat
    BY <1>1
  <2>2. (e * truth.ekin) \div 10 \in Nat
    BY <2>1
  <2>3. AtLeast1((e * truth.ekin) \div 10) \in Nat \ {0}
    BY <2>2 DEF AtLeast1
  <2> DEFINE n == Root(AtLeast1((e * truth.ekin) \div 10))
  <2>4. n \in Nat \ {0}
    BY <2>3, RootIs
  <2>5. HitsIn(l, ix, e) = <<n, n>>
    BY <1>2 DEF HitsIn
  <2> HIDE DEF n
  <2> QED
    BY <2>4, <2>5
<1>3. CASE ~Electromagnetic(truth.pdg)
  <2> DEFINE n == <<AlongAlpha(l, ix), Up(l, ix) - Low(l, ix)>>
  <2>1. Up(l, ix) - Low(l, ix) \in Int /\ Up(l, ix) \in Nat
    BY AlphaBinsFit
  <2>2. AlongAlpha(l, ix) \in Int
    <3>1. Arc[l] \in Int
      BY DEF Binned
    <3>2. (Up(l, ix) * 710) \div (113 * 1) \in Int /\ (Up(l, ix) * 710) \div (113 * 5) \in Int
      BY <2>1
    <3> QED
      BY <3>1, <3>2 DEF AlongAlpha
  <2>3. HitsIn(l, ix, e) = IF Fine(l) THEN n ELSE [i \in 1 .. 2 |-> AtMost10(AtLeast1(n[i]))]
    BY <1>3 DEF HitsIn
  <2>4. n[1] \in Int /\ n[2] \in Int
    BY <2>1, <2>2
  <2> HIDE DEF n
  <2>5. \A x \in Int : AtMost10(AtLeast1(x)) \in Int /\ AtMost10(AtLeast1(x)) > 0
    BY DEF AtMost10, AtLeast1
  <2> QED
    BY <1>3, <2>3, <2>4, <2>5
<1> QED
  BY <1>2, <1>3

\* Where in its bin a hit lies.
LEMMA HitInItsBin ==
  ASSUME Binned(param.layers),
         NEW l \in DOMAIN param.layers, NEW ix \in 1 .. RBins(l), NEW iy \in Nat,
         NEW n \in Int, NEW m \in Int, n > 0, m > 0,
         NEW ir \in {0, m - 1}, NEW ia \in {1, n}, NEW r \in Radii(l, ix, ir, m),
         hit' = [layer |-> l, ix |-> ix, iy |-> iy, r |-> <<r, m + 1>>,
                 alpha |-> <<Angle(l, ix, iy, ia, n), n + 1>>],
         param' = param
  PROVE  HitsAreInTheirBin'
<1> DEFINE w == ToMerge(l, ix)
           a == AlphaBins(l, ix)
           low == Low(l, ix)
           up == Up(l, ix)
<1>1. /\ low \in Nat /\ up \in Nat /\ low < up /\ a \in Nat \ {0} /\ w \in Nat \ {0}
      /\ w * a = param.layers[l].alpha
  BY AlphaBinsFit
<1>2. low * (m + 1) <= r /\ r <= up * (m + 1)
  <2>1. CASE r = low * (m + 1) + (up - low) * ir
    <3>1. ir \in Nat /\ ir <= m + 1 /\ m + 1 \in Nat
      OBVIOUS
    <3>2. up - low \in Nat
      BY <1>1
    <3> HIDE DEF low, up
    <3>3. (up - low) * ir \in Nat /\ (up - low) * ir <= (up - low) * (m + 1)
      BY <3>1, <3>2
    <3>4. (up - low) * (m + 1) = up * (m + 1) - low * (m + 1)
      BY <1>1, <3>1
    <3>5. low * (m + 1) \in Nat /\ up * (m + 1) \in Nat
      BY <1>1, <3>1
    <3> QED
      BY <2>1, <3>3, <3>4, <3>5
  <2>2. ASSUME NEW d \in Draws, InBin(l, ix, d), r = d * (m + 1)
        PROVE  low * (m + 1) <= r /\ r <= up * (m + 1)
    <3>1. d \in Int /\ low <= d /\ d <= up /\ m + 1 \in Nat
      BY <2>2, GanAssumption DEF InBin
    <3> HIDE DEF low, up
    <3> QED
      BY <1>1, <2>2, <3>1
  <2> QED
    BY <2>1, <2>2 DEF Radii
<1> DEFINE t == Angle(l, ix, iy, ia, n)
           wide == param.layers[l].alpha * (n + 1)
<1>3. (iy - 1) * wide < t * a /\ t * a < iy * wide
  <2>1. t = (iy - 1) * w * (n + 1) + w * ia
    BY DEF Angle
  <2>2. wide = (w * a) * (n + 1)
    BY <1>1
  <2> HIDE DEF t, wide, w, a
  <2>3. ia \in Nat \ {0} /\ ia < n + 1 /\ n + 1 \in Nat
    OBVIOUS
  <2> DEFINE c == w * a
  <2>4. c \in Nat \ {0}
    BY <1>1
  <2>5. t * a = (iy - 1) * wide + c * ia
    <3>1. t * a = ((iy - 1) * w * (n + 1)) * a + (w * ia) * a
      BY <1>1, <2>1, <2>3
    <3>2. ((iy - 1) * w * (n + 1)) * a = (iy - 1) * ((w * a) * (n + 1))
      BY <1>1, <2>3
    <3>3. (w * ia) * a = (w * a) * ia
      BY <1>1, <2>3
    <3> QED
      BY <2>2, <3>1, <3>2, <3>3
  <2>6. c * ia > 0 /\ c * ia < c * (n + 1) /\ c * ia \in Nat
    <3> HIDE DEF c
    <3> QED
      BY <2>3, <2>4
  <2>7. wide = c * (n + 1) /\ wide \in Nat
    BY <2>2, <2>3, <2>4
  <2>8. iy * wide = (iy - 1) * wide + wide /\ (iy - 1) * wide \in Int
    BY <2>7
  <2> HIDE DEF c
  <2> QED
    BY <2>5, <2>6, <2>7, <2>8
<1>4. /\ Low(l, ix)' = low /\ Up(l, ix)' = up /\ AlphaBins(l, ix)' = a
      /\ hit'.layer = l /\ hit'.ix = ix /\ hit'.iy = iy
      /\ hit'.r = <<r, m + 1>> /\ hit'.alpha = <<t, n + 1>>
  BY DEF Low, Up, AlphaBins, Around
<1> HIDE DEF low, up, a, t, w
<1>5. /\ Low(hit.layer, hit.ix)' = low /\ Up(hit.layer, hit.ix)' = up
      /\ AlphaBins(hit.layer, hit.ix)' = a
  BY <1>4 DEF Low, Up, AlphaBins, Around
<1> QED
  BY <1>2, <1>3, <1>4, <1>5 DEF HitsAreInTheirBin

-----------------------------------------------------------------------------
\* What a step that keeps the slice, the answer and the energies keeps.
LEMMA SameLayers ==
  ASSUME UNCHANGED <<param, outputs, einit>>
  PROVE  /\ Sorted' = Sorted /\ NSorted' = NSorted /\ InLayers' = InLayers
         /\ \A l : /\ VoxelsIn(l)' = VoxelsIn(l) /\ Voxels(l)' = Voxels(l)
                   /\ FirstVoxel(l)' = FirstVoxel(l) /\ EnergyOf(l)' = EnergyOf(l)
                   /\ Positive(l)' = Positive(l)
                   /\ Used(l)' = Used(l) /\ RBins(l)' = RBins(l)
                   /\ \A ix : AlphaBins(l, ix)' = AlphaBins(l, ix)
                   /\ \A b : Offset(l, b)' = Offset(l, b)
  BY DEF Sorted, NSorted, InLayers, VoxelsIn, Voxels, FirstVoxel, EnergyOf, Positive, Used, RBins,
     AlphaBins, Offset, LayersBelow, InRBins, Around, Low, Up

LEMMA SameAnswer ==
  ASSUME UNCHANGED <<param, outputs, einit, energy>>, Answered
  PROVE  Answered'
  BY SameLayers DEF Answered

\* The energies of the voxels of a layer, and where the sum over them stands.
LEMMA EnergiesOfVoxels ==
  ASSUME Binned(param.layers), Answered, outputs \in Seq(Int), einit \in Nat,
         NEW l \in DOMAIN param.layers, NEW off \in 0 .. VoxelsIn(l) - 1
  PROVE  LET e == outputs[FirstVoxel(l) + off + 1]
         IN  /\ e \in Int
             /\ SumUpTo(EnergyOf(l), off) \in Nat
             /\ SumUpTo(EnergyOf(l), off + 1)
                  = SumUpTo(EnergyOf(l), off) + (IF e > 0 THEN einit * e ELSE 0)
             /\ e > 0 => l \in DOMAIN energy
<1>1. FirstVoxel(l) \in Nat /\ VoxelsIn(l) \in Nat
  BY FirstVoxels, VoxelsOfLayer
<1>2. \A i \in 1 .. VoxelsIn(l) :
        /\ outputs[FirstVoxel(l) + i] \in Int
        /\ EnergyOf(l)[i] = IF outputs[FirstVoxel(l) + i] > 0
                            THEN einit * outputs[FirstVoxel(l) + i] ELSE 0
  <2> SUFFICES ASSUME NEW i \in 1 .. VoxelsIn(l)
               PROVE  outputs[FirstVoxel(l) + i] \in Int
    BY DEF EnergyOf
  <2>1. FirstVoxel(l) + i - 1 \in Voxels(l)
    BY <1>1 DEF Voxels
  <2>2. FirstVoxel(l) + i - 1 < Len(outputs)
    BY <2>1 DEF Answered
  <2>3. FirstVoxel(l) + i \in 1 .. Len(outputs)
    BY <1>1, <2>2
  <2> QED
    BY <2>3
<1>3. \A i \in 1 .. VoxelsIn(l) : EnergyOf(l)[i] \in Nat
  <2> SUFFICES ASSUME NEW i \in 1 .. VoxelsIn(l) PROVE EnergyOf(l)[i] \in Nat
    OBVIOUS
  <2>1. \A x \in Int : x > 0 => einit * x \in Nat
    OBVIOUS
  <2> QED
    BY <1>2, <2>1
<1>4. \A n \in 0 .. VoxelsIn(l) : SumUpTo(EnergyOf(l), n) \in Nat
  BY <1>1, <1>3, SumNat
<1>5. off + 1 \in 1 .. VoxelsIn(l) /\ off \in Nat /\ off \in 0 .. VoxelsIn(l)
  BY <1>1
<1>6. SumUpTo(EnergyOf(l), off + 1) = SumUpTo(EnergyOf(l), off) + EnergyOf(l)[off + 1]
  BY <1>5, SumStep
<1>7. FirstVoxel(l) + (off + 1) = FirstVoxel(l) + off + 1
  BY <1>1, <1>5
<1>8. ASSUME outputs[FirstVoxel(l) + off + 1] > 0 PROVE l \in DOMAIN energy
  <2>1. FirstVoxel(l) + off \in Voxels(l)
    BY <1>1, <1>5 DEF Voxels
  <2>2. FirstVoxel(l) + off \in Positive(l)
    BY <1>8, <2>1 DEF Positive
  <2> QED
    BY <2>2 DEF Answered
<1> QED
  BY <1>2, <1>4, <1>5, <1>6, <1>7, <1>8

\* The layer and the voxel whose turn it is.
LEMMA AtItsVoxel ==
  ASSUME BinningKept, ShowerKept, pc = "voxel"
  PROVE  LET off == Offset(AtLayer, bin)
         IN  /\ Binned(param.layers) /\ Answered /\ outputs \in Seq(Int) /\ truth \in Particles
             /\ NSorted \in Nat /\ layer \in 1 .. NSorted
             /\ AtLayer \in DOMAIN param.layers /\ bin = <<bin[1], bin[2]>>
             /\ bin[1] \in 1 .. RBins(AtLayer) /\ bin[2] \in 1 .. AlphaBins(AtLayer, bin[1])
             /\ Used(AtLayer)
             /\ off \in 0 .. VoxelsIn(AtLayer) - 1
             /\ vox = FirstVoxel(AtLayer) + off /\ vox + 1 = FirstVoxel(AtLayer) + off + 1
             /\ bin[2] \in Nat
<1>1. slice # NoSlice /\ Binned(param.layers)
  BY DEF BinningKept
<1>2. /\ Answered /\ outputs \in Seq(Int) /\ truth \in Particles /\ AtVoxel
      /\ layer \in 1 .. NSorted + 1 /\ vox = FirstVoxel(AtLayer) + Offset(AtLayer, bin)
  BY DEF ShowerKept
<1>3. NSorted \in Nat /\ layer \in 1 .. NSorted
  BY <1>1, <1>2, LayersInOrder DEF AtVoxel
<1>4. AtLayer \in DOMAIN param.layers
  BY <1>1, <1>3, LayersInOrder DEF AtLayer
<1>5. /\ bin = <<bin[1], bin[2]>> /\ Used(AtLayer) /\ bin[2] \in Nat
      /\ bin[1] \in 1 .. RBins(AtLayer) /\ bin[2] \in 1 .. AlphaBins(AtLayer, bin[1])
  BY <1>2 DEF AtVoxel
<1>6. Offset(AtLayer, <<bin[1], bin[2]>>) \in 0 .. VoxelsIn(AtLayer) - 1
  BY <1>1, <1>4, <1>5, OffsetOfBin
<1>7. FirstVoxel(AtLayer) \in Nat
  BY <1>1, <1>4, FirstVoxels
<1> QED
  BY <1>1, <1>2, <1>3, <1>4, <1>5, <1>6, <1>7

\* A voxel had its turn: the next one follows, in this layer or in the next.
LEMMA TurnTaken ==
  ASSUME BinningKept, ShowerKept, pc = "voxel", NEW e, Moves(e),
         UNCHANGED <<param, slice, truth, outputs, energy, einit>>,
         NEW l, l = AtLayer, NEW off, off = Offset(AtLayer, bin),
         \A k \in 1 .. NSorted : Sorted[k] # l => HitEnergy(Sorted[k])' = HitEnergy(Sorted[k]),
         GivenUpTo(l, off + 1)',
         DOMAIN given' \subseteq DOMAIN energy
  PROVE  ShowerKept'
<1>1. /\ Binned(param.layers) /\ Answered /\ outputs \in Seq(Int) /\ truth \in Particles
      /\ NSorted \in Nat /\ layer \in 1 .. NSorted
      /\ l \in DOMAIN param.layers /\ bin = <<bin[1], bin[2]>>
      /\ bin[1] \in 1 .. RBins(l) /\ bin[2] \in 1 .. AlphaBins(l, bin[1])
      /\ Used(l)
      /\ off \in 0 .. VoxelsIn(l) - 1
      /\ vox = FirstVoxel(l) + off
  BY AtItsVoxel
<1>2. /\ vox' = vox + 1 /\ bin' = NextBin(l, bin)
      /\ IF bin'[1] > RBins(l) THEN pc' = "layer" /\ layer' = layer + 1
         ELSE UNCHANGED <<pc, layer>>
  BY DEF Moves, Advance
<1>3. /\ bin' \in Nat \X Nat /\ bin'[1] \in 1 .. RBins(l) + 1
      /\ bin'[1] <= RBins(l) =>
           bin'[2] \in 1 .. AlphaBins(l, bin'[1]) /\ Offset(l, bin') = off + 1
      /\ bin'[1] > RBins(l) => VoxelsIn(l) = off + 1
  <2>1. LET next == NextBin(l, <<bin[1], bin[2]>>)
        IN  /\ next \in Nat \X Nat
            /\ next[1] \in 1 .. RBins(l) + 1
            /\ next[1] <= RBins(l) =>
                 /\ next[2] \in 1 .. AlphaBins(l, next[1])
                 /\ Offset(l, next) = Offset(l, <<bin[1], bin[2]>>) + 1
            /\ next[1] > RBins(l) => VoxelsIn(l) = Offset(l, <<bin[1], bin[2]>>) + 1
    BY <1>1, OffsetOfBin
  <2>2. Offset(l, <<bin[1], bin[2]>>) = off
    BY <1>1
  <2> QED
    BY <1>1, <1>2, <2>1, <2>2
<1>4. Answered' /\ Sorted' = Sorted /\ NSorted' = NSorted /\ InLayers' = InLayers
  BY <1>1, SameAnswer, SameLayers
<1>5. RBins(l) \in Nat /\ VoxelsIn(l) \in Nat /\ FirstVoxel(l) \in Nat
  BY <1>1, VoxelsOfLayer, FirstVoxels
<1>6. \A i \in 1 .. NSorted : LayersBelow(Sorted[i]) = i - 1
  BY <1>1, LayersInOrder
<1>7. \A k \in 1 .. NSorted : k # layer => Sorted[k] # l
  BY <1>1, <1>6 DEF AtLayer
<1>8. ASSUME NEW k \in 1 .. NSorted, k # layer PROVE GivenUpTo(Sorted[k], TurnsOf(k))'
  <2>1. GivenUpTo(Sorted[k], TurnsOf(k))
    BY DEF ShowerKept
  <2>2. TurnsOf(k) = IF k < layer THEN VoxelsIn(Sorted[k]) ELSE 0
    BY <1>8 DEF TurnsOf
  <2>3. TurnsOf(k)' = TurnsOf(k)
    <3>1. CASE bin'[1] > RBins(l)
      <4>1. pc' = "layer" /\ layer' = layer + 1
        BY <1>2, <3>1
      <4>2. k < layer + 1 <=> k < layer
        BY <1>1, <1>8
      <4> QED
        BY <1>4, <2>2, <4>1, <4>2, SameLayers DEF TurnsOf
    <3>2. CASE ~(bin'[1] > RBins(l))
      <4>1. pc' = pc /\ layer' = layer
        BY <1>2, <3>2
      <4> QED
        BY <1>4, <1>8, <2>2, <4>1, SameLayers DEF TurnsOf
    <3> QED
      BY <3>1, <3>2
  <2>4. HitEnergy(Sorted[k])' = HitEnergy(Sorted[k])
    BY <1>7, <1>8
  <2>5. EnergyOf(Sorted[k])' = EnergyOf(Sorted[k])
    BY <1>4, SameLayers
  <2> QED
    BY <1>4, <2>1, <2>3, <2>4, <2>5 DEF GivenUpTo
<1>9. Sorted[layer] = l
  BY DEF AtLayer
<1>10. CASE bin'[1] > RBins(l)
  <2>1. pc' = "layer" /\ layer' = layer + 1 /\ VoxelsIn(l) = off + 1
    BY <1>2, <1>3, <1>10
  <2>3. ASSUME NEW k, k = layer PROVE GivenUpTo(Sorted[k], TurnsOf(k))'
    <3>1. TurnsOf(k)' = off + 1
      BY <1>1, <1>4, <1>9, <2>1, <2>3, SameLayers DEF TurnsOf
    <3>2. Sorted'[k] = l
      BY <1>4, <1>9, <2>3
    <3> QED
      BY <3>1, <3>2 DEF GivenUpTo
  <2>4. \A k \in 1 .. NSorted' : GivenUpTo(Sorted[k], TurnsOf(k))'
    BY <1>4, <1>8, <2>3
  <2>5. layer' \in 1 .. NSorted' + 1
    BY <1>1, <1>4, <2>1
  <2>6. vox' = SumUpTo(InLayers', layer' - 1)
    <3>1. SumUpTo(InLayers, layer) = FirstVoxel(l) + VoxelsIn(l)
      BY <1>1, <1>9, FirstVoxels
    <3>2. layer' - 1 = layer
      BY <1>1, <2>1
    <3> QED
      BY <1>1, <1>2, <1>4, <1>5, <2>1, <3>1, <3>2
  <2> QED
    BY <1>1, <1>4, <2>1, <2>4, <2>5, <2>6 DEF ShowerKept
<1>11. CASE ~(bin'[1] > RBins(l))
  <2>1. pc' = "voxel" /\ layer' = layer /\ bin'[1] \in 1 .. RBins(l)
    BY <1>2, <1>3, <1>5, <1>11
  <2>2. AtLayer' = l
    BY <1>4, <2>1 DEF AtLayer
  <2>3. Offset(l, bin') = off + 1 /\ bin'[2] \in 1 .. AlphaBins(l, bin'[1])
    BY <1>3, <1>5, <2>1
  <2>4. Offset(AtLayer, bin)' = off + 1
    <3>1. InRBins(AtLayer)' = InRBins(l)
      BY <2>2 DEF InRBins, RBins, AlphaBins, Around, Low, Up
    <3>2. Offset(AtLayer, bin)' = SumUpTo(InRBins(AtLayer)', bin'[1] - 1) + bin'[2] - 1
      BY DEF Offset
    <3> QED
      BY <2>3, <3>1, <3>2 DEF Offset
  <2>5. AtVoxel'
    BY <1>1, <1>3, <1>4, <2>1, <2>2, <2>3, SameLayers
    DEF AtVoxel, Used, RBins, AlphaBins, Around, Low, Up
  <2>6. vox' = FirstVoxel(AtLayer)' + Offset(AtLayer, bin)'
    <3>1. FirstVoxel(AtLayer)' = FirstVoxel(l)
      BY <1>4, <2>2, SameLayers DEF FirstVoxel, LayersBelow
    <3> QED
      BY <1>1, <1>2, <1>5, <2>4, <3>1
  <2>7. ASSUME NEW k, k = layer PROVE GivenUpTo(Sorted[k], TurnsOf(k))'
    <3>1. TurnsOf(k)' = off + 1
      BY <1>1, <2>1, <2>4, <2>7 DEF TurnsOf
    <3>2. Sorted'[k] = l
      BY <1>4, <1>9, <2>7
    <3> QED
      BY <3>1, <3>2 DEF GivenUpTo
  <2>8. \A k \in 1 .. NSorted' : GivenUpTo(Sorted[k], TurnsOf(k))'
    BY <1>4, <1>8, <2>7
  <2> QED
    BY <1>1, <1>4, <2>1, <2>5, <2>6, <2>8 DEF ShowerKept
<1> QED
  BY <1>10, <1>11

\* A voxel without energy only has its turn.
LEMMA SkipTurn == ASSUME BinningKept, ShowerKept, SkipVoxel PROVE ShowerKept'
<1> PICK l, off : l = AtLayer /\ off = Offset(AtLayer, bin)
  OBVIOUS
<1>1. /\ pc = "voxel" /\ outputs[vox + 1] <= 0 /\ Moves(outputs[vox + 1])
      /\ UNCHANGED <<param, slice, truth, outputs, energy, einit, given>>
  BY DEF SkipVoxel, SetUpIsKept
<1>2. /\ Binned(param.layers) /\ Answered /\ outputs \in Seq(Int)
      /\ layer \in 1 .. NSorted /\ l \in DOMAIN param.layers /\ Sorted[layer] = l
      /\ off \in 0 .. VoxelsIn(l) - 1 /\ vox + 1 = FirstVoxel(l) + off + 1
  BY <1>1, AtItsVoxel DEF AtLayer
<1>3. /\ einit \in Nat /\ GivenUpTo(l, off) /\ DOMAIN given \subseteq DOMAIN energy
  <2>1. TurnsOf(layer) = off
    BY <1>1, <1>2 DEF TurnsOf
  <2>2. GivenUpTo(Sorted[layer], TurnsOf(layer))
    BY <1>1, <1>2 DEF ShowerKept
  <2> QED
    BY <1>1, <1>2, <2>1, <2>2 DEF ShowerKept
<1>4. SumUpTo(EnergyOf(l), off + 1) = SumUpTo(EnergyOf(l), off)
  <2>1. LET e == outputs[FirstVoxel(l) + off + 1]
        IN  /\ e \in Int
            /\ SumUpTo(EnergyOf(l), off) \in Nat
            /\ SumUpTo(EnergyOf(l), off + 1)
                 = SumUpTo(EnergyOf(l), off) + (IF e > 0 THEN einit * e ELSE 0)
    BY <1>2, <1>3, EnergiesOfVoxels
  <2>2. outputs[FirstVoxel(l) + off + 1] <= 0
    BY <1>1, <1>2
  <2> QED
    BY <2>1, <2>2
<1>5. GivenUpTo(l, off + 1)'
  <2>1. GivenUpTo(l, off + 1)
    BY <1>3, <1>4 DEF GivenUpTo
  <2>2. EnergyOf(l)' = EnergyOf(l)
    BY <1>1, SameLayers
  <2> QED
    BY <1>1, <2>1, <2>2 DEF GivenUpTo, HitEnergy
<1>6. \A k \in 1 .. NSorted : HitEnergy(Sorted[k])' = HitEnergy(Sorted[k])
  BY <1>1, SameLayers DEF HitEnergy
<1> QED
  BY <1>1, <1>3, <1>5, <1>6, TurnTaken

\* The hits of a voxel carry its energy and lie in its bin.
LEMMA FillTurn ==
  ASSUME BinningKept, ShowerKept, FillVoxel
  PROVE  ShowerKept' /\ HitsAreInTheirBin'
<1> PICK l, off, e : l = AtLayer /\ off = Offset(AtLayer, bin) /\ e = outputs[vox + 1]
  OBVIOUS
<1> DEFINE n == HitsIn(l, bin[1], e)
           given0 == IF l \in DOMAIN given THEN given[l] ELSE 0
<1>1. /\ pc = "voxel" /\ e > 0
      /\ UNCHANGED <<param, slice, truth, outputs, energy, etot, einit>>
      /\ given' = [k \in DOMAIN given \cup {l} |->
                     IF k = l THEN given0 + EnergyOfHits(e, n) ELSE given[k]]
      /\ Moves(e) \/ pc' = "skipped"
      /\ IF n[1] <= 0 \/ n[2] <= 0 THEN hit' = NoHit
         ELSE \E ir \in {0, n[2] - 1}, ia \in {1, n[1]} :
                \E r \in Radii(l, bin[1], ir, n[2]) :
                  hit' = [layer |-> l, ix |-> bin[1], iy |-> bin[2],
                          r |-> <<r, n[2] + 1>>,
                          alpha |-> <<Angle(l, bin[1], bin[2], ia, n[1]), n[1] + 1>>]
  BY DEF FillVoxel, SetUpIsKept
<1>2. /\ Binned(param.layers) /\ Answered /\ outputs \in Seq(Int) /\ truth \in Particles
      /\ layer \in 1 .. NSorted /\ l \in DOMAIN param.layers /\ Sorted[layer] = l
      /\ bin[1] \in 1 .. RBins(l) /\ bin[2] \in Nat
      /\ off \in 0 .. VoxelsIn(l) - 1 /\ vox + 1 = FirstVoxel(l) + off + 1
  BY <1>1, AtItsVoxel DEF AtLayer
<1>3. /\ einit \in Nat /\ GivenUpTo(l, off) /\ DOMAIN given \subseteq DOMAIN energy
  <2>1. TurnsOf(layer) = off
    BY <1>1, <1>2 DEF TurnsOf
  <2>2. GivenUpTo(Sorted[layer], TurnsOf(layer))
    BY <1>1, <1>2 DEF ShowerKept
  <2> QED
    BY <1>1, <1>2, <2>1, <2>2 DEF ShowerKept
<1>4. /\ e \in Nat /\ l \in DOMAIN energy /\ SumUpTo(EnergyOf(l), off) \in Nat
      /\ SumUpTo(EnergyOf(l), off + 1) = SumUpTo(EnergyOf(l), off) + einit * e
  <2>1. LET x == outputs[FirstVoxel(l) + off + 1]
        IN  /\ x \in Int
            /\ SumUpTo(EnergyOf(l), off) \in Nat
            /\ SumUpTo(EnergyOf(l), off + 1)
                 = SumUpTo(EnergyOf(l), off) + (IF x > 0 THEN einit * x ELSE 0)
            /\ x > 0 => l \in DOMAIN energy
    BY <1>2, <1>3, EnergiesOfVoxels
  <2>2. e = outputs[FirstVoxel(l) + off + 1]
    BY <1>2
  <2> QED
    BY <1>1, <2>1, <2>2
<1>5. /\ n[1] \in Int /\ n[2] \in Int
      /\ ~(Fine(l) /\ ~Electromagnetic(truth.pdg)) => n[1] > 0 /\ n[2] > 0
  BY <1>2, <1>4, HitCounts
<1> HIDE DEF n
<1>6. HitsAreInTheirBin'
  <2>1. CASE n[1] <= 0 \/ n[2] <= 0
    BY <1>1, <2>1 DEF HitsAreInTheirBin, NoHit
  <2>2. CASE ~(n[1] <= 0 \/ n[2] <= 0)
    <3>1. PICK ir \in {0, n[2] - 1}, ia \in {1, n[1]} :
            \E r \in Radii(l, bin[1], ir, n[2]) :
              hit' = [layer |-> l, ix |-> bin[1], iy |-> bin[2],
                      r |-> <<r, n[2] + 1>>,
                      alpha |-> <<Angle(l, bin[1], bin[2], ia, n[1]), n[1] + 1>>]
      BY <1>1, <2>2
    <3>2. PICK ix, iy, m1, m2 : ix = bin[1] /\ iy = bin[2] /\ m1 = n[1] /\ m2 = n[2]
      OBVIOUS
    <3>3. PICK jr \in {0, m2 - 1}, ja \in {1, m1} : jr = ir /\ ja = ia
      BY <3>2
    <3>4. PICK r \in Radii(l, ix, jr, m2) :
            hit' = [layer |-> l, ix |-> ix, iy |-> iy, r |-> <<r, m2 + 1>>,
                    alpha |-> <<Angle(l, ix, iy, ja, m1), m1 + 1>>]
      BY <3>1, <3>2, <3>3
    <3>5. m1 \in Int /\ m2 \in Int /\ m1 > 0 /\ m2 > 0
      BY <1>5, <2>2, <3>2
    <3>6. ix \in 1 .. RBins(l) /\ iy \in Nat /\ param' = param
      BY <1>1, <1>2, <3>2
    <3> QED
      BY <1>2, <3>4, <3>5, <3>6, HitInItsBin
  <2> QED
    BY <2>1, <2>2
<1>7. einit * e \in Nat
  BY <1>3, <1>4
<1>8. /\ EnergyOfHits(e, n) \in Nat /\ EnergyOfHits(e, n) <= einit * e
      /\ n[1] > 0 /\ n[2] > 0 => EnergyOfHits(e, n) = einit * e
  BY <1>7 DEF EnergyOfHits
<1>9. HitEnergy(l)' = HitEnergy(l) + EnergyOfHits(e, n)
  BY <1>1 DEF HitEnergy
<1>10. GivenUpTo(l, off + 1)'
  <2>1. EnergyOf(l)' = EnergyOf(l) /\ truth' = truth
    BY <1>1, SameLayers
  <2>2. CASE Fine(l) /\ ~Electromagnetic(truth.pdg)
    <3>1. HitEnergy(l) \in Nat /\ HitEnergy(l) <= SumUpTo(EnergyOf(l), off)
      BY <1>3, <2>2 DEF GivenUpTo
    <3>2. /\ HitEnergy(l)' \in Nat
          /\ HitEnergy(l)' <= SumUpTo(EnergyOf(l), off + 1)
      BY <1>4, <1>7, <1>8, <1>9, <3>1
    <3> QED
      BY <2>1, <2>2, <3>2 DEF GivenUpTo
  <2>3. CASE ~(Fine(l) /\ ~Electromagnetic(truth.pdg))
    <3>1. HitEnergy(l) = SumUpTo(EnergyOf(l), off)
      BY <1>3, <2>3 DEF GivenUpTo
    <3>2. HitEnergy(l)' = SumUpTo(EnergyOf(l), off + 1)
      BY <1>4, <1>5, <1>8, <1>9, <2>3, <3>1
    <3> QED
      BY <2>1, <2>3, <3>2 DEF GivenUpTo
  <2> QED
    BY <2>2, <2>3
<1>11. \A k \in 1 .. NSorted : Sorted[k] # l => HitEnergy(Sorted[k])' = HitEnergy(Sorted[k])
  <2>1. Sorted' = Sorted
    BY <1>1, SameLayers
  <2> QED
    BY <1>1, <2>1 DEF HitEnergy
<1>12. DOMAIN given' \subseteq DOMAIN energy
  BY <1>1, <1>3, <1>4
<1>13. CASE Moves(e)
  BY <1>1, <1>6, <1>10, <1>11, <1>12, <1>13, TurnTaken
<1>14. CASE pc' = "skipped"
  BY <1>1, <1>2, <1>3, <1>6, <1>14 DEF ShowerKept
<1> QED
  BY <1>1, <1>13, <1>14

\* A layer that is used starts at its first voxel; one that is not has none.
LEMMA NewLayer == ASSUME BinningKept, ShowerKept, StartLayer PROVE ShowerKept'
<1> PICK l : l = AtLayer
  OBVIOUS
<1>1. /\ pc = "layer" /\ layer <= Len(Sorted)
      /\ UNCHANGED <<param, slice, truth, outputs, energy, etot, einit, given, vox>>
      /\ IF Used(l) THEN bin' = <<1, 1>> /\ layer' = layer /\ pc' \in {"voxel", "skipped"}
         ELSE layer' = layer + 1 /\ pc' = pc
  BY DEF StartLayer, SetUpIsKept
<1>2. /\ Binned(param.layers) /\ Answered /\ outputs \in Seq(Int) /\ truth \in Particles
      /\ layer \in 1 .. NSorted + 1 /\ einit \in Nat
      /\ \A k \in 1 .. NSorted : GivenUpTo(Sorted[k], TurnsOf(k))
      /\ DOMAIN given \subseteq DOMAIN energy
      /\ vox = SumUpTo(InLayers, layer - 1)
  BY <1>1 DEF BinningKept, ShowerKept
<1>3. /\ NSorted \in Nat /\ layer \in 1 .. NSorted /\ l \in DOMAIN param.layers
      /\ Sorted[layer] = l
  BY <1>1, <1>2, LayersInOrder DEF AtLayer
<1>4. Answered' /\ Sorted' = Sorted /\ NSorted' = NSorted /\ InLayers' = InLayers
  BY <1>1, <1>2, SameAnswer, SameLayers
<1>5. FirstVoxel(l) = vox /\ SumUpTo(InLayers, layer) = vox + VoxelsIn(l) /\ vox \in Nat
  BY <1>2, <1>3, FirstVoxels
<1>6. \A k \in 1 .. NSorted : TurnsOf(k) = IF k < layer THEN VoxelsIn(Sorted[k]) ELSE 0
  BY <1>1 DEF TurnsOf
<1>7. ASSUME \A k \in 1 .. NSorted : TurnsOf(k)' = TurnsOf(k)
      PROVE  \A k \in 1 .. NSorted' : GivenUpTo(Sorted[k], TurnsOf(k))'
  <2> SUFFICES ASSUME NEW k \in 1 .. NSorted PROVE GivenUpTo(Sorted[k], TurnsOf(k))'
    BY <1>4
  <2>1. GivenUpTo(Sorted[k], TurnsOf(k)) /\ EnergyOf(Sorted[k])' = EnergyOf(Sorted[k])
    BY <1>1, <1>2, <1>4, SameLayers
  <2> QED
    BY <1>1, <1>4, <1>7, <2>1 DEF GivenUpTo, HitEnergy
<1>8. CASE pc' = "skipped"
  BY <1>1, <1>2, <1>8 DEF ShowerKept
<1>9. CASE Used(l) /\ pc' = "voxel"
  <2>1. bin' = <<1, 1>> /\ layer' = layer
    BY <1>1, <1>9
  <2>2. AtLayer' = l
    BY <1>4, <2>1 DEF AtLayer
  <2>3. 1 \in 1 .. RBins(l)
    BY <1>2, <1>3, <1>9, VoxelsOfLayer DEF Used
  <2>4. 1 \in 1 .. AlphaBins(l, 1)
    BY <1>2, <1>3, <2>3, AlphaBinsFit
  <2>5. AtVoxel'
    BY <1>1, <1>3, <1>4, <1>9, <2>1, <2>2, <2>3, <2>4
    DEF AtVoxel, Used, RBins, AlphaBins, Around, Low, Up
  <2>6. Offset(AtLayer, bin)' = 0
    <3>1. Offset(AtLayer, bin)' = SumUpTo(InRBins(AtLayer)', 1 - 1) + 1 - 1
      BY <2>1 DEF Offset
    <3> QED
      BY <3>1, SumZero
  <2>7. vox' = FirstVoxel(AtLayer)' + Offset(AtLayer, bin)'
    <3>1. FirstVoxel(AtLayer)' = FirstVoxel(l)
      BY <1>1, <1>4, <2>2, SameLayers DEF FirstVoxel, LayersBelow
    <3> QED
      BY <1>1, <1>5, <2>6, <3>1
  <2>8. ASSUME NEW k \in 1 .. NSorted PROVE TurnsOf(k)' = TurnsOf(k)
    BY <1>1, <1>3, <1>4, <1>6, <1>9, <2>1, <2>6, SameLayers DEF TurnsOf
  <2> QED
    BY <1>1, <1>2, <1>4, <1>7, <1>9, <2>1, <2>5, <2>7, <2>8 DEF ShowerKept
<1>10. CASE ~Used(l)
  <2>1. layer' = layer + 1 /\ pc' = "layer" /\ VoxelsIn(l) = 0
    BY <1>1, <1>10 DEF VoxelsIn
  <2>2. layer' \in 1 .. NSorted' + 1 /\ layer' - 1 = layer
    BY <1>3, <1>4, <2>1
  <2>3. vox' = SumUpTo(InLayers', layer' - 1)
    BY <1>1, <1>4, <1>5, <2>1, <2>2
  <2>4. ASSUME NEW k \in 1 .. NSorted PROVE TurnsOf(k)' = TurnsOf(k)
    <3>1. TurnsOf(k)' = IF k < layer + 1 THEN VoxelsIn(Sorted[k]) ELSE 0
      BY <1>1, <1>4, <2>1, SameLayers DEF TurnsOf
    <3>2. k = layer => VoxelsIn(Sorted[k]) = 0
      BY <1>3, <2>1
    <3>3. k < layer + 1 <=> k < layer \/ k = layer
      BY <1>3
    <3> QED
      BY <1>3, <1>6, <3>1, <3>2, <3>3
  <2> QED
    BY <1>1, <1>2, <1>4, <1>7, <2>1, <2>2, <2>3, <2>4 DEF ShowerKept
<1> QED
  BY <1>1, <1>8, <1>9, <1>10

\* The chain for all bins leaves the hits to be made.
LEMMA AfterEnergies == ASSUME BinningKept, ShowerKept, RunAfter PROVE ShowerKept'
<1>1. /\ pc = "after" /\ UNCHANGED <<param, slice, truth, outputs, energy, etot, einit, given>>
      /\ \/ pc' = "layer" /\ layer' = 1 /\ vox' = 0
         \/ pc' = "skipped"
  BY DEF RunAfter, SetUpIsKept
<1>2. /\ Binned(param.layers) /\ Answered /\ outputs \in Seq(Int) /\ truth \in Particles
      /\ einit \in Nat /\ given = <<>>
  BY <1>1 DEF BinningKept, ShowerKept
<1>3. Answered' /\ Sorted' = Sorted /\ NSorted' = NSorted /\ InLayers' = InLayers /\ NSorted \in Nat
  BY <1>1, <1>2, SameAnswer, SameLayers, LayersInOrder
<1>4. CASE pc' = "layer" /\ layer' = 1 /\ vox' = 0
  <2>1. DOMAIN given' \subseteq DOMAIN energy' /\ \A k : k \notin DOMAIN given'
    BY <1>1, <1>2
  <2>2. ASSUME NEW k \in 1 .. NSorted PROVE GivenUpTo(Sorted[k], TurnsOf(k))'
    <3>1. TurnsOf(k)' = 0
      BY <1>4 DEF TurnsOf
    <3>2. HitEnergy(Sorted[k])' = 0
      BY <2>1 DEF HitEnergy
    <3>3. SumUpTo(EnergyOf(Sorted[k])', 0) = 0
      BY SumZero
    <3> QED
      BY <3>1, <3>2, <3>3 DEF GivenUpTo
  <2>3. vox' = SumUpTo(InLayers', layer' - 1)
    BY <1>4, SumZero
  <2>4. layer' \in 1 .. NSorted' + 1
    BY <1>3, <1>4
  <2> QED
    BY <1>1, <1>2, <1>3, <1>4, <2>1, <2>2, <2>3, <2>4 DEF ShowerKept
<1>5. CASE pc' = "skipped"
  BY <1>1, <1>2, <1>5 DEF ShowerKept
<1> QED
  BY <1>1, <1>4, <1>5

\* Layers get the energy of their voxels, if the network has an output for each.
LEMMA EnergiesFilled == ASSUME BinningKept, ShowerKept, FillEnergies PROVE ShowerKept'
<1> DEFINE fails == \E l \in DOMAIN param.layers : \E v \in Voxels(l) : ~Has(v)
           filled == [l \in {k \in DOMAIN param.layers : Positive(k) # {}} |->
                        SumUpTo(EnergyOf(l), VoxelsIn(l))]
<1>1. /\ pc = "energies" /\ UNCHANGED <<param, slice, truth, outputs, einit, given>>
      /\ IF fails THEN pc' = "thrown" ELSE energy' = filled /\ pc' = "after"
  BY DEF FillEnergies, SetUpIsKept
<1>2. /\ Binned(param.layers) /\ outputs \in Seq(Int) /\ truth \in Particles
      /\ einit \in Nat /\ given = <<>>
  BY <1>1 DEF BinningKept, ShowerKept
<1>3. CASE fails
  BY <1>1, <1>2, <1>3 DEF ShowerKept
<1>4. CASE ~fails
  <2>1. pc' = "after" /\ energy' = filled
    BY <1>1, <1>4
  <2>2. \A l \in DOMAIN param.layers : \A v \in Voxels(l) : v < Len(outputs)
    BY <1>4 DEF Has
  <2>3. Answered'
    BY <1>1, <2>1, <2>2, SameLayers DEF Answered
  <2> QED
    BY <1>1, <1>2, <2>1, <2>3 DEF ShowerKept
<1> QED
  BY <1>3, <1>4

\* At the end every layer had all its turns.
LEMMA FractionsSet == ASSUME BinningKept, ShowerKept, SetFractions PROVE ShowerKept'
<1>1. /\ pc = "layer" /\ layer > Len(Sorted) /\ pc' \in {"done", "thrown"}
      /\ UNCHANGED <<param, slice, truth, outputs, energy, etot, einit, given, layer>>
  BY DEF SetFractions, SetUpIsKept
<1>2. /\ Binned(param.layers) /\ Answered /\ truth \in Particles /\ einit \in Nat
      /\ layer \in 1 .. NSorted + 1
      /\ \A k \in 1 .. NSorted : GivenUpTo(Sorted[k], TurnsOf(k))
      /\ DOMAIN given \subseteq DOMAIN energy
  BY <1>1 DEF BinningKept, ShowerKept
<1>3. Answered' /\ Sorted' = Sorted /\ NSorted' = NSorted
  BY <1>1, <1>2, SameAnswer, SameLayers
<1>4. NSorted \in Nat /\ layer = NSorted + 1
  BY <1>1, <1>2, LayersInOrder
<1>5. ASSUME NEW k \in 1 .. NSorted PROVE GivenUpTo(Sorted[k], VoxelsIn(Sorted[k]))'
  <2>1. TurnsOf(k) = VoxelsIn(Sorted[k])
    BY <1>4 DEF TurnsOf
  <2>2. GivenUpTo(Sorted[k], VoxelsIn(Sorted[k]))
    BY <1>2, <2>1
  <2>3. EnergyOf(Sorted[k])' = EnergyOf(Sorted[k]) /\ VoxelsIn(Sorted[k])' = VoxelsIn(Sorted[k])
    BY <1>1, <1>3, SameLayers DEF EnergyOf
  <2> QED
    BY <1>1, <1>3, <2>2, <2>3 DEF GivenUpTo, HitEnergy
<1> QED
  BY <1>1, <1>2, <1>3, <1>5 DEF ShowerKept

LEMMA InitVInv == GanInit("idle") => VInv
<1> SUFFICES ASSUME GanInit("idle") PROVE VInv
  OBVIOUS
<1>1. /\ slice = NoSlice /\ stored = NotStored /\ pc = "idle" /\ einit = 0 /\ hit = NoHit
  BY DEF GanInit
<1> QED
  BY <1>1 DEF VInv, BinningKept, ShowerKept, HitsAreInTheirBin

\* A step of a shower keeps the binning, and all but FillVoxel the last hit or none.
LEMMA BinningStays ==
  ASSUME BinningKept, slice # NoSlice, UNCHANGED <<slice, stored, param>>
  PROVE  BinningKept'
  BY DEF BinningKept

LEMMA HitStays ==
  ASSUME HitsAreInTheirBin, UNCHANGED <<param, hit>>
  PROVE  HitsAreInTheirBin'
<1>1. \A l, ix : Low(l, ix)' = Low(l, ix) /\ Up(l, ix)' = Up(l, ix)
  BY DEF Low, Up
<1>2. \A l, ix : Around(l, ix)' = Around(l, ix)
  BY <1>1 DEF Around
<1>3. \A l, ix : AlphaBins(l, ix)' = AlphaBins(l, ix)
  BY <1>2 DEF AlphaBins
<1> QED
  BY <1>1, <1>3 DEF HitsAreInTheirBin

\* Setting up leaves no shower behind.
LEMMA SetUpKept ==
  ASSUME VInv, (\E s \in Slices : InitializeNetwork(s)) \/ SaveSlice \/ RestoreSlice
  PROVE  VInv'
<1>1. /\ pc = "idle" /\ UNCHANGED <<pc, hit, einit>>
  BY DEF InitializeNetwork, SaveSlice, RestoreSlice, shower
<1>2. ShowerKept'
  BY <1>1 DEF VInv, ShowerKept
<1>3. ASSUME NEW s \in Slices, InitializeNetwork(s) PROVE VInv'
  <2>1. /\ slice = NoSlice /\ slice' = s /\ stored' = stored
        /\ \E b \in BinsFor(s) : param' = [version |-> b.version, sym |-> b.sym, layers |-> b.layers]
    BY <1>3 DEF InitializeNetwork
  <2>2. Binned(param'.layers)
    BY <2>1, GanAssumption DEF BinsFor
  <2>3. s # NoSlice /\ stored = NotStored /\ hit = NoHit
    BY <2>1, GanAssumption DEF VInv, BinningKept
  <2> QED
    BY <1>1, <1>2, <2>1, <2>2, <2>3 DEF VInv, BinningKept, HitsAreInTheirBin
<1>4. CASE SaveSlice
  <2>1. /\ slice # NoSlice /\ UNCHANGED <<slice, param>>
        /\ stored'.slice = slice /\ stored'.param = param
    BY <1>4 DEF SaveSlice
  <2>2. HitsAreInTheirBin'
    BY <1>1, <2>1, HitStays DEF VInv
  <2> QED
    BY <1>1, <1>2, <2>1, <2>2 DEF VInv, BinningKept
<1>5. CASE RestoreSlice
  <2>1. stored # NotStored /\ slice' = stored.slice /\ param' = stored.param /\ stored' = stored
    BY <1>5 DEF RestoreSlice
  <2>2. slice' = slice /\ param' = param /\ slice # NoSlice
    BY <2>1 DEF VInv, BinningKept
  <2>3. HitsAreInTheirBin'
    BY <1>1, <2>2, HitStays DEF VInv
  <2> QED
    BY <1>1, <1>2, <2>1, <2>2, <2>3 DEF VInv, BinningKept
<1> QED
  BY <1>3, <1>4, <1>5

LEMMA NextVInv == VInv /\ [GanNext]_vars => VInv'
<1> SUFFICES ASSUME VInv, [GanNext]_vars PROVE VInv'
  OBVIOUS
<1>1. BinningKept /\ ShowerKept /\ (slice # NoSlice => HitsAreInTheirBin)
  BY DEF VInv
<1>2. CASE (\E s \in Slices : InitializeNetwork(s)) \/ SaveSlice \/ RestoreSlice
  BY <1>2, SetUpKept
<1>3. ASSUME NEW q \in Particles, NEW e \in Before, Start(q, e) PROVE VInv'
  <2>1. /\ UNCHANGED <<slice, stored, param, einit>> /\ truth' = q /\ etot' = e
        /\ given' = <<>> /\ hit' = NoHit
        /\ pc' \in {"fill", "fatal", "crashed"} /\ (slice = NoSlice => pc' # "fill")
    BY <1>3 DEF Start, SetUpIsKept
  <2>2. e \in Nat
    BY GanAssumption
  <2>3. ShowerKept'
    BY <1>1, <2>1, <2>2 DEF ShowerKept
  <2>4. BinningKept'
    BY <1>1, <2>1 DEF BinningKept
  <2>5. HitsAreInTheirBin'
    BY <2>1 DEF HitsAreInTheirBin
  <2> QED
    BY <2>3, <2>4, <2>5 DEF VInv
<1>4. ASSUME NEW a \in Answers, AskNetwork(a) PROVE VInv'
  <2>1. /\ pc = "fill" /\ UNCHANGED <<slice, stored, param, hit, truth, etot, energy, given>>
        /\ outputs' = a /\ einit' = (IF OnlyScale THEN etot ELSE truth.ekin)
        /\ pc' \in {"crashed", "skipped", "energies"}
    BY <1>4 DEF AskNetwork, SetUpIsKept
  <2>2. truth \in Particles /\ etot \in Nat /\ given = <<>> /\ slice # NoSlice
    BY <1>1, <2>1 DEF ShowerKept, BinningKept
  <2>3. a \in Seq(Int) /\ einit' \in Nat
    BY <2>1, <2>2, GanAssumption
  <2>4. ShowerKept'
    BY <2>1, <2>2, <2>3 DEF ShowerKept
  <2> QED
    BY <1>1, <2>1, <2>2, <2>4, BinningStays, HitStays DEF VInv
<1>5. CASE FillEnergy
  <2>1. UNCHANGED <<slice, stored, param>> /\ pc \notin {"idle", "fatal", "crashed"}
    BY <1>5 DEF FillEnergy, NotLoaded, FillEnergies, RunAfter, StartLayer, SkipVoxel, FillVoxel,
       SetFractions, Return, SetUpIsKept
  <2>2. slice # NoSlice /\ HitsAreInTheirBin /\ BinningKept'
    BY <1>1, <2>1, BinningStays DEF BinningKept
  <2>3. CASE NotLoaded
    <3>1. pc' = "skipped" /\ UNCHANGED <<truth, einit, hit>> /\ pc # "idle"
      BY <2>3 DEF NotLoaded
    <3>2. ShowerKept'
      BY <1>1, <3>1 DEF ShowerKept
    <3> QED
      BY <2>1, <2>2, <3>1, <3>2, HitStays DEF VInv
  <2>4. CASE Return
    <3>1. pc' = "idle" /\ UNCHANGED <<einit, hit>>
      BY <2>4 DEF Return, shower
    <3>2. ShowerKept'
      BY <1>1, <3>1 DEF ShowerKept
    <3> QED
      BY <2>1, <2>2, <3>1, <3>2, HitStays DEF VInv
  <2>5. CASE FillVoxel
    BY <1>1, <2>2, <2>5, FillTurn DEF VInv
  <2>6. CASE FillEnergies \/ RunAfter \/ StartLayer \/ SkipVoxel \/ SetFractions
    <3>1. hit' = hit
      BY <2>6 DEF FillEnergies, RunAfter, StartLayer, SkipVoxel, SetFractions
    <3>2. ShowerKept'
      BY <1>1, <2>6, EnergiesFilled, AfterEnergies, NewLayer, SkipTurn, FractionsSet
    <3> QED
      BY <2>1, <2>2, <3>1, <3>2, HitStays DEF VInv
  <2> QED
    BY <1>5, <2>3, <2>4, <2>5, <2>6 DEF FillEnergy
<1>6. CASE UNCHANGED vars
  <2>1. UNCHANGED <<slice, stored, param, pc, truth, outputs, energy, etot, einit, layer, vox, bin,
                    given, hit>>
    BY <1>6 DEF vars, ganVars
  <2>2. BinningKept' /\ (slice' # NoSlice => HitsAreInTheirBin')
    BY <1>1, <2>1, HitStays DEF BinningKept
  <2>3. ShowerKept'
    <3>1. AtLayer' = AtLayer /\ (AtVoxel => AtVoxel') /\ (Answered => Answered')
      BY <2>1, SameLayers, SameAnswer
      DEF AtLayer, AtVoxel, Used, RBins, AlphaBins, Around, Low, Up
    <3>2. /\ FirstVoxel(AtLayer)' = FirstVoxel(AtLayer)
          /\ Offset(AtLayer, bin)' = Offset(AtLayer, bin)
      BY <2>1, <3>1 DEF FirstVoxel, LayersBelow, InLayers, Sorted, VoxelsIn, Offset, InRBins, Used,
         RBins, AlphaBins, Around, Low, Up
    <3>3. \A k \in 1 .. NSorted :
            /\ GivenUpTo(Sorted[k], TurnsOf(k)) => GivenUpTo(Sorted[k], TurnsOf(k))'
            /\ GivenUpTo(Sorted[k], VoxelsIn(Sorted[k]))
                 => GivenUpTo(Sorted[k], VoxelsIn(Sorted[k]))'
      <4> SUFFICES ASSUME NEW k \in 1 .. NSorted
                   PROVE  /\ GivenUpTo(Sorted[k], TurnsOf(k)) => GivenUpTo(Sorted[k], TurnsOf(k))'
                          /\ GivenUpTo(Sorted[k], VoxelsIn(Sorted[k]))
                               => GivenUpTo(Sorted[k], VoxelsIn(Sorted[k]))'
        OBVIOUS
      <4>1. Sorted' = Sorted /\ EnergyOf(Sorted[k])' = EnergyOf(Sorted[k])
        BY <2>1, SameLayers DEF EnergyOf
      <4>2. VoxelsIn(Sorted[k])' = VoxelsIn(Sorted[k]) /\ TurnsOf(k)' = TurnsOf(k)
        BY <2>1, <3>2, <4>1, SameLayers DEF TurnsOf
      <4> QED
        BY <2>1, <4>1, <4>2 DEF GivenUpTo, HitEnergy
    <3>4. NSorted' = NSorted /\ InLayers' = InLayers
      BY <2>1, SameLayers
    <3> QED
      BY <1>1, <2>1, <3>1, <3>2, <3>3, <3>4 DEF ShowerKept
  <2> QED
    BY <2>2, <2>3 DEF VInv
<1> QED
  BY <1>2, <1>3, <1>4, <1>5, <1>6 DEF GanNext

LEMMA VInvIsEnough == VInv => HitsAreOfTheirVoxels
<1> SUFFICES ASSUME VInv PROVE HitsAreOfTheirVoxels
  OBVIOUS
<1>1. HitsAreInTheirBin
  BY DEF VInv, BinningKept, HitsAreInTheirBin
<1>2. ASSUME pc = "done", NEW l \in DOMAIN energy
      PROVE  IF Fine(l) /\ ~Electromagnetic(truth.pdg) THEN HitEnergy(l) <= energy[l]
             ELSE HitEnergy(l) = energy[l]
  <2>1. Binned(param.layers) /\ Answered
        /\ \A k \in 1 .. NSorted : GivenUpTo(Sorted[k], VoxelsIn(Sorted[k]))
    BY <1>2 DEF VInv, BinningKept, ShowerKept
  <2>2. l \in DOMAIN param.layers /\ energy[l] = SumUpTo(EnergyOf(l), VoxelsIn(l))
    BY <2>1 DEF Answered
  <2>3. LayersBelow(l) + 1 \in 1 .. NSorted /\ Sorted[LayersBelow(l) + 1] = l
    BY <2>1, <2>2, LayersInOrder
  <2>4. GivenUpTo(l, VoxelsIn(l))
    BY <2>1, <2>3
  <2> QED
    BY <2>2, <2>4 DEF GivenUpTo
<1>3. pc \in {"layer", "voxel", "done"} => DOMAIN given \subseteq DOMAIN energy
  BY DEF VInv, ShowerKept
<1> QED
  BY <1>1, <1>2, <1>3 DEF HitsAreOfTheirVoxels, HitsCarryTheLayer, HitEnergy

\* What fillEnergy() hands out in hits is what it gave to the layers: when a shower
\* ends, the hits of every layer carry its energy, no more in the fine layers of
\* hadrons, where a voxel may get no hits, and every hit lies in r and alpha inside
\* the bin of its voxel: for every binning of the layers, used and unused, every
\* answer of a network, every momentum, and with radii drawn or on the grid.
THEOREM GanHitsAreTheVoxels == GanSpec => []HitsAreOfTheirVoxels
<1> QED
  BY InitVInv, NextVInv, VInvIsEnough, PTL DEF GanSpec

=============================================================================
