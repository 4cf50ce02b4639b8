-------------------------- MODULE NetworkHandlers --------------------------
(***************************************************************************)
(* Networks: TFCSNetworkFactory, which makes the handler a name or a text  *)
(* asks for, and the handlers, TFCSONNXHandler, TFCSSimpleLWTNNHandler and *)
(* TFCSGANLWTNNHandler, which are copied, stripped of what only saving     *)
(* needs, written to trees of ROOT files and streamed.                     *)
(*                                                                         *)
(* A description of a network, the content of a file, is a form and the    *)
(* network itself; what a network computes is left to its users.  A name   *)
(* of an output is the sequence of its parts, and a file name a stem, such *)
(* as pid, eta and range of a GAN, and an extension.                       *)
(***************************************************************************)
EXTENDS Integers, Sequences, FiniteSets, TLC

CONSTANTS
  Slots,       \* owners of a network
  Disk,        \* file names with a description, and that description
  Nodes,       \* per network, its output nodes: [name, size]
  CopyKinds,   \* kinds of handlers that are copied
  StandAlone   \* __FastCaloSimStandAlone__

Forms == {"onnx", "sequential", "graph"}
Kinds == {"onnx", "simple", "lwtgraph"}
Empty == [form |-> "none", net |-> 0]
NoNet == [kind |-> "none", text |-> Empty, net |-> Empty, call |-> FALSE,
          names |-> "none", layers |-> {}]
Saved == [stem |-> <<0, 0, "saved">>, ext |-> "root"]

ASSUME HandlerAssumption ==
  /\ Saved \notin DOMAIN Disk /\ StandAlone \in BOOLEAN
  /\ CopyKinds \subseteq Kinds
  /\ \A f \in DOMAIN Disk : Disk[f].form \in Forms /\ Disk[f].net \in DOMAIN Nodes
  /\ \A n \in DOMAIN Nodes :
       Nodes[n] # <<>> /\ \A k \in 1 .. Len(Nodes[n]) : Nodes[n][k].size \in Nat

VARIABLES
  obj,      \* per owner, its handler, or NoNet
  tree,     \* the tree in the ROOT file Saved: [branch, text], or none
  buffer,   \* a handler as streamed: [kind, text], or none
  thrown    \* whether the last call threw

netVars == <<obj, tree, buffer, thrown>>
NoTree == [branch |-> "none", text |-> Empty]
NoBuffer == [kind |-> "none", text |-> Empty]

-----------------------------------------------------------------------------
\* removePrefixes(): what all names begin with is taken off each.
Agree(names, first, n) ==
  \A a \in names : Len(a) >= n /\ SubSeq(a, 1, n) = SubSeq(first, 1, n)
PrefixLength(names) ==
  LET first == CHOOSE a \in names : TRUE
  IN  CHOOSE n \in 0 .. Len(first) :
        Agree(names, first, n) /\ ~Agree(names, first, n + 1)
RemovePrefixes(names) ==
  LET n == PrefixLength(names) IN {SubSeq(a, n + 1, Len(a)) : a \in names}

\* The outputs of a network, <node>_<part>, as composed before the prefix goes.
OutputNames(net) ==
  UNION {{<<Nodes[net][k].name, "_", ToString(i)>> : i \in 0 .. Nodes[net][k].size - 1} :
           k \in 1 .. Len(Nodes[net])}

\* compute(): the keys of the values returned.
OutputKeys(h) == RemovePrefixes(OutputNames(h.net.net))
Number(i) == <<ToString(i)>>

-----------------------------------------------------------------------------
\* resolveGlobs(): a name ending in ".*" becomes the ONNX file if there is one,
\* otherwise the JSON file; with neither, an exception.
Named(input) == input.name # [stem |-> <<0, 0, "none">>, ext |-> "none"]
Globbed(name, ext) == [name EXCEPT !.ext = ext]
IsFile(name) == name \in DOMAIN Disk \/ (name = Saved /\ tree # NoTree)
ResolveFails(name) ==
  name.ext = "*" /\ ~IsFile(Globbed(name, "onnx")) /\ ~IsFile(Globbed(name, "json"))
ResolveGlobs(name) ==
  IF name.ext # "*" THEN name
  ELSE Globbed(name, IF IsFile(Globbed(name, "onnx")) THEN "onnx" ELSE "json")

\* setupPersistedVariables(): the text in memory, of a file, or of the tree of
\* a ROOT file, which has to have the branch this kind of handler writes.
Branch(kind) == IF kind = "onnx" THEN "serialized_m_session" ELSE "lwtnn_json"
FromTree(branch) == IF tree.branch = branch THEN tree.text ELSE Empty
TextOf(kind, name, text) ==
  IF ~IsFile(name) THEN text
  ELSE IF name.ext = "root" THEN FromTree(Branch(kind))
  ELSE Disk[name]

\* setupNet() of the three kinds fails for a text of another form.
FormOf(kind) == CASE kind = "onnx" -> "onnx"
                  [] kind = "simple" -> "sequential"
                  [] kind = "lwtgraph" -> "graph"
Parses(kind, text) == text.form = FormOf(kind)
Handler(kind, text, slot) ==
  [kind |-> kind, text |-> text, net |-> text, call |-> TRUE, names |-> slot,
   layers |-> RemovePrefixes(OutputNames(text.net))]
Handled(kind, text, slot) ==
  IF Parses(kind, text) THEN Handler(kind, text, slot) ELSE NoNet

\* create() from a string: an ONNX file by its extension; anything else is
\* LWTNN, a plain network first, and a graph if it turns out to be one ...
CreateGuess(name, text, slot) ==
  IF IsFile(name) /\ name.ext = "onnx" THEN Handled("onnx", TextOf("onnx", name, text), slot)
  ELSE LET json == TextOf("simple", name, text)
       IN  IF json.form = "graph" THEN Handled("lwtgraph", json, slot)
           ELSE Handled("simple", json, slot)

\* ... unless the caller says which.
CreateForm(name, text, graph, slot) ==
  IF IsFile(name) /\ name.ext = "onnx" THEN Handled("onnx", TextOf("onnx", name, text), slot)
  ELSE LET kind == IF graph THEN "lwtgraph" ELSE "simple"
       IN  Handled(kind, TextOf(kind, name, text), slot)

FromString(input, slot) ==
  LET name == ResolveGlobs(input.name)
  IN  IF input.form = "unknown" THEN CreateGuess(name, input.text, slot)
      ELSE CreateForm(name, input.text, input.form = "graph", slot)

\* create() from bytes, or from whichever of bytes and string has data; a name
\* that resolves to nothing is an exception even where there are bytes.
Create(input, slot) ==
  IF ResolveFails(input.name) THEN NoNet
  ELSE IF input.bytes # Empty THEN Handled("onnx", input.bytes, slot)
  ELSE IF ~Named(input) /\ input.text = Empty THEN NoNet
  ELSE FromString(input, slot)

-----------------------------------------------------------------------------
NetInit ==
  /\ obj = [s \in Slots |-> NoNet]
  /\ tree = NoTree /\ buffer = NoBuffer /\ thrown = FALSE

\* An owner takes what a call returns, unless the call throws.
Takes(s, h) ==
  /\ thrown' = (h = NoNet)
  /\ obj' = IF h = NoNet THEN obj ELSE [obj EXCEPT ![s] = h]

Make(s, input) ==
  /\ Takes(s, Create(input, s))
  /\ UNCHANGED <<tree, buffer>>

\* The copy constructors.  LWTNN networks are parsed again, which needs the
\* text; of an ONNX network the session is read again, but neither the function
\* that computes nor the strings its node names point to are copied.
CopyOf(h, slot) ==
  IF h.kind = "onnx" THEN [h EXCEPT !.call = FALSE]
  ELSE IF h.text = Empty THEN NoNet ELSE Handler(h.kind, h.text, slot)
Copy(s, t) ==
  /\ s # t /\ obj[s].kind \in CopyKinds
  /\ Takes(t, CopyOf(obj[s], t))
  /\ UNCHANGED <<tree, buffer>>

Destroy(s) ==
  /\ obj[s] # NoNet
  /\ obj' = [obj EXCEPT ![s] = NoNet] /\ thrown' = FALSE
  /\ UNCHANGED <<tree, buffer>>

\* deleteAllButNet() does nothing for ONNX.
Stripped(h) == IF h.kind = "onnx" THEN h ELSE [h EXCEPT !.text = Empty]
DeleteAllButNet(s) ==
  /\ obj[s] # NoNet
  /\ obj' = [obj EXCEPT ![s] = Stripped(obj[s])] /\ thrown' = FALSE
  /\ UNCHANGED <<tree, buffer>>

\* writeNetToTTree(): also where there is no text left to write.
WriteTree(s) ==
  /\ obj[s] # NoNet
  /\ tree' = [branch |-> Branch(obj[s].kind), text |-> obj[s].text]
  /\ thrown' = FALSE /\ UNCHANGED <<obj, buffer>>

\* Streamer(): the persisted variables are written, with a warning where they
\* are empty; when they are read the network is set up from them.
Persisted(h) == [kind |-> h.kind, text |-> h.text]
WriteBuffer(s) ==
  /\ obj[s] # NoNet
  /\ buffer' = Persisted(obj[s])
  /\ thrown' = FALSE /\ UNCHANGED <<obj, tree>>

Read_NoSetup(b, slot) ==
  [NoNet EXCEPT !.kind = b.kind, !.text = b.text, !.names = slot]
Read(b, slot) ==
  LET h == Handled(b.kind, b.text, slot)
  IN  IF h = NoNet \/ StandAlone THEN h ELSE Stripped(h)
ReadBuffer(s) ==
  /\ buffer # NoBuffer
  /\ Takes(s, Read(buffer, s))
  /\ UNCHANGED <<tree, buffer>>

-----------------------------------------------------------------------------
\* compute() runs the network if the function is there, and an ONNX network
\* whose names are those of a handler that still exists.
Computes(h) ==
  /\ h # NoNet /\ h.call
  /\ h.kind = "onnx" => obj[h.names].kind = "onnx"

-----------------------------------------------------------------------------
\* A handler that exists can compute, with a network of the form its kind is
\* for, whatever it went through: copied, streamed, stripped, or made from the
\* tree of another that may have been stripped before it was written.
ExistingNetworksCompute ==
  \A s \in Slots : obj[s] # NoNet =>
    Computes(obj[s]) /\ Parses(obj[s].kind, obj[s].net)

\* The names getOutputLayers() gives are the keys compute() returns, and those
\* of a network with one node are the numbers its users look up.
OutputsAreNumbered ==
  \A s \in Slots : obj[s] # NoNet =>
    LET nodes == Nodes[obj[s].net.net]
    IN  /\ obj[s].layers = OutputKeys(obj[s])
        /\ Len(nodes) = 1 /\ nodes[1].size > 1
             => OutputKeys(obj[s]) = {Number(i) : i \in 0 .. nodes[1].size - 1}

\* A handler is of use: it computes, and its answers are found under the names
\* it gives.
HandlersAreUsable == ExistingNetworksCompute /\ OutputsAreNumbered
=============================================================================
