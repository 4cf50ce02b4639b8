------------------------------ MODULE CaloGeo ------------------------------
(***************************************************************************)
(* The calorimeter's cells: CaloGeo with the memory-mapped CellStore and    *)
(* one R-tree per layer on disk, which each thread opens for itself.        *)
(* build() writes the files, load() maps them, and threads look cells up by *)
(* layer and position, by id and by index.  A looked-up cell is a reference *)
(* to a copy in the thread's own memory that its next lookup overwrites.    *)
(* Lengths and angles are integers and the full angle is 2 * Pi; the widths *)
(* of cells are even, so that half a width is an integer.                   *)
(***************************************************************************)
EXTENDS Integers, FiniteSetsExt, SequencesExt

CONSTANTS
  Readers,      \* the threads that look cells up
  DataFrames,   \* what build() may be given: sequences of cells
  Positions,    \* what get_cell() may be asked for
  AltCell,      \* the cell an alternative geometry handler answers with
  MaxListed,    \* bound on the ids of a layer that repeated build()s list
  Cuts,         \* how many records of the two files a crash leaves written
  Pi,           \* half the full angle
  None          \* no file, no mapping, no call

CellsOf(df) == ToSet(df)
Infinity == 10000
Half(d) == d \div 2

\* A cell has a width, and less than the full angle.
GoodCell(c) ==
  /\ {c.id, c.c1, c.c2, c.d1, c.d2, c.eta, c.deta} \subseteq Int
  /\ c.deta >= 0 /\ c.d1 > 0 /\ c.d2 > 0 /\ c.d1 % 2 = 0 /\ c.d2 % 2 = 0
  /\ c.sys # "XYZ" => c.d2 < 2 * Pi
  /\ -Infinity <= c.eta - Half(c.deta) /\ c.eta + Half(c.deta) <= Infinity

\* A detector has cells, each with an id of its own, and one coordinate system
\* per layer.
ASSUME CellAssumption ==
  /\ Pi \in Nat \ {0}
  /\ \A df \in DataFrames :
       /\ df \in Seq(CellsOf(df)) /\ df # <<>>
       /\ \A c \in CellsOf(df) : GoodCell(c)
       /\ \A i, j \in DOMAIN df :
            /\ df[i].id = df[j].id => i = j
            /\ df[i].layer = df[j].layer => df[i].sys = df[j].sys

\* Angles are asked for in their range.
ASSUME PositionAssumption ==
  \A pos \in Positions :
    {pos.x, pos.y, pos.eta, pos.phi} \subseteq Int /\ -Pi <= pos.phi /\ pos.phi <= Pi

ASSUME BuildAssumption == MaxListed \in Nat /\ Cuts \subseteq Nat \X Nat

VARIABLES
  disk,     \* the files of the base path: data, index, and a tree per layer
  flags,    \* m_layer_flags
  ids,      \* m_layer_cell_ids
  counts,   \* m_n_layers and m_n_total_cells
  store,    \* m_cell_store: the mapped files
  queries,  \* m_layer_rtree_queries: the layers with an RTreeQuery
  alt,      \* m_alt_geo_handlers: the layers with one
  building, \* layers whose tree the running build() has still to write
  again,    \* build() ran on an object that listed cells; no load() since
  mixed,    \* the trees may be those of other cells: a build() was cut off that
            \* had begun to replace older files, or one ran again
  handle,   \* of each thread and layer, the tree it has opened
  scratch,  \* of each thread, its thread_local tmp_cell
  asked     \* of each thread, the cell it last looked up and still reads

geoVars == <<disk, flags, ids, counts, store, queries, alt, building,
             again, mixed, handle, scratch, asked>>
objectVars == <<flags, ids, counts, store, queries, alt, handle>>
Empty == [x \in {} |-> 0]
NoFiles == [data |-> None, index |-> None, trees |-> Empty]
NoCell == [id |-> -1, valid |-> FALSE]
ZeroCell == [id |-> 0, valid |-> FALSE]

\* Cells ------------------------------------------------------------------
NormPhi(a) == ((a + Pi) % (2 * Pi)) - Pi
AbsOf(n) == IF n < 0 THEN -n ELSE n
IsXYZ(cell) == cell.sys = "XYZ"

\* is_inside(): the proximity to the boundary is negative.
IsInside(cell, pos) ==
  IF IsXYZ(cell)
  THEN 2 * AbsOf(pos.x - cell.c1) < cell.d1 /\ 2 * AbsOf(pos.y - cell.c2) < cell.d2
  ELSE /\ 2 * AbsOf(pos.eta - cell.c1) < cell.d1
       /\ 2 * AbsOf(NormPhi(pos.phi - cell.c2)) < cell.d2

\* At the boundary the proximity is zero.
IsTouching(cell, pos) ==
  IF IsXYZ(cell)
  THEN 2 * AbsOf(pos.x - cell.c1) <= cell.d1 /\ 2 * AbsOf(pos.y - cell.c2) <= cell.d2
  ELSE /\ 2 * AbsOf(pos.eta - cell.c1) <= cell.d1
       /\ 2 * AbsOf(NormPhi(pos.phi - cell.c2)) <= cell.d2

SubPositions == {"MID", "ENT", "EXT"}
CellR(cell, sub) ==
  CASE sub = "ENT" -> cell.r - cell.dr \div 2
    [] sub = "MID" -> cell.r
    [] sub = "EXT" -> cell.r + cell.dr \div 2
CellZ(cell, sub) ==
  LET out == IF cell.z < 0 THEN -1 ELSE 1 IN
  CASE sub = "ENT" -> cell.z - out * (cell.dz \div 2)
    [] sub = "MID" -> cell.z
    [] sub = "EXT" -> cell.z + out * (cell.dz \div 2)

\* Trees: boxes with the id of their cell ------------------------------------
Box(lo1, lo2, hi1, hi2, id) == [lo |-> <<lo1, lo2>>, hi |-> <<hi1, hi2>>, id |-> id]
LowPhi(cell) == NormPhi(cell.c2 - Half(cell.d2))
HighPhi(cell) == NormPhi(cell.c2 + Half(cell.d2))

XyBox(cell) ==
  {Box(cell.c1 - Half(cell.d1), cell.c2 - Half(cell.d2),
       cell.c1 + Half(cell.d1), cell.c2 + Half(cell.d2), cell.id)}

EtaPhiBoxesFrom(cell, lo, hi) ==
  {Box(cell.c1 - Half(cell.d1), lo, cell.c1 + Half(cell.d1), hi, cell.id)}

\* A cell across the end of the angle's range has two boxes.
EtaPhiBoxes_NoSplit(cell) == EtaPhiBoxesFrom(cell, LowPhi(cell), HighPhi(cell))
EtaPhiBoxes(cell) ==
  IF LowPhi(cell) > HighPhi(cell)
  THEN EtaPhiBoxesFrom(cell, -Pi, HighPhi(cell)) \cup EtaPhiBoxesFrom(cell, LowPhi(cell), Pi)
  ELSE EtaPhiBoxesFrom(cell, LowPhi(cell), HighPhi(cell))

\* add_cell() copies the box and the id: the cell is only lent.
BoxesOf(cell, sys) == IF sys = "XYZ" THEN XyBox(cell) ELSE EtaPhiBoxes(cell)

\* The library's nearest neighbour: of several equally near, any.
Gap(box, pt, i) ==
  IF pt[i] < box.lo[i] THEN box.lo[i] - pt[i]
  ELSE IF pt[i] > box.hi[i] THEN pt[i] - box.hi[i] ELSE 0
Far2(box, pt) == Gap(box, pt, 1) * Gap(box, pt, 1) + Gap(box, pt, 2) * Gap(box, pt, 2)
Nearest(boxes, pt) ==
  {b.id : b \in {x \in boxes : \A y \in boxes : Far2(x, pt) <= Far2(y, pt)}}

\* query_point(): the coordinates depend on the layer's coordinate system.
QueryPoint(sys, pos) == IF sys = "XYZ" THEN <<pos.x, pos.y>> ELSE <<pos.eta, pos.phi>>

\* The store -----------------------------------------------------------------
\* CellStoreBuilder::write(): the cells by id, and where each one starts.
DataFile(cells) ==
  [i \in 1 .. Cardinality(cells) |->
     CHOOSE c \in cells : Cardinality({d \in cells : d.id < c.id}) = i - 1]
IndexFile(cells) ==
  LET data == DataFile(cells) IN [i \in DOMAIN data |-> [id |-> data[i].id, offset |-> i]]

\* A file, and a place in one, is something else than none.
ASSUME FileAssumption ==
  None \notin Nat /\ \A df \in DataFrames : None \notin {DataFile(CellsOf(df)), IndexFile(CellsOf(df))}

\* findOffsetById(): the binary search of the index, from 0 as in the code.
FindOffset(index, id) ==
  LET search[e \in (0 .. Len(index)) \X (0 .. Len(index))] ==
        LET l == e[1]
            r == e[2]
            mid == l + (r - l) \div 2
        IN IF l >= r THEN None
           ELSE IF index[mid + 1].id = id THEN index[mid + 1].offset
           ELSE IF index[mid + 1].id < id THEN search[<<mid + 1, r>>]
           ELSE search[<<l, mid>>]
  IN search[<<0, Len(index)>>]

Unmapped == [data |-> None, index |-> None]
IsLoaded == store.data # None /\ store.index # None
\* Files that cannot be mapped: there is none, or nothing is in it.
Unmappable == {None, <<>>}
\* The cell under an id, NoCell when it is not found.  Behind the end of data
\* that was cut off there are zeros, or nothing the program survives.
Under(data, index, id) ==
  LET at == FindOffset(index, id) IN
  IF at = None THEN {NoCell}
  ELSE IF at \in DOMAIN data THEN {data[at]} ELSE {NoCell, ZeroCell}
\* get(): NoCell when it throws.  A build() of a loaded object replaces the
\* files under its mapping, which then shows old pages or new ones.
Get(id) ==
  IF ~IsLoaded THEN {NoCell}
  ELSE IF ~again THEN Under(store.data, store.index, id)
  ELSE {NoCell} \cup UNION {Under(data, index, id) : data \in {store.data, disk.data},
                                                   index \in {store.index, disk.index}}

\* Layers --------------------------------------------------------------------
NoExtent == [min |-> Infinity, max |-> -Infinity]
NewFlags(cell) ==
  [barrel |-> cell.barrel, sys |-> cell.sys,
   extent |-> [side \in {"positive", "negative"} |-> NoExtent]]
SideOf(cell) == IF cell.eta > 0 THEN "positive" ELSE "negative"
Smaller(a, b) == IF b < a THEN b ELSE a
Larger(a, b) == IF b > a THEN b ELSE a

\* update_eta_extremes(): the centre and the width in eta of one cell.
Widened(ext, cell) ==
  [min |-> Smaller(ext.min, cell.eta - Half(cell.deta)),
   max |-> Larger(ext.max, cell.eta + Half(cell.deta))]

With(f, k, v) == [x \in DOMAIN f \cup {k} |-> IF x = k THEN v ELSE f[x]]

\* The loop over the cells in build() and load(): build() starts from new
\* flags, load() keeps those of a layer the object knows already.
Scanned(s, cell) ==
  LET l == cell.layer
      f == IF l \in DOMAIN s.flags THEN s.flags[l] ELSE NewFlags(cell)
  IN [flags |-> With(s.flags, l, [f EXCEPT !.extent[SideOf(cell)] = Widened(@, cell)]),
      ids |-> With(s.ids, l, IF l \in DOMAIN s.ids
                             THEN Append(s.ids[l], cell.id) ELSE <<cell.id>>)]
Scan(known, knownIds, cells) ==
  LET upto[i \in 0 .. Len(cells)] ==
        IF i = 0 THEN [flags |-> known, ids |-> knownIds]
        ELSE Scanned(upto[i - 1], cells[i])
  IN upto[Len(cells)]

LayersIn(cells) == {cells[i].layer : i \in DOMAIN cells}

\* The object -----------------------------------------------------------------
FreshObject ==
  /\ flags' = Empty /\ ids' = Empty /\ counts' = [layers |-> 0, cells |-> 0]
  /\ store' = Unmapped /\ queries' = {} /\ alt' = {}
  /\ handle' = [t \in Readers |-> Empty]

GeoInit ==
  /\ disk = NoFiles /\ flags = Empty /\ ids = Empty
  /\ counts = [layers |-> 0, cells |-> 0] /\ store = Unmapped /\ queries = {}
  /\ alt = {} /\ building = {} /\ again = FALSE /\ mixed = FALSE
  /\ handle = [t \in Readers |-> Empty]
  /\ scratch = [t \in Readers |-> NoCell] /\ asked = [t \in Readers |-> None]

\* The program starts again, perhaps in the middle of a build().
Restart ==
  /\ FreshObject
  /\ building' = {} /\ again' = FALSE
  /\ mixed' = (mixed \/ building \cap DOMAIN disk.trees # {})
  /\ scratch' = [t \in Readers |-> NoCell] /\ asked' = [t \in Readers |-> None]
  /\ UNCHANGED disk

\* build(): the layers' properties, then the store.  The lists of an object
\* that has some already become longer.
BuildStore(df) ==
  LET known == [l \in DOMAIN flags \ LayersIn(df) |-> flags[l]]
      s == Scan(known, ids, df)
      cells == CellsOf(df)
  IN /\ building = {}
     /\ \A l \in DOMAIN s.ids : Len(s.ids[l]) <= MaxListed
     /\ flags' = s.flags /\ ids' = s.ids
     /\ counts' = [layers |-> Cardinality(LayersIn(df)), cells |-> Len(df)]
     /\ building' = DOMAIN s.ids
     /\ disk' = [disk EXCEPT !.data = DataFile(cells), !.index = IndexFile(cells)]
     /\ again' = (again \/ ids # Empty) /\ mixed' = (mixed \/ ids # Empty)
     /\ UNCHANGED <<store, queries, alt, handle, scratch, asked>>

\* The program ends while build() writes the store, record by record to each of
\* the two files: some of the records have reached them.
CutOff(df, m, n) ==
  LET cells == CellsOf(df) IN
  /\ building = {} /\ {m, n} \subseteq 0 .. Cardinality(cells)
  /\ disk' = [disk EXCEPT !.data = SubSeq(DataFile(cells), 1, m),
                          !.index = SubSeq(IndexFile(cells), 1, n)]
  /\ FreshObject
  /\ again' = FALSE /\ mixed' = (mixed \/ DOMAIN disk.trees # {})
  /\ scratch' = [t \in Readers |-> NoCell] /\ asked' = [t \in Readers |-> None]
  /\ UNCHANGED building

\* build() goes on: the tree of one layer, from the cells of the stored files.
TreeOf(cells, sys) == UNION {BoxesOf(cells[i], sys) : i \in DOMAIN cells}
IsStored(id) == FindOffset(disk.index, id) # None
StoredCell(id) == disk.data[FindOffset(disk.index, id)]
BuildTree(l) ==
  /\ l \in building /\ \A id \in ToSet(ids[l]) : IsStored(id)
  /\ disk' = [disk EXCEPT !.trees =
                With(@, l, TreeOf([i \in DOMAIN ids[l] |-> StoredCell(ids[l][i])],
                                  flags[l].sys))]
  /\ building' = building \ {l}
  /\ mixed' = (mixed /\ (building' # {} \/ again))
  /\ UNCHANGED <<objectVars, again, scratch, asked>>

\* A layer of an earlier build() lists a cell the new store does not have.
BuildThrows ==
  /\ \E l \in building : \E id \in ToSet(ids[l]) : ~IsStored(id)
  /\ building' = {}
  /\ UNCHANGED <<disk, objectVars, again, mixed, scratch, asked>>

\* load() by a thread: the store is mapped, the lists are rebuilt, and then
\* the trees are opened one layer after the other until one fails.
LoadStart_KeepsLists == [flags |-> flags, ids |-> ids]
LoadStart == [flags |-> flags, ids |-> Empty]
LoadTrees(t, s) ==
  LET layers == DOMAIN s.ids
      there == layers \cap DOMAIN disk.trees
  IN \E opened \in SUBSET there, broken \in SUBSET (layers \ there) :
       /\ IF there = layers THEN opened = layers /\ broken = {} ELSE Cardinality(broken) = 1
       /\ queries' = queries \cup opened \cup broken
       /\ handle' = [u \in Readers |->
            [l \in (DOMAIN handle[u] \ (opened \cup broken)) \cup (IF u = t THEN opened ELSE {}) |->
               IF l \in opened THEN disk.trees[l] ELSE handle[u][l]]]

Load(t) ==
  /\ building = {}
  /\ UNCHANGED <<disk, alt, building, mixed, scratch, asked>>
  /\ \/ /\ disk.data \in Unmappable \/ disk.index \in Unmappable
        /\ store' = Unmapped
        /\ UNCHANGED <<flags, ids, counts, queries, again, handle>>
     \/ /\ disk.data \notin Unmappable /\ disk.index \notin Unmappable
        /\ store' = [data |-> disk.data, index |-> disk.index]
        /\ again' = FALSE
        /\ LET start == LoadStart
               s == Scan(start.flags, start.ids, disk.data)
           IN /\ flags' = s.flags /\ ids' = s.ids
              /\ counts' = [layers |-> Cardinality(LayersIn(disk.data)), cells |-> Len(disk.data)]
              /\ LoadTrees(t, s)

SetAltGeoHandler(first, last) ==
  /\ alt' = alt \cup (first .. last)
  /\ UNCHANGED <<disk, flags, ids, counts, store, queries, building, again,
                 mixed, handle, scratch, asked>>

\* The tree files go away under a loaded geometry.
LoseTrees ==
  /\ building = {} /\ DOMAIN disk.trees # {}
  /\ disk' = [disk EXCEPT !.trees = Empty]
  /\ UNCHANGED <<objectVars, building, again, mixed, scratch, asked>>

\* Lookups --------------------------------------------------------------------
\* localTree(): the thread's own tree, opened the first time.
TreeFor(t, l) ==
  IF l \in DOMAIN handle[t] THEN handle[t][l]
  ELSE IF l \in DOMAIN disk.trees THEN disk.trees[l] ELSE None
HasTree(t, l) == l \in queries /\ TreeFor(t, l) # None

\* get_cell(layer, pos): the cells it may answer with, NoCell when it throws.
Answers(t, l, pos) ==
  IF l \in alt THEN {IF AltCell.valid THEN AltCell ELSE NoCell}
  ELSE IF ~HasTree(t, l) THEN {NoCell}
  ELSE UNION {Get(id) : id \in Nearest(TreeFor(t, l), QueryPoint(flags[l].sys, pos))}

\* Each thread has a cell of its own for what it looks up.
Kept_Shared(t, cell) == [u \in Readers |-> cell]
Kept(t, cell) == [scratch EXCEPT ![t] = cell]
Answered(t, cell, request) ==
  IF cell = NoCell THEN asked' = [asked EXCEPT ![t] = None] /\ UNCHANGED scratch
  ELSE asked' = [asked EXCEPT ![t] = request] /\ scratch' = Kept(t, cell)

Opened(t, l) ==
  handle' = IF l \notin alt /\ HasTree(t, l)
            THEN [handle EXCEPT ![t] = With(@, l, TreeFor(t, l))] ELSE handle

GetCell(t, l, pos) ==
  /\ asked[t] = None
  /\ \E cell \in Answers(t, l, pos) :
       Answered(t, cell, [layer |-> l, pos |-> pos, id |-> cell.id])
  /\ Opened(t, l)
  /\ UNCHANGED <<disk, flags, ids, counts, store, queries, alt, building, again, mixed>>

GetCellAtIdx(t, l, i) ==
  /\ asked[t] = None
  /\ \E cell \in IF l \in DOMAIN ids /\ i \in DOMAIN ids[l] THEN Get(ids[l][i]) ELSE {NoCell} :
       Answered(t, cell, [layer |-> l, pos |-> None, id |-> cell.id])
  /\ UNCHANGED <<disk, objectVars, building, again, mixed>>

\* The caller is done with the reference; what nobody reads is forgotten.
Release(t) ==
  /\ asked[t] # None
  /\ asked' = [asked EXCEPT ![t] = None]
  /\ scratch' = [scratch EXCEPT ![t] = NoCell]
  /\ UNCHANGED <<disk, objectVars, building, again, mixed>>
=============================================================================
