--------------------------- MODULE ElementAccess ---------------------------
(***************************************************************************)
(* A consumer of one tensor: it checks the layout against the shape and    *)
(* the index buffers against the layout, and then asks for the place of    *)
(* one element after the other.                                            *)
(*                                                                         *)
(* A tensor is a record: layout, shape, and                                *)
(*   bits, byte_offset, buffer_size   of its value buffer                  *)
(*   bufs     the index buffers of a sparse layout, by name                *)
(*   queries  the elements the consumer will ask for, in order             *)
(***************************************************************************)
EXTENDS DenseAddressing, SparseAddressing

CONSTANT Tensors

VARIABLES tensor,     \* what the consumer was given
          opened,     \* "new", "valid" or "refused"
          answers     \* what it was told so far, one Result per query

vars == <<tensor, opened, answers>>

\* The checks of a consumer before it reads.
valid(t) ==
  /\ constructible(t.layout)
  /\ validate_against_shape(t.layout, t.shape)
  /\ t.layout.kind = "Csf" =>
       csf_validate_index_buffers(t.layout.nnz, t.layout.mode_order, t.shape,
                                  t.bufs.pos, t.bufs.crd)
  /\ t.layout.kind = "BlockPaged" =>
       paged_validate_index_buffers(t.layout, t.bufs.seq_ptr, t.bufs.block_table)

locate(t, q) ==
  CASE t.layout.kind = "Coo" -> coo_offset(q, t.layout.is_sorted, t.bufs.indices)
    [] t.layout.kind = "Csr" -> csr_offset(q, t.bufs.minor, t.bufs.ptr)
    [] t.layout.kind = "Csc" -> csc_offset(q, t.bufs.minor, t.bufs.ptr)
    [] t.layout.kind = "Csf" -> csf_offset(q, t.layout.mode_order, t.bufs.pos, t.bufs.crd)
    [] t.layout.kind = "BlockPaged" ->
         paged_offset(q, t.layout, t.shape[2], t.shape[3], t.bufs.block_table,
                      t.bufs.seq_ptr)
    [] OTHER -> element_offset(t.layout, q, t.shape)

Init == tensor \in Tensors /\ opened = "new" /\ answers = <<>>

Open ==
  /\ opened = "new"
  /\ opened' = IF valid(tensor) THEN "valid" ELSE "refused"
  /\ UNCHANGED <<tensor, answers>>

Ask ==
  /\ opened = "valid"
  /\ Len(answers) < Len(tensor.queries)
  /\ answers' = Append(answers, locate(tensor, tensor.queries[Len(answers) + 1]))
  /\ UNCHANGED <<tensor, opened>>

Next == Open \/ Ask

Spec == Init /\ [][Next]_vars

-----------------------------------------------------------------------------
(* Reference definitions: plain arithmetic, no widths, no searching         *)

Kind     == tensor.layout.kind
Shape    == tensor.shape
Query(i) == tensor.queries[i]
Answered == {i \in DOMAIN answers : answers[i].ok /\ answers[i].off >= 0}
Off(i)   == answers[i].off
Finished == Len(answers) = Len(tensor.queries)

Product(f) == FoldLeft(LAMBDA p, n : p * n, 1, f)

\* The value a linear order gives an index, over the integers.
Linear(index, strides) ==
  MapThenSumSet(LAMBDA k : index[k] * strides[k], DOMAIN index)

RowStrides(dims) == [k \in DOMAIN dims |-> Product(SubSeq(dims, k + 1, Len(dims)))]
ColStrides(dims) == [k \in DOMAIN dims |-> Product(SubSeq(dims, 1, k - 1))]

\* Tilings whose tiles and elements are in a dense order.
DenselyTiled ==
  Kind = "Tiled" /\ \A k \in DOMAIN tensor.layout.levels :
                       /\ tensor.layout.levels[k].outer_strides = <<>>
                       /\ tensor.layout.levels[k].inner_strides = <<>>

Tile == tensor.layout.levels[1]

\* How many elements a buffer of this layout has room for.
Capacity ==
  CASE Kind \in {"RowMajor", "ColMajor"} -> Product(Shape)
    [] Kind = "Tiled" -> Product(tile_grid(Shape, Tile)) * Product(Tile.tile_shape)
    [] Kind = "Hilbert" -> 2^(tensor.layout.order * tensor.layout.rank)
    [] Kind = "Morton" -> 2^FoldLeft(+, 0, tensor.layout.bits)
    [] Kind = "BlockPaged" ->
         tensor.layout.num_pages * tensor.layout.page_size * Shape[2] * Shape[3]

EvenBits == \A j, k \in DOMAIN tensor.layout.bits : tensor.layout.bits[j] = tensor.layout.bits[k]

\* The coordinates of the k-th stored element.
StoredAt(k) ==
  LET Owner(ptr, j) == CHOOSE p \in 1 .. Len(ptr) - 1 : ptr[p] <= j /\ j < ptr[p+1]
  IN  CASE Kind = "Coo" -> coo_coords(tensor.bufs.indices, Len(Shape), k)
        [] Kind = "Csr" -> <<Owner(tensor.bufs.ptr, k) - 1, tensor.bufs.minor[k + 1]>>
        [] Kind = "Csc" -> <<tensor.bufs.minor[k + 1], Owner(tensor.bufs.ptr, k) - 1>>
        [] Kind = "Csf" ->
             LET rank == Len(Shape)
                 up[l \in 1 .. rank] ==       \* the node of level l above leaf k
                   IF l = rank THEN k ELSE Owner(tensor.bufs.pos[l+1], up[l+1]) - 1
             IN  [d \in 1 .. rank |->
                    LET l == CHOOSE m \in 1 .. rank :
                               tensor.layout.mode_order[m] = d - 1
                    IN  tensor.bufs.crd[l][up[l] + 1]]

-----------------------------------------------------------------------------
(* Properties                                                              *)

\* Every answer is a Result for a query, and only of a tensor that was found valid.
TypeOK ==
  /\ opened \in {"new", "valid", "refused"}
  /\ Len(answers) <= Len(tensor.queries)
  /\ answers # <<>> => opened = "valid"
  /\ \A i \in Answered : Off(i) \in 0 .. WordMax

\* Two elements never have the same place: row-major, column-major, tilings in dense
\* orders, Morton codes of any mix of bit counts, and Hilbert (addressing/*.rs,
\* element_offset).
NoTwoElementsShare ==
  (Kind \in DenseKinds /\ (Kind = "Tiled" => DenselyTiled) /\ Kind # "Strided") =>
     \A i, j \in Answered : Off(i) = Off(j) => i = j

\* An offset is the exact value of its linear form, or the call is refused: no stride or
\* sum wraps around, whatever the sizes (checked_mul and checked_add in row_major.rs,
\* col_major.rs, strided.rs).  A negative sum comes back as the same bits.
ExactOrRefused ==
  \A i \in Answered :
     /\ Kind = "RowMajor" => Off(i) = Linear(Query(i), RowStrides(Shape))
     /\ Kind = "ColMajor" => Off(i) = Linear(Query(i), ColStrides(Shape))
     /\ (Kind = "Strided" /\ \A k \in DOMAIN Shape : Query(i)[k] <= I64Max) =>
          AsI64(Off(i)) = Linear(Query(i), tensor.layout.strides)

\* Offsets stay inside the buffer the format prescribes for the layout, and a walk over
\* every element of a layout without padding leaves no hole (row_major.rs, col_major.rs,
\* tiled.rs, hilbert.rs; Morton codes when every dimension has the same bit count).
FillsItsBuffer ==
  /\ (\/ Kind \in {"RowMajor", "ColMajor", "Hilbert"} \/ DenselyTiled
      \/ Kind = "Morton" /\ EvenBits) =>
       \A i \in Answered : Off(i) < Capacity
  /\ (/\ Kind \in {"RowMajor", "ColMajor", "Hilbert"}
      /\ Finished /\ Len(tensor.queries) = Product(Shape) /\ Product(Shape) <= WordMax) =>
       {Off(i) : i \in Answered} = 0 .. Product(Shape) - 1

\* The elements of a tile, and only they, lie together: two elements share a block of
\* tile_size offsets exactly when they are in the same tile (tiled.rs, tiled_offset).
TilesAreContiguous ==
  DenselyTiled =>
     \A i, j \in Answered :
        (Off(i) \div Product(Tile.tile_shape) = Off(j) \div Product(Tile.tile_shape))
          <=> (tile_index(Query(i), Tile) = tile_index(Query(j), Tile))

\* Consecutive places on a Hilbert curve are neighbours in the tensor: one coordinate
\* differs, by one (hilbert.rs, element_offset).
HilbertStepsAreAdjacent ==
  Kind = "Hilbert" =>
     \A i, j \in Answered :
        Off(j) = Off(i) + 1 =>
          MapThenSumSet(LAMBDA k : IF Query(i)[k] < Query(j)[k]
                                   THEN Query(j)[k] - Query(i)[k]
                                   ELSE Query(i)[k] - Query(j)[k], DOMAIN Shape) = 1

\* Layouts chosen for locality have it: tiles are contiguous and Hilbert steps are adjacent.
NeighboursStayTogether == TilesAreContiguous /\ HilbertStepsAreAdjacent

\* A tensor that passed validation answers for every element in range.  It may refuse
\* only because its buffer is larger than a signed word can address, and it never
\* indexes out of bounds (layout/mod.rs validate_against_shape, csf.rs and
\* block_paged.rs validate_index_buffers).
ValidatedAnswers ==
  (opened = "valid" /\ ~ has_dynamic(Shape)) =>
     \A i \in DOMAIN answers \ Answered :
        \/ answers[i] = Absent /\ Kind \in SparseKinds \ {"BlockPaged"}
        \/ answers[i] = Err("AddressOverflow")
           /\ (Kind # "Strided" => Capacity > I64Max)
        \/ answers[i] = Err("IndexArithmeticOverflow") /\ Kind \in {"Morton", "Hilbert"}
           /\ \/ Capacity > WordMax
              \/ Kind = "Morton" /\ ~ EvenBits

\* A lookup finds an element exactly when it is stored, and finds it where it is stored
\* (coo.rs, csr.rs, csc.rs, csf.rs element_offset).
SparseFindsTheStored ==
  (Kind \in SparseKinds \ {"BlockPaged"} /\ opened = "valid") =>
     \A i \in DOMAIN answers :
        /\ i \in Answered => Off(i) < tensor.layout.nnz /\ StoredAt(Off(i)) = Query(i)
        /\ answers[i] = Absent =>
             \A k \in 0 .. tensor.layout.nnz - 1 : StoredAt(k) # Query(i)

\* After a walk over every index, each stored element was found under exactly one of
\* them, so a validated CSF tree has neither a shadowed nor an unreachable leaf
\* (csf.rs, validate_index_buffers).
EachStoredElementHasOneIndex ==
  (Kind \in SparseKinds \ {"BlockPaged"} /\ opened = "valid" /\ Finished
     /\ Len(tensor.queries) = Product(Shape)) =>
     \A k \in 0 .. tensor.layout.nnz - 1 :
        Cardinality({i \in Answered : Off(i) = k}) = 1

\* Two tokens share a place exactly when their logical pages are mapped to the same
\* physical page and they are at the same spot of it; and every place is inside the pool
\* (block_paged.rs, element_offset_impl).
PagesAreSharedOnlyTogether ==
  LET Page(q) == tensor.bufs.block_table[
                   tensor.bufs.seq_ptr[q[1] + 1] + q[2] \div tensor.layout.page_size + 1]
      Spot(q) == <<q[2] % tensor.layout.page_size, q[3], q[4]>>
  IN  Kind = "BlockPaged" =>
        \A i, j \in Answered :
           /\ Off(i) < Capacity
           /\ Off(i) = Off(j) <=> Page(Query(i)) = Page(Query(j))
                                  /\ Spot(Query(i)) = Spot(Query(j))

\* A tensor that passed validation answers for its elements; layouts that look an element up
\* in index buffers find it where it is stored, each stored element under one index, and
\* pages shared only where the block table shares them.
IndexedElementsAreFound ==
  /\ ValidatedAnswers /\ SparseFindsTheStored
  /\ EachStoredElementHasOneIndex /\ PagesAreSharedOnlyTogether

Address(i) == byte_address_from_element_offset(Off(i), tensor.byte_offset, tensor.bits,
                                               tensor.buffer_size)

\* The bytes of two elements are disjoint, elements smaller than a byte share only the
\* byte (or, for 6 bits, the 3 bytes) of their group, and with an aligned offset and
\* size the last byte of an element is in the buffer as its first is
\* (addressing/mod.rs, byte_address_from_element_offset).
BytesDoNotOverlap ==
  Kind \in {"RowMajor", "ColMajor", "Hilbert"} =>
    LET width == CASE tensor.bits >= 8 -> tensor.bits \div 8
                   [] tensor.bits = 6  -> 3
                   [] OTHER            -> 1
        group == CASE tensor.bits >= 8 -> 1 [] tensor.bits = 6 -> 4
                   [] OTHER            -> 8 \div tensor.bits
        Addressed == {i \in Answered : Address(i).ok}
    IN  \A i, j \in Addressed :
          /\ Address(i).off >= tensor.byte_offset
          /\ IF Off(i) \div group = Off(j) \div group
             THEN Address(i) = Address(j)
             ELSE Address(i).off + width <= Address(j).off
                  \/ Address(j).off + width <= Address(i).off
          /\ (tensor.buffer_size % width = 0 /\ tensor.byte_offset % width = 0) =>
               Address(i).off + width <= tensor.buffer_size

\* An address that is given out is the right one: offsets are the exact value of their form,
\* lie in the buffer and fill it, and their bytes are told apart.
AddressesAreExact == TypeOK /\ ExactOrRefused /\ FillsItsBuffer /\ BytesDoNotOverlap

\* What hurray-core/src/layout/morton.rs:15 says of the buffer: 2^(sum of the bit counts)
\* elements have room for every Morton code.
MortonCodesFit ==
  Kind = "Morton" => \A i \in Answered : Off(i) < Capacity

-----------------------------------------------------------------------------
(***************************************************************************)
(* Small tensors of every layout.  Words have 8 bits, so that tensors of a *)
(* few hundred elements overflow them.                                     *)
(***************************************************************************)
CONSTANT Ragged    \* whether an inner tile may fail to divide the tile around it

\* Walk of a grid in row-major order; of a large one, only its corners.
Corner(dims) == IF Product(dims) > 30 THEN [k \in DOMAIN dims |-> Min({2, dims[k]})]
                ELSE dims
Walk(dims) ==
  LET c == Corner(dims)
  IN  [i \in 1 .. Product(c) |->
         [k \in DOMAIN dims |->
            LET x == ((i - 1) \div RowStrides(c)[k]) % c[k]
            IN  IF x = c[k] - 1 THEN dims[k] - 1 ELSE x]]

Plain(layout, shape, bits, byte_offset, size) ==
  [layout |-> layout, shape |-> shape, bits |-> bits, byte_offset |-> byte_offset,
   buffer_size |-> size, bufs |-> <<>>,
   queries |-> IF has_dynamic(shape) THEN <<[k \in DOMAIN shape |-> 0]>> ELSE Walk(shape)]

Dense(layout, shape) == Plain(layout, shape, 8, 0, 100)

Row == [kind |-> "RowMajor"]
Col == [kind |-> "ColMajor"]

Shapes == {<<>>, <<3>>, <<2, 3>>, <<3, 2, 2>>, <<0, 2>>, <<16, 16>>, <<20, 20>>,
           <<130>>, <<2, DYNAMIC>>, <<5, 6, 7>>}

Linears == {Dense(l, s) : l \in {Row, Col}, s \in Shapes}
  \cup {Dense([kind |-> "Strided", strides |-> st], s) :
          st \in {<<1>>, <<-2>>, <<3, 1>>, <<-3, 1>>, <<0, 1>>, <<7, -1, 2>>, <<100, 90>>},
          s \in {<<3>>, <<2, 3>>, <<130>>, <<3, 2, 2>>, <<>>}}

Packed == {Plain(l, s, bits, byte_offset, size) :
             l \in {Row, Col}, s \in {<<3, 2>>, <<3, 3>>}, bits \in {1, 2, 4, 6, 8, 16, 32},
             byte_offset \in {0, 3, 4}, size \in {7, 8, 12, 24, 40}}

Level(shape, outer, inner) ==
  [tile_shape |-> shape, outer_layout |-> outer, inner_layout |-> inner,
   outer_strides |-> IF outer = TAG_STRIDED THEN <<[k \in DOMAIN shape |-> k + 2]>> ELSE <<>>,
   inner_strides |-> IF inner = TAG_STRIDED THEN <<[k \in DOMAIN shape |-> -k]>> ELSE <<>>]

Tilings == {<<Level(ts, o, i)>> : ts \in {<<2, 2>>, <<1, 3>>, <<0, 2>>, <<9, 9>>},
                                  o \in 1 .. 4, i \in 1 .. 3}
  \cup {<<Level(<<2, 4>>, o, TAG_TILED), Level(ts, p, i)>> :
          ts \in {<<1, 2>>, <<2, 1>>} \cup (IF Ragged THEN {<<2, 3>>} ELSE {}), o \in 1 .. 2, p \in 1 .. 2, i \in 1 .. 2}
  \cup {<<Level(<<4, 4>>, 1, TAG_TILED), Level(<<2, 2>>, 2, TAG_TILED),
          Level(<<1, 2>>, 1, 2)>>,
        <<Level(<<2, 2>>, 1, 1), Level(<<1, 1>>, 1, 1)>>,
        <<Level(<<2, 2>>, 1, TAG_TILED)>>}
Tiled == {Dense([kind |-> "Tiled", levels |-> t], s) :
            t \in Tilings, s \in {<<4, 5>>, <<3, 3>>, <<40, 40>>, <<4>>}}

Curves == {Dense([kind |-> "Morton", bits |-> b], s) :
             b \in {<<1, 1>>, <<2, 2>>, <<2>>, <<0, 2>>, <<5, 5>>, <<1, 1, 1>>,
                   <<2, 1>>, <<1, 3>>, <<1, 7>>, <<2, 1, 1>>},
             s \in {<<2, 2>>, <<3, 4>>, <<4, 4>>, <<3>>, <<4>>, <<4, 2>>, <<2, 8>>,
                    <<2, 2, 2>>, <<4, 2, 2>>, <<17, 3>>, <<2, DYNAMIC>>}}
  \cup {Dense([kind |-> "Hilbert", order |-> o, rank |-> r], s) :
          o \in 0 .. 3, r \in 1 .. 3,
          s \in {<<2, 2>>, <<4, 4>>, <<2, 2, 2>>, <<3, 4>>, <<8, 8, 8>>, <<DYNAMIC, 4>>}}
  \cup {[Dense([kind |-> "Hilbert", order |-> 2, rank |-> 3], <<4, 4, 4>>) EXCEPT
           !.queries = [i \in 1 .. 64 |->
                          <<(i-1) \div 16, ((i-1) \div 4) % 4, (i-1) % 4>>]]}

-----------------------------------------------------------------------------
(* Index buffers built from sets of coordinates                            *)

Sorted(S) == [i \in 1 .. Cardinality(S) |->
                CHOOSE c \in S : Cardinality({x \in S : CompareCoords(x, c) = "Less"}) = i - 1]

Sparse(layout, shape, bufs) ==
  [layout |-> layout, shape |-> shape, bits |-> 8, byte_offset |-> 0, buffer_size |-> 100,
   bufs |-> bufs, queries |-> Walk(shape)]

Grid == {<<r, c>> : r \in 0 .. 1, c \in 0 .. 2}

Coos == {Sparse([kind |-> "Coo", nnz |-> Cardinality(S), is_sorted |-> sorted], <<2, 3>>,
                [indices |-> FlattenSeq(IF sorted THEN Sorted(S) ELSE Reverse(Sorted(S)))]) :
           S \in SUBSET Grid, sorted \in BOOLEAN}

Compressed(kind, S, major, minor, lines) ==
  LET byMajor == {<<x[major], x[minor]>> : x \in S}
  IN  Sparse([kind |-> kind, nnz |-> Cardinality(S)], <<2, 3>>,
             [ptr |-> [p \in 1 .. lines + 1 |-> Cardinality({x \in S : x[major] < p - 1})],
              minor |-> LET s == Sorted(byMajor) IN [i \in DOMAIN s |-> s[i][2]]])
Csrs == {Compressed("Csr", S, 1, 2, 2) : S \in SUBSET Grid}
Cscs == {Compressed("Csc", S, 2, 1, 3) : S \in SUBSET Grid}

Cube == (0 .. 1) \X (0 .. 1) \X (0 .. 1)
CsfBufs(S, mode_order) ==
  LET Prefix(x, l) == [m \in 1 .. l |-> x[mode_order[m] + 1]]
      Nodes(l) == {Prefix(x, l) : x \in S}
      Parents(l) == IF l = 1 THEN {<<>>} ELSE Nodes(l - 1)
  IN  [pos |-> [l \in 1 .. 3 |->
                  [p \in 1 .. Cardinality(Parents(l)) + 1 |->
                     Cardinality({n \in Nodes(l) :
                       Cardinality({q \in Parents(l) :
                         CompareCoords(q, SubSeq(n, 1, l - 1)) = "Less"}) < p - 1})]],
       crd |-> [l \in 1 .. 3 |-> LET s == Sorted(Nodes(l)) IN [i \in DOMAIN s |-> s[i][l]]]]

\* One entry of one buffer changed.
Damaged(b) ==
  {b} \cup UNION {{[b EXCEPT !.pos[l][i] = @ + d] : i \in DOMAIN b.pos[l], d \in {-1, 1}} :
                    l \in 1 .. 3}
      \cup UNION {{[b EXCEPT !.crd[l][i] = @ + d] : i \in DOMAIN b.crd[l], d \in {-1, 1}} :
                    l \in 1 .. 3}
NonNegative(b) == \A l \in 1 .. 3 : /\ \A i \in DOMAIN b.pos[l] : b.pos[l][i] >= 0
                                    /\ \A i \in DOMAIN b.crd[l] : b.crd[l][i] >= 0
Csfs == UNION {{Sparse([kind |-> "Csf", nnz |-> Cardinality(S), mode_order |-> m],
                       <<2, 2, 2>>, b) :
                  b \in {x \in Damaged(CsfBufs(S, m)) : NonNegative(x)}} :
                S \in {s \in SUBSET Cube : Cardinality(s) <= 3},
                m \in {<<0, 1, 2>>, <<2, 0, 1>>}}
  \cup {Sparse([kind |-> "Csf", nnz |-> 8, mode_order |-> m], <<2, 2, 2>>,
               CsfBufs(Cube, <<0, 1, 2>>)) : m \in {<<1, 2, 0>>, <<0, 0, 1>>, <<0, 1>>}}

PagedQueries(page_size, seq_ptr) ==
  LET tokens(s) == Max({0, (seq_ptr[s + 1] - seq_ptr[s]) * page_size})
  IN  FlattenSeq([s \in 1 .. Len(seq_ptr) - 1 |->
        [i \in 1 .. 2 * tokens(s) |-> <<s - 1, (i - 1) \div 2, (i - 1) % 2, 0>>]])
Pageds == {[layout |-> [kind |-> "BlockPaged", page_size |-> ps, num_pages |-> 2,
                        paged_axis |-> axis, num_seqs |-> 2],
            shape |-> <<4, 2, 1>>, bits |-> 8, byte_offset |-> 0, buffer_size |-> 100,
            bufs |-> [seq_ptr |-> sp, block_table |-> bt],
            queries |-> PagedQueries(ps, sp)] :
             ps \in 1 .. 2, axis \in {0},
             sp \in [1 .. 3 -> 0 .. 3],
             bt \in UNION {[1 .. n -> 0 .. 2] : n \in 0 .. 3}}

MCTensors == Linears \cup Packed \cup Tiled \cup Curves \cup Coos \cup Csrs \cup Cscs
             \cup Csfs \cup Pageds
MCTilings == Tiled
=============================================================================
