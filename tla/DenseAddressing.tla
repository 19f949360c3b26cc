-------------------------- MODULE DenseAddressing --------------------------
(***************************************************************************)
(* hurray-core/src/layout/addressing for the dense layouts: the offset of  *)
(* an element in its buffer, counted in elements, and its byte address.    *)
(*                                                                         *)
(* An offset is a u64 that carries the bits of a signed number when        *)
(* strides are negative.                                                   *)
(***************************************************************************)
EXTENDS Layouts, Bitwise, SequencesExt

\* checked arithmetic on u64 and on i64
CheckedU(n) == IF n \in 0 .. WordMax THEN Ok(n) ELSE Err("AddressOverflow")
CheckedI(n) == IF n \in I64Min .. I64Max THEN Ok(n) ELSE Err("AddressOverflow")

\* validate_index: the first fault found, none if "none".
validate_index(index, shape) ==
  IF Len(index) # Len(shape) THEN "IndexRankMismatch"
  ELSE LET bad == {k \in DOMAIN shape : shape[k] = DYNAMIC \/ index[k] >= shape[k]}
       IN  IF bad = {} THEN "none"
           ELSE IF shape[Min(bad)] = DYNAMIC THEN "DynamicDimInIndexing"
           ELSE "IndexOutOfRange"

-----------------------------------------------------------------------------
(* Row-major, column-major, strided                                        *)

\* Mutant: the strides wrap around instead of being refused.
dense_offset_wraps(index, dims, fastest_first) ==
  LET acc[k \in 0 .. Len(fastest_first)] ==
        IF k = 0 THEN <<0, 1>>
        ELSE LET d == fastest_first[k]
             IN  << (acc[k-1][1] + index[d] * acc[k-1][2]) % 2^WordBits,
                    (acc[k-1][2] * dims[d]) % 2^WordBits >>
  IN  Ok(acc[Len(fastest_first)][1])

\* The loop of both dense orders over the dimensions, fastest first.  The stride is
\* not advanced after the last dimension.
dense_offset(index, dims, fastest_first) ==
  LET n == Len(fastest_first)
      acc[k \in 0 .. n] ==       \* after k dimensions: <<offset, stride>>, both Results
        IF k = 0 THEN <<Ok(0), Ok(1)>>
        ELSE LET d == fastest_first[k]
                 term == Then(acc[k-1][2], LAMBDA s : CheckedU(index[d] * s))
                 off  == Then(acc[k-1][1],
                              LAMBDA o : Then(term, LAMBDA t : CheckedU(o + t)))
             IN  << off,
                    IF k < n THEN Then(acc[k-1][2], LAMBDA s : CheckedU(s * dims[d]))
                             ELSE acc[k-1][2] >>
      last == acc[n]
  IN  IF last[2].ok THEN last[1] ELSE last[2]

row_major_offset(index, dims) ==
  dense_offset(index, dims, [k \in 1 .. Len(index) |-> Len(index) + 1 - k])

\* Mutant: the stride of a dimension is its own size.
col_major_offset_own_size(index, dims) ==
  LET n == Len(index) IN
  CheckedU(MapThenSumSet(LAMBDA k : index[k] * (IF k = 1 THEN 1 ELSE dims[k]), 1 .. n))

col_major_offset(index, dims) ==
  dense_offset(index, dims, [k \in 1 .. Len(index) |-> k])

\* strided_offset, and the body of StridedLayout's element_offset: a signed sum.
strided_offset(index, strides) ==
  LET sum[k \in 0 .. Len(index)] ==
        IF k = 0 THEN Ok(0)
        ELSE Then(sum[k-1],
                  LAMBDA s : Then(CheckedI(AsI64(index[k]) * strides[k]),
                                  LAMBDA t : CheckedI(s + t)))
  IN  IF Len(strides) < Len(index) THEN Panic ELSE sum[Len(index)]

-----------------------------------------------------------------------------
(* Tiled                                                                   *)

tile_index(index, t)  == [k \in DOMAIN index |-> index[k] \div t.tile_shape[k]]
intra_index(index, t) == [k \in DOMAIN index |-> index[k] % t.tile_shape[k]]

\* Mutant: a last, partly filled tile is not counted.
tile_grid_floor(dims, t) == [k \in DOMAIN dims |-> dims[k] \div t.tile_shape[k]]

tile_grid(dims, t) ==
  [k \in DOMAIN dims |-> (dims[k] + t.tile_shape[k] - 1) \div t.tile_shape[k]]

\* The order of the tiles, or of the elements of a tile.
ordered_offset(tag, index, dims, strides) ==
  CASE tag = TAG_ROW_MAJOR ->
         Then(row_major_offset(index, dims), LAMBDA n : Ok(AsI64(n)))
    [] tag = TAG_COL_MAJOR ->
         Then(col_major_offset(index, dims), LAMBDA n : Ok(AsI64(n)))
    [] tag = TAG_STRIDED -> strided_offset(index, strides[1])

tile_size(t) ==
  LET prod[k \in 0 .. Len(t.tile_shape)] ==
        IF k = 0 THEN Ok(1)
        ELSE Then(prod[k-1], LAMBDA p : CheckedI(p * AsI64(t.tile_shape[k])))
  IN  prod[Len(t.tile_shape)]

\* tiled_offset, from the innermost level of the chain outwards.  The level inside a
\* tile sees the tile as its tensor.
tiled_offset(levels, index, dims) ==
  LET n == Len(levels)
      Idx[k \in 1 .. n] == IF k = 1 THEN index ELSE intra_index(Idx[k-1], levels[k-1])
      Dims(k) == IF k = 1 THEN dims ELSE levels[k-1].tile_shape
      off[k \in 1 .. n] ==
        LET t     == levels[k]
            outer == ordered_offset(t.outer_layout, tile_index(Idx[k], t),
                                    tile_grid(Dims(k), t), t.outer_strides)
            inner == IF t.inner_layout = TAG_TILED
                     THEN Then(off[k+1], LAMBDA o : Ok(AsI64(o)))
                     ELSE ordered_offset(t.inner_layout, intra_index(Idx[k], t),
                                         t.tile_shape, t.inner_strides)
        IN  Then(outer, LAMBDA tile :
             Then(tile_size(t), LAMBDA size :
              Then(inner, LAMBDA intra :
               Then(CheckedI(tile * size), LAMBDA base :
                Then(CheckedI(base + intra), LAMBDA total : Ok(AsU64(total)))))))
  IN  IF \E k \in DOMAIN levels : Len(levels[k].tile_shape) < Len(index)
      THEN Panic ELSE off[1]

-----------------------------------------------------------------------------
(* Space-filling curves                                                    *)

Bit(x, b) == (x \div 2^b) % 2

\* Mutant: the bits of the dimensions are laid side by side with the wrong pitch.
MortonShift_short_pitch(b, d, rank) == b * (rank - 1) + (d - 1)

MortonShift(b, d, rank) == b * rank + (d - 1)

\* Mutant: neither the sum of the bit counts nor the place of a bit is bounded.
morton_offset_unchecked(bits, index) ==
  LET cells == {<<b, d>> \in (0 .. Max({bits[d] : d \in DOMAIN bits}) - 1)
                               \X (1 .. Len(index)) : b < bits[d]}
  IN  Ok(MapThenSumSet(LAMBDA c : Bit(index[c[2]], c[1])
                                   * 2^MortonShift(c[1], c[2], Len(index)), cells))

morton_offset(bits, index) ==
  LET rank  == Len(index)
      cells == {<<b, d>> \in (0 .. Max({bits[d] : d \in DOMAIN bits}) - 1) \X (1 .. rank) :
                  b < bits[d]}
      Shift(c) == MortonShift(c[1], c[2], rank)
  IN  IF \/ MapThenSumSet(LAMBDA d : bits[d], DOMAIN bits) > WordBits
         \/ \E c \in cells : Shift(c) >= WordBits
      THEN Err("IndexArithmeticOverflow")
      ELSE Ok(MapThenSumSet(LAMBDA c : Bit(index[c[2]], c[1]) * 2^Shift(c), cells))

\* Skilling's transform of the coordinates: undo the excess work of each bit plane,
\* Gray encode, and invert by the planes of the last coordinate.
HilbertPlane(x, q) ==
  FoldLeft(LAMBDA y, i :
             IF y[i] & q # 0 THEN [y EXCEPT ![1] = @ ^^ (q - 1)]
             ELSE LET t == (y[1] ^^ y[i]) & (q - 1)
                  IN  [y EXCEPT ![1] = @ ^^ t, ![i] = IF i = 1 THEN @ ELSE @ ^^ t],
           x, [i \in DOMAIN x |-> i])

\* Mutant: the Gray code of each coordinate is taken from the coordinates as they were.
HilbertGray_unchained(x) ==
  [i \in DOMAIN x |-> IF i = 1 THEN x[1] ELSE x[i] ^^ x[i-1]]

HilbertGray(x) ==
  FoldLeft(LAMBDA y, i : IF i = 1 THEN y ELSE [y EXCEPT ![i] = @ ^^ y[i-1]],
           x, [i \in DOMAIN x |-> i])

hilbert_offset(order, rank, index) ==
  LET planes == [j \in 1 .. order - 1 |-> 2^(order - j)]      \* q = 2^(p-1), ..., 2
      x == HilbertGray(FoldLeft(HilbertPlane, index, planes))
      t == FoldLeft(LAMBDA acc, q : IF x[rank] & q # 0 THEN acc ^^ (q - 1) ELSE acc,
                    0, planes)
      y == [d \in 1 .. rank |-> x[d] ^^ t]
  IN  IF rank * order > WordBits THEN Err("IndexArithmeticOverflow")
      ELSE IF Len(index) < rank THEN Panic
      ELSE Ok(MapThenSumSet(LAMBDA c : Bit(y[c[2]], c[1]) * 2^(c[1] * rank + (rank - c[2])),
                            (0 .. order - 1) \X (1 .. rank)))

-----------------------------------------------------------------------------
(* LayoutDescriptor::element_offset                                        *)

element_offset(layout, index, shape) ==
  LET fault == validate_index(index, shape)
      rank  == Len(shape)
  IN  CASE layout.kind \in SparseKinds -> Err("LayoutRequiresMultiBuffer")
        [] layout.kind = "Composite"   -> Err("LayoutIsVirtual")
        [] layout.kind \notin DenseKinds \cup SparseKinds \cup {"Composite"} ->
             Err("UnknownLayoutTag")
        [] layout.kind \in DenseKinds /\ fault # "none" -> Err(fault)
        [] layout.kind = "RowMajor" /\ fault = "none" -> row_major_offset(index, shape)
        [] layout.kind = "ColMajor" /\ fault = "none" -> col_major_offset(index, shape)
        [] layout.kind = "Strided" /\ fault = "none" ->
             IF Len(layout.strides) # rank THEN Err("IndexRankMismatch")
             ELSE Then(strided_offset(index, layout.strides), LAMBDA s : Ok(AsU64(s)))
        [] layout.kind = "Tiled" /\ fault = "none" ->
             IF Len(layout.levels[1].tile_shape) # rank THEN Err("IndexRankMismatch")
             ELSE tiled_offset(layout.levels, index, shape)
        [] layout.kind = "Morton" /\ fault = "none" ->
             IF Len(layout.bits) # rank THEN Err("IndexRankMismatch")
             ELSE morton_offset(layout.bits, index)
        [] layout.kind = "Hilbert" /\ fault = "none" ->
             hilbert_offset(layout.order, layout.rank, index)

\* Mutant: four 6-bit elements in three bytes, addressed one byte each.
byte_delta_six_as_bytes(signed, bits) ==
  IF bits >= 8 THEN CheckedI(signed * (bits \div 8))
  ELSE IF bits = 6 THEN CheckedI((signed * 3) \div 4)
  ELSE Ok(signed \div (8 \div bits))

\* div_euclid rounds to minus infinity, as \div does; an extension type has no width.
byte_delta(signed, bits) ==
  IF bits >= 8 THEN CheckedI(signed * (bits \div 8))
  ELSE IF bits = 6 THEN CheckedI((signed \div 4) * 3)
  ELSE IF bits = 0 THEN Panic
  ELSE Ok(signed \div (8 \div bits))

byte_address_from_element_offset(offset, byte_offset, bits, buffer_size) ==
  Then(byte_delta(AsI64(offset), bits), LAMBDA delta :
    Then(CheckedI(AsI64(byte_offset) + delta), LAMBDA addr :
      IF addr < 0 \/ addr >= buffer_size THEN Err("ByteAddressOverflow") ELSE Ok(addr)))
=============================================================================
