------------------------------ MODULE Layouts ------------------------------
(***************************************************************************)
(* Layout descriptors of hurray-core/src/layout: what their constructors   *)
(* accept and what LayoutDescriptor::validate_against_shape checks, over   *)
(* machine words of WordBits bits (64 in the code).                        *)
(*                                                                         *)
(* A descriptor is a record with a field kind and the fields of the Rust   *)
(* variant.  A TiledLayout, which nests through inner_tiled, is the chain  *)
(* `levels` from the outermost tiling to the innermost: level k has an     *)
(* inner_tiled exactly when k < Len(levels).  An absent Option of strides  *)
(* is <<>>, a present one <<strides>>.                                     *)
(***************************************************************************)
EXTENDS Integers, Sequences, FiniteSets

CONSTANTS WordBits,          \* bits of u64 and i64
          MaxTiledDepth      \* MAX_TILED_DEPTH

ASSUME LayoutConstants == WordBits \in Nat \ {0} /\ MaxTiledDepth \in Nat \ {0}

WordMax == 2^WordBits - 1                  \* u64::MAX
I64Max  == 2^(WordBits - 1) - 1
I64Min  == -(2^(WordBits - 1))

\* shape.rs: a dimension whose size is not known.
DYNAMIC == WordMax

\* `x as i64` and `x as u64`: the same bits.
AsI64(x) == IF x > I64Max THEN x - 2^WordBits ELSE x
AsU64(x) == x % 2^WordBits

\* A Result is Ok(n), Err(why), or Panic where the code would index out of bounds.
Ok(n)    == [ok |-> TRUE, off |-> n]
Err(why) == [ok |-> FALSE, why |-> why]
Panic    == Err("panic")

\* The `?` operator: go on with the value, or stop with the error.
Then(result, F(_)) == IF result.ok THEN F(result.off) ELSE result

\* Shape::has_dynamic
has_dynamic(shape) == \E k \in DOMAIN shape : shape[k] = DYNAMIC

TAG_ROW_MAJOR == 1
TAG_COL_MAJOR == 2
TAG_STRIDED   == 3
TAG_TILED     == 4

DenseKinds  == {"RowMajor", "ColMajor", "Strided", "Tiled", "Morton", "Hilbert"}
SparseKinds == {"Coo", "Csr", "Csc", "Csf", "BlockPaged"}

-----------------------------------------------------------------------------
(* Constructors: which arguments they accept.                              *)

\* TiledLayout::new_at_depth, one call per level of the chain.
TiledLayout_new(levels) ==
  /\ Len(levels) <= MaxTiledDepth
  /\ \A k \in DOMAIN levels :
       LET t == levels[k]
       IN  /\ t.tile_shape # <<>>
           /\ \A d \in DOMAIN t.tile_shape : t.tile_shape[d] # 0
           /\ t.outer_layout \in TAG_ROW_MAJOR .. TAG_STRIDED
           /\ t.inner_layout \in TAG_ROW_MAJOR .. TAG_TILED
           /\ (t.outer_layout = TAG_STRIDED) <=> (t.outer_strides # <<>>)
           /\ (t.inner_layout = TAG_STRIDED) <=> (t.inner_strides # <<>>)
           /\ (t.inner_layout = TAG_TILED) <=> (k < Len(levels))

MortonLayout_new(bits) == bits # <<>> /\ \A k \in DOMAIN bits : bits[k] > 0

HilbertLayout_new(order, rank) == order > 0 /\ rank >= 2

\* The constructor of each variant; the remaining ones accept anything.
constructible(layout) ==
  CASE layout.kind = "Tiled"   -> TiledLayout_new(layout.levels)
    [] layout.kind = "Morton"  -> MortonLayout_new(layout.bits)
    [] layout.kind = "Hilbert" -> HilbertLayout_new(layout.order, layout.rank)
    [] OTHER                   -> TRUE

\* LayoutDescriptor::buffer_count; 0 stands for None.
buffer_count(layout) ==
  CASE layout.kind \in DenseKinds                   -> 1
    [] layout.kind = "Coo"                          -> 2
    [] layout.kind \in {"Csr", "Csc", "BlockPaged"} -> 3
    [] layout.kind = "Csf" ->
         LET n == 2 * Len(layout.mode_order) + 1 IN IF n > 255 THEN 255 ELSE n
    [] OTHER                                        -> 0

-----------------------------------------------------------------------------
(* validate_against_shape                                                  *)

\* mode_order is a permutation of the dimensions (which the code finds out with a
\* bit mask of the dimensions seen so far).
mode_order_ok(mode_order, rank) ==
  /\ Len(mode_order) = rank
  /\ \A l \in DOMAIN mode_order : mode_order[l] \in 0 .. rank - 1
  /\ \A l, m \in DOMAIN mode_order : mode_order[l] = mode_order[m] => l = m

MortonFitsShape(bits, shape) ==
  \A k \in DOMAIN shape :
     shape[k] = DYNAMIC
     \/ shape[k] <= (IF bits[k] >= WordBits THEN WordMax ELSE 2^bits[k])

\* Mutant: the rank of the strides and of the curve is not compared with the shape's.
validate_against_shape_any_rank(layout, shape) ==
  CASE layout.kind \in {"Strided", "Hilbert"} -> Len(shape) # 0
    [] layout.kind \in {"Tiled", "Morton", "Coo", "Csf", "BlockPaged"} -> Len(shape) # 0
    [] OTHER -> TRUE

validate_against_shape(layout, shape) ==
  LET rank == Len(shape)
  IN  CASE layout.kind = "Strided" -> Len(layout.strides) = rank /\ rank # 0
        [] layout.kind = "Tiled" ->
             Len(layout.levels[1].tile_shape) = rank /\ rank # 0
        [] layout.kind = "Morton" ->
             Len(layout.bits) = rank /\ MortonFitsShape(layout.bits, shape)
        [] layout.kind = "Coo" -> rank # 0
        [] layout.kind \in {"Csr", "Csc"} -> rank = 2
        [] layout.kind = "Csf" ->
             rank >= 3 /\ mode_order_ok(layout.mode_order, rank)
        [] layout.kind = "BlockPaged" ->
             rank = 3 /\ layout.paged_axis = 0 /\ layout.page_size >= 1
        [] layout.kind = "Composite" -> layout.rule # "Group" => ~ has_dynamic(shape)
        [] layout.kind = "Hilbert" ->
             /\ layout.rank = rank
             /\ layout.order < WordBits
             /\ \A k \in 1 .. rank : shape[k] \in {DYNAMIC, 2^layout.order}
        [] OTHER -> TRUE

\* BlockPagedLayout::validate_quantization_compatibility
validate_quantization_compatibility(layout, scheme, axis, block_size) ==
  /\ scheme = "PerChannelAffine" => axis # 0
  /\ scheme = "PerBlockAffine" => axis = 0 /\ block_size = layout.page_size
=============================================================================
