-------------------------- MODULE SparseAddressing --------------------------
(***************************************************************************)
(* hurray-core/src/layout/addressing for the layouts with index buffers:   *)
(* COO, CSR, CSC, CSF and block-paged.  A lookup returns the position of   *)
(* an element in the value buffer, or Absent for a structural zero, which  *)
(* the code writes Ok(None).  Buffers are sequences; the numbers in them   *)
(* count from zero, as in the code.                                        *)
(***************************************************************************)
EXTENDS Layouts

Absent == Ok(-1)

\* Mutant: the upper bound is taken to be inclusive on the way down.
BinarySearch_drops_mid(n, order) ==
  LET look[lo \in 0 .. n, hi \in -1 .. n] ==
        IF lo >= hi THEN Absent
        ELSE LET mid == lo + (hi - lo) \div 2
             IN  CASE order[mid] = "Less"    -> look[mid + 1, hi]
                   [] order[mid] = "Greater" -> look[lo, mid - 1]
                   [] order[mid] = "Equal"   -> Ok(mid)
  IN  look[0, n]

\* The binary search over positions 0 .. n-1 written out in coo.rs, which is also how
\* slice::binary_search answers on the strictly increasing slices it is given.
\* order[i] is the order of the i-th entry relative to the query.
BinarySearch(n, order) ==
  LET look[lo \in 0 .. n, hi \in 0 .. n] ==
        IF lo >= hi THEN Absent
        ELSE LET mid == lo + (hi - lo) \div 2
             IN  CASE order[mid] = "Less"    -> look[mid + 1, hi]
                   [] order[mid] = "Greater" -> look[lo, mid]
                   [] order[mid] = "Equal"   -> Ok(mid)
  IN  look[0, n]

CompareNat(a, b) == IF a < b THEN "Less" ELSE IF a > b THEN "Greater" ELSE "Equal"

\* The order of slices of equal length: by the first place where they differ.
CompareCoords(a, b) ==
  LET diff == {k \in DOMAIN a : a[k] # b[k]}
      k    == CHOOSE j \in diff : \A i \in diff : j <= i
  IN  IF diff = {} THEN "Equal" ELSE CompareNat(a[k], b[k])

-----------------------------------------------------------------------------
(* COO: coordinate tuples one after the other                              *)

coo_coords(indices, rank, r) == SubSeq(indices, r * rank + 1, r * rank + rank)

coo_offset(query, is_sorted, indices) ==
  LET rank   == Len(query)
      nnz    == Len(indices) \div rank
      equals == {r \in 0 .. nnz - 1 : coo_coords(indices, rank, r) = query}
  IN  IF rank = 0 THEN Err("IndexRankMismatch")
      ELSE IF Len(indices) % rank # 0 THEN Err("InvalidLayout")
      ELSE IF is_sorted
      THEN BinarySearch(nnz, [r \in 0 .. nnz - 1 |-> CompareCoords(coo_coords(indices, rank, r), query)])
      ELSE IF equals = {} THEN Absent
      ELSE Ok(CHOOSE r \in equals : \A s \in equals : r <= s)

-----------------------------------------------------------------------------
(* CSR and CSC: the minor coordinates of each line of the major dimension  *)

compressed_offset(query_rank, major, minor, ptr, minor_indices) ==
  LET start == ptr[major + 1]
      end   == ptr[major + 2]
  IN  IF query_rank # 2 THEN Err("IndexRankMismatch")
      ELSE IF ptr = <<>> THEN Err("InvalidLayout")
      ELSE IF major >= Len(ptr) - 1 THEN Err("IndexOutOfRange")
      ELSE IF start > end \/ end > Len(minor_indices) THEN Err("InvalidLayout")
      ELSE LET found == BinarySearch(end - start,
                          [i \in 0 .. end - start - 1 |->
                              CompareNat(minor_indices[start + i + 1], minor)])
           IN  IF found = Absent THEN Absent ELSE Ok(start + found.off)

csr_offset(query, col_indices, row_ptr) ==
  compressed_offset(Len(query), query[1], query[2], row_ptr, col_indices)

csc_offset(query, row_indices, col_ptr) ==
  compressed_offset(Len(query), query[2], query[1], col_ptr, row_indices)

-----------------------------------------------------------------------------
(* CSF: a tree with one level per dimension, in the order mode_order       *)

csf_offset(query, mode_order, pos, crd) ==
  LET rank == Len(mode_order)
      \* the node of level l - 1 on the path of the query; the root is node 0
      node[l \in 0 .. rank] ==
        IF l = 0 THEN Ok(0)
        ELSE IF ~ node[l-1].ok \/ node[l-1] = Absent THEN node[l-1]
        ELSE LET p == node[l-1].off
             IN  IF mode_order[l] >= rank \/ p + 1 >= Len(pos[l])
                    \/ pos[l][p+1] > pos[l][p+2] \/ pos[l][p+2] > Len(crd[l])
                 THEN Err("InvalidLayout")
                 ELSE LET found == BinarySearch(pos[l][p+2] - pos[l][p+1],
                            [i \in 0 .. pos[l][p+2] - pos[l][p+1] - 1 |->
                               CompareNat(crd[l][pos[l][p+1] + i + 1],
                                          query[mode_order[l] + 1])])
                      IN  IF found = Absent THEN Absent ELSE Ok(pos[l][p+1] + found.off)
  IN  IF Len(query) # rank THEN Err("IndexRankMismatch") ELSE node[rank]

\* Mutant: siblings only have to be sorted, so that a coordinate may occur twice.
csf_level_ok_repeats(pos, crd, bound, parents) ==
  /\ Len(pos) = parents + 1
  /\ pos[1] = 0
  /\ \A k \in 1 .. parents : pos[k] <= pos[k+1]
  /\ Len(crd) = pos[parents + 1]
  /\ \A k \in 1 .. parents : \A j \in pos[k] + 1 .. pos[k+1] :
       /\ crd[j] < bound
       /\ j > pos[k] + 1 => crd[j-1] <= crd[j]

\* The checks of one level of csf::validate_index_buffers, given the number of nodes
\* of the level above.
csf_level_ok(pos, crd, bound, parents) ==
  /\ Len(pos) = parents + 1
  /\ pos[1] = 0
  /\ \A k \in 1 .. parents : pos[k] <= pos[k+1]
  /\ Len(crd) = pos[parents + 1]
  /\ \A k \in 1 .. parents : \A j \in pos[k] + 1 .. pos[k+1] :
       /\ crd[j] < bound
       /\ j > pos[k] + 1 => crd[j-1] < crd[j]

csf_validate_index_buffers(nnz, mode_order, dims, pos, crd) ==
  LET rank == Len(mode_order)
      nodes[l \in 0 .. rank] ==         \* nodes of level l - 1, or -1 after a fault
        IF l = 0 THEN 1
        ELSE IF nodes[l-1] < 0 \/ mode_order[l] >= Len(dims) THEN -1
        ELSE IF csf_level_ok(pos[l], crd[l], dims[mode_order[l] + 1], nodes[l-1])
        THEN pos[l][nodes[l-1] + 1] ELSE -1
  IN  Len(pos) = rank /\ Len(crd) = rank /\ nodes[rank] = nnz

-----------------------------------------------------------------------------
(* Block-paged: logical pages of each sequence, mapped to physical pages    *)

\* Mutant: the page of a token is looked up from the start of the table.
paged_offset_no_base(q, layout, num_heads, head_dim, block_table, seq_ptr) ==
  LET page == q[2] \div layout.page_size
  IN  IF page >= seq_ptr[q[1] + 2] - seq_ptr[q[1] + 1] THEN Err("IndexOutOfRange")
      ELSE Ok(((block_table[page + 1] * layout.page_size + (q[2] % layout.page_size))
                 * num_heads + q[3]) * head_dim + q[4])

\* element_offset_impl.  q = <<s, t, h, d>>; the flat offset is a row-major index into
\* [num_pages, page_size, num_heads, head_dim].
paged_offset(q, layout, num_heads, head_dim, block_table, seq_ptr) ==
  LET num_seqs == IF Len(seq_ptr) = 0 THEN 0 ELSE Len(seq_ptr) - 1
      start    == seq_ptr[q[1] + 1]
      end      == seq_ptr[q[1] + 2]
      page     == q[2] \div layout.page_size
      bt_idx   == start + page
      phys     == block_table[bt_idx + 1]
      flat     == ((phys * layout.page_size + (q[2] % layout.page_size)) * num_heads + q[3])
                    * head_dim + q[4]
  IN  IF q[1] >= num_seqs \/ q[3] >= num_heads \/ q[4] >= head_dim
      THEN Err("IndexOutOfRange")
      ELSE IF end < start THEN Err("InvalidLayout")
      ELSE IF layout.page_size = 0 THEN Panic
      ELSE IF page >= end - start THEN Err("IndexOutOfRange")
      ELSE IF bt_idx > WordMax THEN Err("AddressOverflow")
      ELSE IF bt_idx >= Len(block_table) \/ phys >= layout.num_pages
      THEN Err("IndexOutOfRange")
      ELSE IF flat > WordMax THEN Err("AddressOverflow") ELSE Ok(flat)

\* validate_index_buffers_impl, shared by the u32 and u64 tables.
paged_validate_index_buffers(layout, seq_ptr, block_table) ==
  /\ Len(seq_ptr) = layout.num_seqs + 1
  /\ seq_ptr[1] = 0
  /\ \A i \in 1 .. layout.num_seqs : seq_ptr[i] <= seq_ptr[i+1]
  /\ seq_ptr[layout.num_seqs + 1] = Len(block_table)
  /\ \A k \in DOMAIN block_table : block_table[k] < layout.num_pages
=============================================================================
