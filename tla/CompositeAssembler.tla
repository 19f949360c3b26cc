------------------------- MODULE CompositeAssembler -------------------------
(***************************************************************************)
(* CompositeAssembler (hurray-io/src/stream/sans_io/composite.rs): puts    *)
(* composites back together from the flat tensors a stream carries.  A     *)
(* stack of open heads collects members, validated one by one; a head that *)
(* fills closes, and its composite is delivered to the head below it.      *)
(***************************************************************************)
EXTENDS Frames

CONSTANT MaxDepth    \* max_depth: heads that may be open at once

ASSUME MaxDepthAssumption == MaxDepth \in Nat

VARIABLES
  stack,   \* one [id, members, v] per open head, outermost first
  out,     \* history: the items returned to the caller, in order
  failed   \* history: whether push has returned an error

avars == <<stack, out, failed>>

TensorItem(t) == [kind |-> "Tensor", id |-> t.id, buffers |-> t.buffers, members |-> <<>>]

AssembleInit == stack = <<>> /\ out = <<>> /\ failed = FALSE

-----------------------------------------------------------------------------
\* push of a composite head: it opens, unless too deep or not a valid head.
PushHead(t) ==
  /\ IsHead(t.id)
  /\ IF Len(stack) < MaxDepth /\ HeadAccepted(Desc[t.id])
     THEN /\ stack' = Append(stack, [id |-> t.id, members |-> <<>>,
                                     v |-> NewValidator(Desc[t.id])])
          /\ UNCHANGED failed
     ELSE /\ failed' = TRUE
          /\ UNCHANGED stack
  /\ UNCHANGED out

(***************************************************************************)
(* deliver: the item goes to the innermost open head; each head it fills   *)
(* closes and is itself delivered one level down, in one call.  Level k    *)
(* receives the new tensor (k = depth) or the composite of level k + 1.    *)
(***************************************************************************)
depth == Len(stack)

\* The descriptor level k is offered: an item's governing descriptor is its head's.
OfferedTo(k, t) == Desc[IF k = depth THEN t.id ELSE stack[k + 1].id]

\* Mutant: a head waits for one member too many.
Fills_late(k) == Len(stack[k].members) + 1 > Desc[stack[k].id].count

Fills(k) == Len(stack[k].members) + 1 >= Desc[stack[k].id].count

\* The level at which the chain of closings stops; 0 when the outermost head closes.
StopLevel == LET waiting == {k \in 1 .. depth : ~ Fills(k)}
             IN  IF waiting = {} THEN 0 ELSE CHOOSE k \in waiting : \A l \in waiting : l <= k

\* Mutant: the close-time checks are skipped.
BadLevels_no_finish(t) ==
  {k \in 1 .. depth : k >= StopLevel /\ ~ MemberAccepted(stack[k].v, OfferedTo(k, t))}

\* Levels the chain reaches and fails at: a member is refused, or closing is.
BadLevels(t) ==
  {k \in 1 .. depth :
     /\ k >= StopLevel
     /\ \/ ~ MemberAccepted(stack[k].v, OfferedTo(k, t))
        \/ Fills(k) /\ ~ FinishAccepted(push_member(stack[k].v, OfferedTo(k, t)))}

\* Mutant: the member that fills a head is left out of its composite.
Carried_without_last(t) ==
  [k \in 0 .. depth |->
     IF k = depth THEN TensorItem(t)
     ELSE [kind |-> "Composite", id |-> stack[k + 1].id, buffers |-> <<>>,
           members |-> stack[k + 1].members]]

\* The item that reaches level k: the tensor, or the composite that closed above it.
Carried(t) ==
  LET item[j \in 0 .. depth] ==
        IF j = 0 THEN TensorItem(t)
        ELSE LET top == stack[depth - j + 1]
             IN  [kind |-> "Composite", id |-> top.id, buffers |-> <<>>,
                  members |-> Append(top.members, item[j - 1])]
  IN  [k \in 0 .. depth |-> item[depth - k]]

PushTensor(t) ==
  /\ ~ IsHead(t.id)
  /\ \/ \* A refused member: the head it was offered to was popped and is gone, with
        \* everything above it; the heads below stay open.
        /\ BadLevels(t) # {}
        /\ LET k == CHOOSE b \in BadLevels(t) : \A c \in BadLevels(t) : c <= b
           IN  stack' = SubSeq(stack, 1, k - 1)
        /\ failed' = TRUE
        /\ UNCHANGED out
     \/ \* No head is left to take it: a top-level item.
        /\ BadLevels(t) = {} /\ StopLevel = 0
        /\ stack' = <<>>
        /\ out' = Append(out, Carried(t)[0])
        /\ UNCHANGED failed
     \/ \* Level StopLevel keeps it and waits for more.
        /\ BadLevels(t) = {} /\ StopLevel > 0
        /\ LET k == StopLevel
           IN  stack' = Append(SubSeq(stack, 1, k - 1),
                          [stack[k] EXCEPT !.members = Append(@, Carried(t)[k]),
                                           !.v = push_member(@, OfferedTo(k, t))])
        /\ UNCHANGED <<out, failed>>

push(t) == PushHead(t) \/ PushTensor(t)

\* Mutant: only a nested open head is noticed.
FinishClean_nested_only == Len(stack) <= 1

\* finish(): end of input is clean only when no head is open.
FinishClean == stack = <<>>
=============================================================================
