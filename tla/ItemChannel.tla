----------------------------- MODULE ItemChannel -----------------------------
(***************************************************************************)
(* What a stream promises the two applications at its ends, with no bytes, *)
(* frames or buffers: items come out in the order they went in, none       *)
(* altered, none skipped, and the end of the stream tells the receiver     *)
(* whether everything that was sent arrived.                               *)
(***************************************************************************)
EXTENDS Naturals, Sequences

CONSTANT Item

VARIABLES sent,     \* the items the sender put on the stream, the last one perhaps in part
          got,      \* the items the receiver was given
          shut,     \* whether the sender is gone
          outcome   \* what the receiver was told: "Open" while nothing, then "Clean" (end of
                    \* stream), "Torn" (cut short) or "Lost" (its own driver lost its place)

cvars == <<sent, got, shut, outcome>>

Init == sent = <<>> /\ got = <<>> /\ shut = FALSE /\ outcome = "Open"

Send(i) ==
  /\ ~ shut
  /\ sent' = Append(sent, i)
  /\ UNCHANGED <<got, shut, outcome>>

Close ==
  /\ ~ shut
  /\ shut' = TRUE
  /\ UNCHANGED <<sent, got, outcome>>

Deliver ==
  /\ outcome = "Open" /\ Len(got) < Len(sent)
  /\ got' = Append(got, sent[Len(got) + 1])
  /\ UNCHANGED <<sent, shut, outcome>>

\* A clean end: the sender is gone and all it sent was delivered.
End ==
  /\ outcome = "Open" /\ shut /\ got = sent
  /\ outcome' = "Clean"
  /\ UNCHANGED <<sent, got, shut>>

\* A torn end: only the last item is missing.
Tear ==
  /\ outcome = "Open" /\ shut /\ Len(got) + 1 = Len(sent)
  /\ outcome' = "Torn"
  /\ UNCHANGED <<sent, got, shut>>

Lose ==
  /\ outcome' = "Lost"
  /\ UNCHANGED <<sent, got, shut>>

Next == (\E i \in Item : Send(i)) \/ Close \/ Deliver \/ End \/ Tear \/ Lose

Spec == Init /\ [][Next]_cvars
=============================================================================
