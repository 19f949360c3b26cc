--------------------------- MODULE FfiStream_proof ---------------------------
(***************************************************************************)
(* The statuses of the C stream writer tell what is on the wire, and every *)
(* transport context is released once: proof, for every array a C program  *)
(* passes, however its callbacks cut the transfers, fail or end.           *)
(***************************************************************************)
EXTENDS FfiStream, TLAPS

\* The lemmas about the write core, for the instance W.
WP == INSTANCE StreamWrite_proof WITH Items <- Nodes, MaxItems <- MaxCalls

Statuses == {"OK", "NULL_POINTER", "NOT_COMPOSITE", "INDEX_OUT_OF_BOUNDS", "INVALID",
             "CORE_UNUSABLE", "SINK_CLOSED", "CALLBACK"}
Passed == Arrays \cup {<<node>> : node \in Tensors}
Entry  == [nodes : Passed \cup {<<>>}, status : Statuses, nth : Nat, tree : BOOLEAN]

Sides == {"writer", "reader"}
Handles ==
  /\ side \in [Sides -> [handle : {"None", "Live", "Gone"}, contexts : Int]]
  /\ ContextReleasedOnce

ReadCalls ==
  /\ rcall \in {"None", "next_tensor", "next_item"}
  /\ rlast \in {"OK", "CALLBACK", "FAILED", "END_OF_STREAM"}

\* A call is under way exactly while its operation is; it is the last submission, and every
\* call that returned was about an earlier one, or about none.
WriteCalls ==
  /\ wcall = <<>> \/ \E nodes \in Passed : wcall = <<nodes>>
  /\ log \in Seq(Entry) /\ Len(log) <= MaxCalls
  /\ wcall # <<>> => Len(log) < MaxCalls
  /\ wcall = <<>> <=> opState = "None"
  /\ \A k \in DOMAIN log :
        /\ log[k].nth <= Len(submitted)
        /\ wcall # <<>> => log[k].nth < Len(submitted)

\* What a status says, while a call is under way too.
Told ==
  /\ \A k \in DOMAIN log :
        /\ log[k].status \notin {"OK", "SINK_CLOSED"} =>
             \A i \in DOMAIN wire : wire[i].item # log[k].nth
        /\ log[k].status = "OK" => log[k].nth \in done
        /\ log[k].status = "SINK_CLOSED" => wcall = <<>> /\ WP!retired # "None"
  /\ wcall = <<>> /\ WP!retired # "None" => \E k \in DOMAIN log : log[k].status = "SINK_CLOSED"

IInv == WP!Driven /\ Handles /\ ReadCalls /\ WriteCalls /\ Told

-----------------------------------------------------------------------------
\* The write core under the drivers.

\* The call goes on, or none is under way: the core may move, but ends no operation and puts
\* nothing on the wire but bytes of the last submission.
GoesOn ==
  /\ WP!Driven'
  /\ UNCHANGED <<wcall, log, submitted>> /\ done \subseteq done'
  /\ opState' = "None" <=> opState = "None"
  /\ opState = "None" => UNCHANGED <<unusable, torn>>
  /\ \A i \in DOMAIN wire' : \/ i \in DOMAIN wire /\ wire'[i] = wire[i]
                             \/ opState # "None" /\ wire'[i].item = Len(submitted)

\* Then what was told stays true.
LEMMA GoesOnSafe == ASSUME WriteCalls, Told, GoesOn PROVE WriteCalls' /\ Told'
<1>1. WriteCalls'
  BY DEF WriteCalls, GoesOn
<1>2. ASSUME NEW k \in DOMAIN log, log[k].status \notin {"OK", "SINK_CLOSED"}, NEW i \in DOMAIN wire'
      PROVE  wire'[i].item # log[k].nth
  <2>1. CASE i \in DOMAIN wire /\ wire'[i] = wire[i]
    BY <1>2, <2>1 DEF Told
  <2>2. CASE opState # "None" /\ wire'[i].item = Len(submitted)
    <3>1. log[k].nth < Len(submitted)
      BY <2>2 DEF WriteCalls
    <3>2. log[k] \in Entry
      BY DEF WriteCalls
    <3>3. log[k].nth \in Nat
      BY <3>2 DEF Entry
    <3> QED
      BY <2>2, <3>1, <3>3
  <2> QED
    BY <2>1, <2>2 DEF GoesOn
<1>3. \A k \in DOMAIN log : log[k].status = "OK" => log[k].nth \in done'
  BY DEF Told, GoesOn
<1>4. wcall = <<>> => WP!retired' = WP!retired
  BY DEF WriteCalls, GoesOn, WP!retired
<1>5. log' = log /\ wcall' = wcall
  BY DEF GoesOn
<1> QED
  BY <1>1, <1>2, <1>3, <1>4, <1>5 DEF Told

\* What the lemmas of StreamWrite_proof assume holds here.
LEMMA Instance ==
  /\ U64Max \in Nat /\ PrefixLen \in Nat \ {0}
  /\ MinDescriptorLen \in Nat /\ MinDescriptorLen > PrefixLen /\ CrossMachine \in BOOLEAN
  /\ \A id \in DOMAIN Desc :
       /\ Desc[id].len \in Nat
       /\ Desc[id].bufs \in Seq([size : Nat, synced : BOOLEAN, allocatable : BOOLEAN])
       /\ Desc[id].count \in Nat
  /\ \A n \in Nodes : /\ n.id \in WP!Ids /\ n.kind \in {"Tensor", "Composite"}
                      /\ n.slices \in Seq(Nat) /\ n.members \in Seq(Nodes)
  /\ \A S \in SUBSET Nodes :
       S # {} => \E n \in S : \A i \in DOMAIN n.members : n.members[i] \notin S
  /\ Nodes \subseteq Nodes /\ MaxCalls \in Nat
  /\ \A id \in WP!Ids : Desc[id].len > 0
BY U64MaxAssumption, PrefixLenAssumption, MinDescriptorLenAssumption, CrossMachineAssumption,
   DescAssumption, NodesAssumption, NodesAreTrees, CallBoundsAssumption, EncodedLengthAssumption
   DEF Ids, WP!Ids

\* The core is left alone.
LEMMA CoreRests == ASSUME WP!Driven, UNCHANGED wvars PROVE GoesOn
<1>1. UNCHANGED WP!vars
  BY DEF wvars, wcore, WP!vars
<1>2. WP!Driven'
  BY <1>1, Instance, WP!DrivenStutter
<1> QED
  BY <1>2 DEF GoesOn, wvars, wcore

\* A turn of drain: a step, or a callback that takes some bytes.
LEMMA CoreSteps ==
  ASSUME WP!Driven, W!step \/ (\E n \in 1 .. W!remaining : W!report_written(n)), UNCHANGED <<wcall, log>>
  PROVE  GoesOn
<1>1. CASE W!step
  <2>1. WP!step
    BY <1>1 DEF W!step, WP!step, W!StepPayload, WP!StepPayload, W!StepNode, WP!StepNode,
       W!StepDone, WP!StepDone, W!SliceExhausted, WP!SliceExhausted, W!remaining, WP!remaining,
       W!CurrentSlice, WP!CurrentSlice, W!Offering, WP!Offering, W!LaterPayloads,
       WP!LaterPayloads, W!OpenFrames, WP!OpenFrames, W!TakeMember, WP!TakeMember, W!Advance,
       WP!Advance, W!Encodable, WP!Encodable, W!encode, WP!encode, W!payloads_of,
       WP!payloads_of, W!Payload, WP!Payload
  <2>2. /\ WP!Driven' /\ UNCHANGED <<wire, submitted>> /\ done \subseteq done'
        /\ opState # "None" /\ opState' # "None"
    BY <2>1, Instance, WP!DrivenStep
  <2> QED
    BY <2>2 DEF GoesOn
<1>2. ASSUME NEW n \in 1 .. W!remaining, W!report_written(n) PROVE GoesOn
  <2>1. n \in 1 .. WP!remaining /\ WP!report_written(n)
    BY <1>2 DEF W!report_written, WP!report_written, W!Taken, WP!Taken, W!output_src,
       WP!output_src, W!remaining, WP!remaining, W!CurrentSlice, WP!CurrentSlice, W!Offering,
       WP!Offering
  <2>2. /\ WP!Driven' /\ UNCHANGED <<submitted, done, opState>> /\ opState # "None"
        /\ \A i \in DOMAIN wire' :
             (i \in DOMAIN wire /\ wire'[i] = wire[i]) \/ wire'[i].item = Len(submitted)
    BY <2>1, Instance, WP!DrivenWritten
  <2> QED
    BY <2>2 DEF GoesOn
<1> QED
  BY <1>1, <1>2

\* A callback that takes nothing.
LEMMA CoreCloses ==
  ASSUME WP!Driven, W!report_sink_closed, UNCHANGED <<wcall, log>> PROVE GoesOn
<1>1. WP!report_sink_closed
  BY DEF W!report_sink_closed, WP!report_sink_closed
<1>2. /\ WP!Driven' /\ UNCHANGED <<wire, submitted, done>> /\ opState # "None"
      /\ opState' = "Failed"
  BY <1>1, Instance, WP!DrivenEnd
<1> QED
  BY <1>2 DEF GoesOn

\* A submission that is accepted.
LEMMA CoreBegins ==
  ASSUME WP!Driven, NEW n \in Nodes, W!tensor(n) \/ W!composite(n)
  PROVE  /\ WP!Driven' /\ Len(submitted) \in Nat /\ Len(submitted') = Len(submitted) + 1
         /\ opState = "None" /\ opState' # "None" /\ UNCHANGED <<wire, done>>
         /\ WP!retired = "None"
<1>1. WP!Begins(n)
  BY DEF W!tensor, W!composite, W!BeginOp, W!retired, WP!Begins, WP!retired, W!encode, WP!encode,
         W!payloads_of, WP!payloads_of, W!Payload, WP!Payload
<1>2. WP!Driven' /\ Len(submitted) \in Nat /\ Len(submitted') = Len(submitted) + 1
  BY <1>1, Instance, WP!DrivenSubmit
<1> QED
  BY <1>1, <1>2 DEF WP!Begins

\* The operation of a call that returns.
LEMMA CoreDrops ==
  ASSUME WP!Driven, W!Drop
  PROVE  /\ WP!Driven' /\ UNCHANGED <<wire, submitted, done>>
         /\ opState # "None" /\ opState' = "None" /\ WP!retired' = WP!retired
         /\ opState \notin {"Done", "Failed"} => (WP!retired # "None" <=> emitted > 0)
         /\ opState = "Done" => Len(submitted) \in done /\ WP!retired = "None"
         /\ opState = "Failed" => WP!retired # "None"
         /\ Len(submitted) \in Nat /\ emitted \in Nat
         /\ emitted = 0 => \A i \in DOMAIN wire : wire[i].item # Len(submitted)
<1>1. WP!Drop
  BY DEF W!Drop, WP!Drop
<1>2. /\ WP!Driven' /\ UNCHANGED <<wire, submitted, done>> /\ opState # "None"
      /\ opState' = "None" /\ WP!retired' = WP!retired
      /\ opState \notin {"Done", "Failed"} => (WP!retired # "None" <=> emitted > 0)
      /\ opState = "Done" => Len(submitted) \in done
  BY <1>1, Instance, WP!DrivenEnd
<1>3. Len(submitted) \in Nat /\ emitted \in Nat
  BY DEF WP!Driven, WP!IInv, WP!TypeOK
<1> QED
  BY <1>2, <1>3 DEF WP!Driven

-----------------------------------------------------------------------------
\* The steps of the drivers.

LEMMA InitOK == Init => IInv
<1> SUFFICES ASSUME Init PROVE IInv
  OBVIOUS
<1>1. WP!Init
  BY DEF Init, W!Init, WP!Init, W!NoOp, WP!NoOp
<1>2. WP!Driven
  BY <1>1, Instance, WP!DrivenInit
<1>3. Handles
  BY DEF Init, Handles, ContextReleasedOnce, Sides, NoHandle
<1>4. opState = "None" /\ submitted = <<>> /\ unusable = "None" /\ torn = FALSE
  BY <1>1 DEF WP!Init, WP!NoOp
<1>5. wcall = <<>> /\ log = <<>> /\ MaxCalls \in Nat
  BY CallBoundsAssumption DEF Init
<1>6. WriteCalls
  BY <1>4, <1>5 DEF WriteCalls
<1>7. Told
  BY <1>4, <1>5 DEF Told, WP!retired
<1> QED
  BY <1>2, <1>3, <1>6, <1>7 DEF Init, IInv, ReadCalls

\* Handles are made and destroyed: a context is handed over with a handle that is made, and
\* released with it.
LEMMA HandleStep ==
  ASSUME IInv, NEW s \in Sides, New(s) \/ Destroy(s)
  PROVE  IInv'
<1>1. UNCHANGED <<wvars, rside>>
  BY DEF New, Destroy
<1>2. GoesOn
  BY <1>1, CoreRests DEF IInv
<1>3. WriteCalls' /\ Told' /\ WP!Driven'
  BY <1>2, GoesOnSafe DEF IInv, GoesOn
<1>4. ReadCalls'
  BY <1>1 DEF IInv, ReadCalls, rside
<1>5. side[s] \in [handle : {"None", "Live", "Gone"}, contexts : Int]
  BY DEF IInv, Handles
<1>6. \A r \in Sides : side[r].contexts = (IF side[r].handle = "Live" THEN 1 ELSE 0)
  BY DEF IInv, Handles, ContextReleasedOnce, Sides
<1>7. PICK h \in [handle : {"None", "Live", "Gone"}, contexts : Int] :
        /\ side' = [side EXCEPT ![s] = h]
        /\ h.contexts = (IF h.handle = "Live" THEN 1 ELSE 0)
  <2>1. CASE New(s)
    <3>1. PICK complete \in BOOLEAN : side' = [side EXCEPT ![s] = Made(complete, @.contexts)]
      BY <2>1 DEF New
    <3>2. side[s].contexts = 0
      BY <1>6, <2>1 DEF New
    <3>3. Made(complete, side[s].contexts) \in [handle : {"None", "Live", "Gone"}, contexts : Int]
      BY <3>2 DEF Made
    <3>4. Made(complete, side[s].contexts).contexts =
            (IF Made(complete, side[s].contexts).handle = "Live" THEN 1 ELSE 0)
      BY <3>2 DEF Made
    <3> QED
      BY <3>1, <3>3, <3>4
  <2>2. CASE Destroy(s)
    <3> DEFINE h == [side[s] EXCEPT !.handle = "Gone", !.contexts = @ - 1]
    <3>1. side[s].contexts = 1
      BY <1>6, <2>2 DEF Destroy
    <3>2. side' = [side EXCEPT ![s] = h]
      BY <1>5, <2>2 DEF Destroy, IInv, Handles
    <3>3. h \in [handle : {"None", "Live", "Gone"}, contexts : Int] /\ h.handle = "Gone" /\ h.contexts = 0
      <4> DEFINE g == [side[s] EXCEPT !.handle = "Gone"]
      <4>1. g \in [handle : {"None", "Live", "Gone"}, contexts : Int] /\ g.handle = "Gone" /\ g.contexts = 1
        BY <1>5, <3>1
      <4>2. h = [g EXCEPT !.contexts = @ - 1]
        BY <1>5
      <4> HIDE DEF g, h
      <4> QED
        BY <4>1, <4>2
    <3> HIDE DEF h
    <3> QED
      BY <3>2, <3>3
  <2> QED
    BY <2>1, <2>2
<1>8. side' \in [Sides -> [handle : {"None", "Live", "Gone"}, contexts : Int]]
  BY <1>7 DEF IInv, Handles
<1>9. \A r \in Sides : side'[r].contexts = (IF side'[r].handle = "Live" THEN 1 ELSE 0)
  BY <1>6, <1>7 DEF IInv, Handles
<1>10. Handles'
  BY <1>8, <1>9 DEF Handles, ContextReleasedOnce, Sides
<1> QED
  BY <1>3, <1>4, <1>10 DEF IInv

\* A call that opened no operation is logged.
LEMMA RefuseStep ==
  ASSUME IInv, CanWrite, NEW nodes, NEW status \in Statuses \ {"OK", "SINK_CLOSED"},
         RefuseWrite(nodes, status)
  PROVE  IInv'
<1> DEFINE e == [nodes |-> <<>>, status |-> status, nth |-> 0, tree |-> IsOneTree(nodes)]
<1>1. log' = Append(log, e) /\ UNCHANGED <<wcore, wcall, rside, side>>
  BY DEF RefuseWrite
<1>2. UNCHANGED WP!vars
  BY <1>1 DEF wcore, WP!vars
<1>3. WP!Driven'
  BY <1>2, Instance, WP!DrivenStutter DEF IInv
<1>4. Handles' /\ ReadCalls'
  BY <1>1 DEF IInv, Handles, ContextReleasedOnce, ReadCalls, rside
<1>5. IsOneTree(nodes) \in BOOLEAN
  BY DEF IsOneTree
<1>6. e \in Entry /\ e.nth = 0 /\ e.status = status
  BY <1>5 DEF Entry
<1> HIDE DEF e
<1>7. /\ log \in Seq(Entry) /\ log' \in Seq(Entry) /\ Len(log') = Len(log) + 1
      /\ \A k \in DOMAIN log' : (k \in DOMAIN log /\ log'[k] = log[k]) \/ log'[k] = e
      /\ \A k \in DOMAIN log : k \in DOMAIN log' /\ log'[k] = log[k]
  BY <1>1, <1>6 DEF IInv, WriteCalls
<1>8. wcall = <<>> /\ Len(log) < MaxCalls
  BY DEF CanWrite
<1>9. Len(log') <= MaxCalls
  BY <1>7, <1>8, CallBoundsAssumption
<1>10. Len(submitted) \in Nat /\ UNCHANGED <<submitted, opState, wire, done, unusable, torn, wcall>>
  BY <1>1 DEF wcore, IInv, WP!Driven, WP!IInv, WP!TypeOK
<1>11. WriteCalls'
  <2>1. ASSUME NEW k \in DOMAIN log' PROVE log'[k].nth <= Len(submitted)
    BY <1>6, <1>7, <1>10 DEF IInv, WriteCalls
  <2> QED
    BY <1>7, <1>8, <1>9, <1>10, <2>1 DEF IInv, WriteCalls
<1>12. \A i \in DOMAIN wire : wire[i].item # 0
  BY DEF IInv, WP!Driven
<1>13. WP!retired' = WP!retired
  BY <1>10 DEF WP!retired
<1>14. Told'
  <2>1. ASSUME NEW k \in DOMAIN log'
        PROVE  /\ log'[k].status \notin {"OK", "SINK_CLOSED"} =>
                    \A i \in DOMAIN wire : wire[i].item # log'[k].nth
               /\ log'[k].status = "OK" => log'[k].nth \in done
               /\ log'[k].status = "SINK_CLOSED" => WP!retired # "None"
    <3>1. CASE k \in DOMAIN log /\ log'[k] = log[k]
      BY <3>1 DEF IInv, Told
    <3>2. CASE log'[k] = e
      BY <1>6, <1>12, <3>2
    <3> QED
      BY <1>7, <3>1, <3>2
  <2>2. WP!retired # "None" => \E k \in DOMAIN log' : log'[k].status = "SINK_CLOSED"
    BY <1>7, <1>8 DEF IInv, Told
  <2> QED
    BY <1>8, <1>10, <1>13, <2>1, <2>2 DEF Told
<1> QED
  BY <1>3, <1>4, <1>11, <1>14 DEF IInv

\* A submission: its operation is the call that is under way, and no earlier status was
\* SINK_CLOSED.
LEMMA SubmitStep ==
  ASSUME IInv, CanWrite, NEW nodes \in Passed, NEW n \in Nodes, Submit(nodes, n)
  PROVE  IInv'
<1>1. CASE RefuseWrite(nodes, "CORE_UNUSABLE") \/ RefuseWrite(nodes, "INVALID")
  BY <1>1, RefuseStep DEF Statuses
<1>2. CASE (W!tensor(n) \/ W!composite(n)) /\ wcall' = <<nodes>> /\ UNCHANGED <<log, rside, side>>
  <2>1. /\ WP!Driven' /\ Len(submitted) \in Nat /\ Len(submitted') = Len(submitted) + 1
        /\ opState = "None" /\ opState' # "None" /\ UNCHANGED <<wire, done>>
        /\ WP!retired = "None"
    BY <1>2, CoreBegins DEF IInv
  <2>2. Handles' /\ ReadCalls'
    BY <1>2 DEF IInv, Handles, ContextReleasedOnce, ReadCalls, rside
  <2>3. wcall = <<>> /\ Len(log) < MaxCalls /\ log' = log /\ wcall' # <<>>
    BY <1>2 DEF CanWrite
  <2>4. \A k \in DOMAIN log : log[k].nth < Len(submitted')
    <3> SUFFICES ASSUME NEW k \in DOMAIN log PROVE log[k].nth < Len(submitted')
      OBVIOUS
    <3>1. log[k] \in Entry /\ log[k].nth <= Len(submitted)
      BY DEF IInv, WriteCalls
    <3>2. log[k].nth \in Nat
      BY <3>1 DEF Entry
    <3> QED
      BY <2>1, <3>1, <3>2
  <2>5. \A k \in DOMAIN log : log[k].nth <= Len(submitted')
    <3> SUFFICES ASSUME NEW k \in DOMAIN log PROVE log[k].nth <= Len(submitted')
      OBVIOUS
    <3>1. log[k] \in Entry
      BY DEF IInv, WriteCalls
    <3>2. log[k].nth \in Nat
      BY <3>1 DEF Entry
    <3> QED
      BY <2>1, <2>4, <3>2
  <2>6. WriteCalls'
    BY <1>2, <2>1, <2>3, <2>4, <2>5 DEF IInv, WriteCalls
  <2>7. Told'
    BY <2>1, <2>3 DEF IInv, Told
  <2> QED
    BY <2>1, <2>2, <2>6, <2>7 DEF IInv
<1> QED
  BY <1>1, <1>2 DEF Submit

\* A call returns: SINK_CLOSED exactly when it leaves the core retired, OK only for an item
\* that is whole, and any other status only when no byte of the item left.
LEMMA ReturnStep ==
  ASSUME IInv, Writing, NEW status \in {"OK", "SINK_CLOSED", "CALLBACK"}, ReturnWrite(status),
         \/ opState = "Done" /\ status = "OK"
         \/ opState = "Failed" /\ status = "SINK_CLOSED"
         \/ /\ opState \notin {"Done", "Failed"}
            /\ status = IF emitted > 0 THEN "SINK_CLOSED" ELSE "CALLBACK"
  PROVE  IInv'
<1>1. /\ WP!Driven' /\ UNCHANGED <<wire, submitted, done>>
      /\ opState # "None" /\ opState' = "None" /\ WP!retired' = WP!retired
      /\ opState \notin {"Done", "Failed"} => (WP!retired # "None" <=> emitted > 0)
      /\ opState = "Done" => Len(submitted) \in done /\ WP!retired = "None"
      /\ opState = "Failed" => WP!retired # "None"
      /\ Len(submitted) \in Nat /\ emitted \in Nat
      /\ emitted = 0 => \A i \in DOMAIN wire : wire[i].item # Len(submitted)
  BY CoreDrops DEF IInv, ReturnWrite
<1> DEFINE e == [nodes |-> wcall[1], status |-> status, nth |-> Len(submitted),
                 tree |-> IsOneTree(wcall[1])]
<1>2. log' = Append(log, e) /\ wcall' = <<>> /\ UNCHANGED <<rside, side>>
  BY DEF ReturnWrite
<1>3. Handles' /\ ReadCalls'
  BY <1>2 DEF IInv, Handles, ContextReleasedOnce, ReadCalls, rside
<1>4. wcall[1] \in Passed /\ wcall # <<>> /\ Len(log) < MaxCalls
  BY DEF IInv, WriteCalls, Writing
<1>5. IsOneTree(wcall[1]) \in BOOLEAN
  BY DEF IsOneTree
<1>6. e \in Entry /\ e.nth = Len(submitted) /\ e.status = status
  BY <1>1, <1>4, <1>5 DEF Entry, Statuses
<1> HIDE DEF e
<1>7. /\ log \in Seq(Entry) /\ log' \in Seq(Entry) /\ Len(log') = Len(log) + 1
      /\ \A k \in DOMAIN log' : (k \in DOMAIN log /\ log'[k] = log[k]) \/ log'[k] = e
      /\ Len(log') \in DOMAIN log' /\ log'[Len(log')] = e
  BY <1>2, <1>6 DEF IInv, WriteCalls
<1>8. Len(log') <= MaxCalls
  BY <1>4, <1>7, CallBoundsAssumption
<1>9. WriteCalls'
  <2>1. ASSUME NEW k \in DOMAIN log' PROVE log'[k].nth <= Len(submitted)
    <3>1. CASE k \in DOMAIN log /\ log'[k] = log[k]
      BY <3>1 DEF IInv, WriteCalls
    <3>2. CASE log'[k] = e
      BY <1>1, <1>6, <3>2
    <3> QED
      BY <1>7, <3>1, <3>2
  <2> QED
    BY <1>1, <1>2, <1>7, <1>8, <2>1 DEF WriteCalls
<1>10. /\ status = "SINK_CLOSED" <=> WP!retired # "None"
       /\ status = "OK" => Len(submitted) \in done
       /\ status = "CALLBACK" => \A i \in DOMAIN wire : wire[i].item # Len(submitted)
  BY <1>1
<1>11. \A k \in DOMAIN log : log[k].status # "SINK_CLOSED"
  BY <1>4 DEF IInv, Told
<1>12. Told'
  <2>1. ASSUME NEW k \in DOMAIN log'
        PROVE  /\ log'[k].status \notin {"OK", "SINK_CLOSED"} =>
                    \A i \in DOMAIN wire : wire[i].item # log'[k].nth
               /\ log'[k].status = "OK" => log'[k].nth \in done
               /\ log'[k].status = "SINK_CLOSED" => WP!retired # "None"
    <3>1. CASE k \in DOMAIN log /\ log'[k] = log[k]
      BY <1>11, <3>1 DEF IInv, Told
    <3>2. CASE log'[k] = e
      BY <1>6, <1>10, <3>2
    <3> QED
      BY <1>7, <3>1, <3>2
  <2>2. WP!retired # "None" => \E k \in DOMAIN log' : log'[k].status = "SINK_CLOSED"
    BY <1>6, <1>7, <1>10
  <2> QED
    BY <1>1, <1>2, <2>1, <2>2 DEF Told
<1> QED
  BY <1>1, <1>3, <1>9, <1>12 DEF IInv

\* The loop of a write.
LEMMA DrainingStep ==
  ASSUME IInv, DrainStep \/ DrainZero \/ DrainFails \/ DrainReturns
  PROVE  IInv'
<1>1. CASE DrainStep \/ DrainZero
  <2>1. UNCHANGED <<wcall, log, rside, side>>
    BY <1>1 DEF DrainStep, DrainZero
  <2>2. GoesOn
    <3>1. CASE DrainStep
      BY <2>1, <3>1, CoreSteps DEF DrainStep, IInv
    <3>2. CASE DrainZero
      BY <2>1, <3>2, CoreCloses DEF DrainZero, IInv
    <3> QED
      BY <1>1, <3>1, <3>2
  <2>3. WriteCalls' /\ Told' /\ WP!Driven'
    BY <2>2, GoesOnSafe DEF IInv, GoesOn
  <2>4. Handles' /\ ReadCalls'
    BY <2>1 DEF IInv, Handles, ContextReleasedOnce, ReadCalls, rside
  <2> QED
    BY <2>3, <2>4 DEF IInv
<1>2. CASE DrainFails
  <2>1. opState \notin {"Done", "Failed"}
    BY <1>2 DEF DrainFails, W!remaining, W!Offering
  <2> QED
    BY <1>2, <2>1, ReturnStep DEF DrainFails
<1>3. CASE DrainReturns
  BY <1>3, ReturnStep DEF DrainReturns
<1> QED
  BY <1>1, <1>2, <1>3

\* The calls of the reader.
LEMMA ReadingStep ==
  ASSUME IInv, \/ \E fn \in {"next_tensor", "next_item"} : CallRead(fn)
               \/ ReadTurn \/ ReadFails \/ TakeTensor \/ TakeItem \/ ReadEnds
  PROVE  IInv'
<1>1. UNCHANGED <<wvars, side>>
  BY DEF CallRead, ReadTurn, ReadFails, TakeTensor, TakeItem, ReadEnds
<1>2. GoesOn
  BY <1>1, CoreRests DEF IInv
<1>3. WriteCalls' /\ Told' /\ WP!Driven'
  BY <1>2, GoesOnSafe DEF IInv, GoesOn
<1>4. Handles'
  BY <1>1 DEF IInv, Handles, ContextReleasedOnce
<1>5. ReadCalls'
  BY DEF IInv, ReadCalls, CallRead, ReadTurn, ReadFails, TakeTensor, TakeItem, ReadEnds, ReturnRead
<1> QED
  BY <1>3, <1>4, <1>5 DEF IInv

\* Every step preserves the inductive invariant.
LEMMA NextOK == ASSUME IInv, [Next]_vars PROVE IInv'
<1>1. CASE UNCHANGED vars
  <2>1. UNCHANGED <<wvars, rside, side>>
    BY <1>1 DEF vars
  <2>2. GoesOn
    BY <2>1, CoreRests DEF IInv
  <2>3. WriteCalls' /\ Told' /\ WP!Driven'
    BY <2>2, GoesOnSafe DEF IInv, GoesOn
  <2> QED
    BY <2>1, <2>3 DEF IInv, Handles, ContextReleasedOnce, ReadCalls, rside
<1>2. ASSUME NEW s \in {"writer", "reader"}, New(s) \/ Destroy(s) PROVE IInv'
  BY <1>2, HandleStep DEF Sides
<1>3. ASSUME NEW node \in Tensors, hurray_writer_write_tensor(node) PROVE IInv'
  <2>1. CASE RefuseWrite(<<node>>, "NULL_POINTER")
    BY <1>3, <2>1, RefuseStep DEF hurray_writer_write_tensor, Statuses
  <2>2. CASE ~ NullPointer(node) /\ Submit(<<node>>, TensorItem(node))
    <3>1. TensorItem(node) \in Nodes /\ <<node>> \in Passed
      BY <2>2, CallsAssumption DEF Passed
    <3> QED
      BY <1>3, <2>2, <3>1, SubmitStep DEF hurray_writer_write_tensor
  <2> QED
    BY <1>3, <2>1, <2>2 DEF hurray_writer_write_tensor
<1>4. ASSUME NEW nodes \in Arrays, hurray_writer_write_composite(nodes) PROVE IInv'
  <2>1. CASE stream_tree(nodes).status # "OK" /\ RefuseWrite(nodes, stream_tree(nodes).status)
    <3>1. stream_tree(nodes).status \in
            {"OK", "NOT_COMPOSITE", "INDEX_OUT_OF_BOUNDS", "NULL_POINTER"}
      BY DEF stream_tree
    <3> QED
      BY <1>4, <2>1, <3>1, RefuseStep DEF hurray_writer_write_composite, Statuses
  <2>2. CASE stream_tree(nodes).status = "OK" /\ Submit(nodes, stream_tree(nodes).tree[1])
    <3>1. stream_tree(nodes).tree[1] \in Nodes /\ nodes \in Passed
      BY <2>2, CallsAssumption DEF Passed
    <3> QED
      BY <1>4, <2>2, <3>1, SubmitStep DEF hurray_writer_write_composite
  <2> QED
    BY <1>4, <2>1, <2>2 DEF hurray_writer_write_composite
<1> QED
  BY <1>1, <1>2, <1>3, <1>4, DrainingStep, ReadingStep DEF Next, Driver

-----------------------------------------------------------------------------
\* For every C program: a write that returns HURRAY_OK has put the whole item on the wire; one
\* that returns anything but OK and HURRAY_ERR_SINK_CLOSED has put none of it there, and may
\* be repeated; and between calls the writer is retired exactly when some call has returned
\* SINK_CLOSED.
THEOREM StatusesCanBeActedOn == Spec => []StatusesAreTrue
<1>1. IInv => StatusesAreTrue
  <2> SUFFICES ASSUME IInv PROVE StatusesAreTrue
    OBVIOUS
  <2>1. W!retired = WP!retired
    BY DEF W!retired, WP!retired
  <2>2. StatusTellsTheWire
    BY <2>1 DEF IInv, Told, StatusTellsTheWire, Writing
  <2>3. \A k \in DOMAIN log : log[k].status \in Statuses
    <3> SUFFICES ASSUME NEW k \in DOMAIN log PROVE log[k].status \in Statuses
      OBVIOUS
    <3>1. log[k] \in Entry
      BY DEF IInv, WriteCalls
    <3> QED
      BY <3>1 DEF Entry
  <2>4. Len(wcall) <= 1
    <3>1. CASE wcall = <<>>
      BY <3>1
    <3>2. CASE wcall # <<>>
      <4>1. PICK nodes \in Passed : wcall = <<nodes>>
        BY <3>2 DEF IInv, WriteCalls
      <4> QED
        BY <4>1
    <3> QED
      BY <3>1, <3>2
  <2>5. TypeOK
    BY <2>3, <2>4 DEF IInv, TypeOK, Handles, Sides, WriteCalls, ReadCalls, Writing, Statuses
  <2> QED
    BY <2>2, <2>5 DEF StatusesAreTrue
<1> QED
  BY <1>1, InitOK, NextOK, PTL DEF Spec

\* For every C program: each of the two handles owns the one context it was given from its
\* creation to its destruction, and a call that could not make a handle has released it.
THEOREM ContextsAreReleased == Spec => []ContextReleasedOnce
<1>1. IInv => ContextReleasedOnce
  BY DEF IInv, Handles
<1> QED
  BY <1>1, InitOK, NextOK, PTL DEF Spec
=============================================================================
