----------------------------- MODULE MCFilePipe -----------------------------
(***************************************************************************)
(* One file, written through one language's drivers and read through       *)
(* another's: the asynchronous Rust drivers (FilePipe), the C ones         *)
(* (FfiFile) and hurray.save and hurray.load (PyFile).                     *)
(*                                                                         *)
(* Files of up to seven tensors: one with an empty and two filled buffers, *)
(* a nested composite, and a composite whose last member reuses a name.    *)
(* The Rust and the C writers are offered the same ones, the C writer also *)
(* arrays that are no tree and elements with a null pointer; the dicts of  *)
(* the Python writer hold a nested group, an overlay, and a name that is   *)
(* also the one a member is given.                                         *)
(***************************************************************************)
EXTENDS FfiFile, PyFile, MCData

CONSTANT Drivers     \* the pairs [w, r] of languages

VARIABLE drivers     \* who writes and who reads

allvars == <<vars, cvars, pvars, drivers>>

DriversInit == Init /\ CInit /\ PyInit /\ drivers \in Drivers

DriversNext ==
  /\ \/ drivers.w = "Rust"   /\ (Write \/ Stop) /\ UNCHANGED <<cvars, pvars>>
     \/ drivers.w = "C"      /\ CWrite /\ UNCHANGED pvars
     \/ drivers.w = "Python" /\ PySave /\ UNCHANGED cvars
     \/ drivers.r = "Rust"   /\ Read /\ UNCHANGED <<cvars, pvars>>
     \/ drivers.r = "C"      /\ CRead /\ UNCHANGED pvars
     \/ drivers.r = "Python" /\ PyLoad /\ UNCHANGED cvars
  /\ UNCHANGED drivers

\* The loops of the drivers go on; they wait for nothing but the operating system and the
\* callbacks.
Loops ==
  /\ \/ drivers.r = "Rust"   /\ Drive /\ UNCHANGED <<cvars, pvars>>
     \/ drivers.w = "C"      /\ CWriterStep /\ UNCHANGED <<rside, pvars>>
     \/ drivers.r = "C"      /\ CReaderStep /\ UNCHANGED pvars
     \/ drivers.w = "Python" /\ (SaveEntry \/ SaveRefused \/ SaveStep) /\ UNCHANGED <<rside, cvars>>
     \/ drivers.r = "Python" /\ PyLoadStep /\ UNCHANGED cvars
  /\ UNCHANGED drivers

DriversSpec == DriversInit /\ [][DriversNext]_allvars
FairDriversSpec == DriversSpec /\ WF_allvars(Loops)

-----------------------------------------------------------------------------
\* A C program's statuses are true of its file, and its contexts are released.
FileStatusesAreTrue ==
  /\ drivers.w = "C" => StatusTellsTheFile /\ FileContextReleasedOnce("writer")
  /\ drivers.r = "C" => FileContextReleasedOnce("reader")

\* A call in progress comes to an end: a read of any language, a C write, a save that is not
\* killed.
CallsEnd ==
  /\ driving ~> ~ driving
  /\ wcall # "None" ~> wcall = "None"
  /\ Saving ~> ~ Saving
  /\ loading.state \in {"Opening", "Loading"} ~> loading.state \notin {"Opening", "Loading"}

-----------------------------------------------------------------------------

FT(name, id, slices) ==
  [kind |-> "Tensor", name |-> name, id |-> id, slices |-> slices, members |-> <<>>]
FC(name, id, members) ==
  [kind |-> "Composite", name |-> name, id |-> id, slices |-> <<>>, members |-> members]

NameOrder == <<"", "d", "d.0", "d.1", "d.1.0", "g", "h", "i", "k", "m", "n", "o", "o.0", "o.1", "x">>
MCNames == {NameOrder[i] : i \in DOMAIN NameOrder}
Rank(name) == CHOOSE i \in DOMAIN NameOrder : NameOrder[i] = name
MCBefore(a, b) == Rank(a) > Rank(b)     \* not the order they are written in

MCDotted(name, i) ==
  CASE name = "d" -> <<"d.0", "d.1">>[i + 1]
    [] name = "d.1" -> <<"d.1.0">>[i + 1]
    [] name = "o" -> <<"o.0", "o.1">>[i + 1]

Cell == Shard(Dense(3, <<Buf(1)>>), <<1>>, <<0>>)
FileDesc == MCDesc @@ ("w" :> Dense(4, <<Buf(0), Buf(1), Buf(1)>>))
                   @@ ("z" :> Dense(3, <<[Buf(1) EXCEPT !.allocatable = FALSE]>>))
                   @@ ("s" :> Cell)
                   @@ ("sb" :> [Cell EXCEPT !.role = "Base", !.len = 4])
                   @@ ("sc" :> [Cell EXCEPT !.role = "Correction", !.len = 4])
                   @@ ("ovl2" :> HeadD(3, "Overlay", 2, <<1>>))

FileX == FT("x", "w", <<0, 1, 1>>)
Group == FC("g", "grp2", <<FT("m", "e", <<0>>), FC("i", "grp1", <<FT("n", "a", <<1>>)>>)>>)
Clash == FC("h", "grp2", <<FT("k", "z", <<1>>), FT("x", "a", <<1>>)>>)  \* "x" may be taken
MCItems == {FileX, Group, Clash}

\* What a C program passes.
CN(kind, name, id, slices, count) ==
  [kind |-> kind, name |-> name, id |-> id, slices |-> slices, count |-> count, null |-> "None"]
CX == CN("Tensor", "x", "w", <<0, 1, 1>>, 0)
CTensorsMC == {CX, [CX EXCEPT !.null = "Utf8"], [CX EXCEPT !.name = ""]}
CInner == CN("Tensor", "n", "a", <<1>>, 0)
CGroup(inner) ==
  <<CN("Composite", "g", "grp2", <<>>, 2), CN("Tensor", "m", "e", <<0>>, 0),
    CN("Composite", "i", "grp1", <<>>, 1), inner>>
CClash ==
  <<CN("Composite", "h", "grp2", <<>>, 2), CN("Tensor", "k", "z", <<1>>, 0),
    CN("Tensor", "x", "a", <<1>>, 0)>>
COverlap ==
  <<CN("Composite", "o", "par2", <<>>, 2), CN("Tensor", "o.0", "p1", <<1>>, 0),
    CN("Tensor", "o.1", "p1", <<1>>, 0)>>
MCArrays == {CGroup(CInner), CGroup([CInner EXCEPT !.null = "Name"]), SubSeq(CGroup(CInner), 1, 3),
             CClash, COverlap, <<CX>>}

\* What hurray.save is given.
E(name, item) == [name |-> name, item |-> item]
DX == E("x", T("w", <<0, 1, 1>>))
DictNested  == <<DX, E("d", Nested)>>
DictOverlay == <<E("o", C("ovl2", <<T("s", <<1>>), T("s", <<1>>)>>)), DX>>
DictClash   == <<E("d.0", ItemA), E("d", Nested)>>
MCDicts == {DictNested, DictOverlay, DictClash, <<E("o", Overlap)>>, <<>>}

MCWanted == {<<>>, <<"d", "x", "d.1.0">>, <<"x", "i", "g">>}

Below(nodes) == UNION {{n.members[i] : i \in DOMAIN n.members} : n \in nodes}
MCRoots ==
  MCItems
    \cup {FC("o", "par2", <<FT("o.0", "p1", <<1>>), FT("o.1", "p1", <<1>>)>>)}
    \cup UNION {{Named(dict[k]) : k \in DOMAIN dict} : dict \in MCDicts}
MCNodes == MCRoots \cup Below(MCRoots) \cup Below(Below(MCRoots))

Pairs(w, r) == [w |-> w, r |-> r]
MCDrivers == {Pairs("Rust", "Rust"), Pairs("C", "C"), Pairs("Rust", "Python"),
              Pairs("Python", "Python"), Pairs("Python", "C")}
=============================================================================
