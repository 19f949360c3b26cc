------------------------------- MODULE PyFile -------------------------------
(***************************************************************************)
(* hurray.save and hurray.load (hurray-python/src/file_io.rs), with the    *)
(* blocking drivers of blocking.rs over the cores of FileWrite and         *)
(* FileRead, and the composites of composite.rs.                           *)
(*                                                                         *)
(* A Python item is a tree [kind, id, slices, members] without names: save *)
(* gives member i of a composite called n the name Dotted(n, i), and load  *)
(* leaves out what a composite it has read already holds.                  *)
(***************************************************************************)
EXTENDS FilePipe

CONSTANTS Dicts,         \* the dicts saved: sequences of [name, item], the names distinct
          Wanted,        \* the values of load's `names`: sequences, or <<>> for None
          Dotted(_, _),  \* format!("{name}.{index}")
          RoleLen,       \* the length of a Composite Member section
          LoadSorted     \* may load read a whole file whose index is sorted?

ASSUME PyFileAssumption == LoadSorted \in BOOLEAN /\ RoleLen \in Nat

VARIABLES
  saving,    \* [state, dict, left]: "None", "Saving", "Saved", "Raised" (an exception) or
             \* "IoError"; the dict given, and what of it is left to write
  loading    \* [state, names, left, claimed, out]: "None", "Opening", "Loading", "Loaded",
             \* "Raised" or "IoError"; the names asked for, those left, those a result
             \* holds, the result

pvars == <<saving, loading>>

PyInit ==
  /\ saving = [state |-> "None", dict |-> <<>>, left |-> <<>>]
  /\ loading = [state |-> "None", names |-> <<>>, left |-> <<>>, claimed |-> {}, out |-> <<>>]

-----------------------------------------------------------------------------
\* hurray.Composite

\* The descriptor of `id` with a role, which is longer.
WithRole(id, role) ==
  CHOOSE d \in DOMAIN Desc : Desc[d] = [Desc[id] EXCEPT !.role = role, !.len = @ + RoleLen]

\* Composite::new: an overlay gives its members their roles by position, unless they have
\* one.
MemberId(head, id, i) ==
  IF Desc[head].rule = "Overlay" /\ Desc[id].role = "None"
  THEN WithRole(id, IF i = 1 THEN "Base" ELSE "Correction")
  ELSE id

\* Composite::new asks the validator; the members that are composites went through it when
\* they were made.
RECURSIVE Constructible(_)
Constructible(item) ==
  item.kind = "Composite" =>
    /\ LevelAccepted(Desc[item.id],
                     [i \in DOMAIN item.members |-> Desc[MemberId(item.id, item.members[i].id, i)]])
    /\ \A i \in DOMAIN item.members : Constructible(item.members[i])

\* Mutant: the members of a nested composite are named after the outermost one.
RECURSIVE named_node_flat(_, _, _)
named_node_flat(item, id, name) ==
  [kind |-> item.kind, name |-> name, id |-> id, slices |-> item.slices,
   members |-> [i \in DOMAIN item.members |->
                  named_node_flat(item.members[i], MemberId(item.id, item.members[i].id, i),
                                  IF item.members[i].kind = "Composite" THEN name
                                  ELSE Dotted(name, i - 1))]]

\* named_tree, named_node: names by position, the descriptors that Composite::new prepared.
RECURSIVE named_node(_, _, _)
named_node(item, id, name) ==
  [kind |-> item.kind, name |-> name, id |-> id, slices |-> item.slices,
   members |-> [i \in DOMAIN item.members |->
                  named_node(item.members[i], MemberId(item.id, item.members[i].id, i),
                             Dotted(name, i - 1))]]

Named(entry) == named_node(entry.item, entry.item.id, entry.name)

-----------------------------------------------------------------------------
\* hurray.save

\* The data is copied while the lock is held; the file is created and the header written.
save(dict) ==
  /\ ~ stopped /\ saving.state = "None" /\ file = <<>>
  /\ \A k \in DOMAIN dict : Constructible(dict[k].item)
  /\ header
  /\ saving' = [state |-> "Saving", dict |-> dict, left |-> dict]
  /\ UNCHANGED <<stopped, loading>>

Saving == ~ stopped /\ saving.state = "Saving"
SaveIdle == Saving /\ opState = "None" /\ group = <<>> /\ header_written

SaveEnds(state) == saving' = [saving EXCEPT !.state = state] /\ UNCHANGED <<stopped, loading>>

\* The next entry of the dict, or the footer; FileWriterCore::new sorts no index.
SaveEntry ==
  /\ SaveIdle
  /\ \/ /\ saving.left # <<>>
        /\ write_tensor(Named(saving.left[1])) \/ write_composite(Named(saving.left[1]))
        /\ saving' = [saving EXCEPT !.left = Tail(@)]
     \/ /\ saving.left = <<>>
        /\ \E kv \in BOOLEAN : finish(kv, FALSE)
        /\ UNCHANGED saving
  /\ UNCHANGED <<stopped, loading>>

\* The entry, or a later member of its group, is refused: the exception ends the save.
SaveRefused ==
  \/ /\ SaveIdle /\ saving.left # <<>>
     /\ LET n == Named(saving.left[1])
        IN  \/ n.kind = "Tensor" /\ ~ Acceptable(n)
            \/ n.kind = "Composite" /\ ~ ValidTree[n]
     /\ SaveEnds("Raised")
     /\ UNCHANGED wvars
  \/ Saving /\ GroupRefused /\ SaveEnds("Raised")

\* drain_file; with the footer out, save returns.
SaveStep ==
  \/ /\ Saving
     /\ \/ StepSegment \/ StepCommit \/ GroupSubmit
        \/ \E n \in 1 .. remaining : report_written(n)
     /\ UNCHANGED <<stopped, pvars>>
  \/ /\ Saving /\ Complete
     /\ IF finished THEN SaveEnds("Saved") ELSE UNCHANGED <<stopped, pvars>>

\* The system call fails or takes nothing (report_sink_closed is part of the way out).
SaveIoError == Saving /\ opState = "Live" /\ Fail /\ SaveEnds("IoError")

\* The driver and its file are dropped on return; the process may end before.
SaveStops == saving.state # "None" /\ Stop /\ UNCHANGED pvars

PySave ==
  /\ \/ \E dict \in Dicts : save(dict)
     \/ SaveEntry \/ SaveRefused \/ SaveStep \/ SaveIoError \/ SaveStops
  /\ UNCHANGED rside

-----------------------------------------------------------------------------
\* hurray.load

load(names) ==
  /\ stopped /\ loading.state = "None"
  /\ names = <<>> => (LoadSorted \/ ~ SortedIndex \/ saving.state # "None")
  /\ R!Open
  /\ loading' = [loading EXCEPT !.state = "Opening", !.names = names]

\* open has returned: the names to load.
LoadNames ==
  /\ loading.state = "Opening" /\ answer.result = "Opened"
  /\ loading' = [loading EXCEPT !.state = "Loading",
                                !.left = IF loading.names # <<>> THEN loading.names
                                         ELSE [i \in DOMAIN core.index |-> core.index[i].name]]
  /\ UNCHANGED rside

LoadIdle == loading.state = "Loading" /\ ~ driving /\ answer.result \in {"Opened", "Item"}

\* A composite already holds it.
LoadSkip ==
  /\ LoadIdle /\ loading.left # <<>> /\ loading.left[1] \in loading.claimed
  /\ loading' = [loading EXCEPT !.left = Tail(@)]
  /\ UNCHANGED rside

\* The descriptor first: it says how to read the rest.
Described(name) == call.job = "Descriptor" /\ call.name = name
LoadBegin ==
  /\ LoadIdle /\ loading.left # <<>> /\ loading.left[1] \notin loading.claimed
  /\ LET name == loading.left[1]
     IN  \/ call.name # name /\ R!Begin("Descriptor", name)
         \/ Described(name) /\ R!Begin(IF IsHead(answer.item.id) THEN "Walk" ELSE "Tensor", name)
  /\ UNCHANGED loading

\* Mutant: the members of a nested composite are not claimed.
consumed_names_one_level(item) ==
  {item.name} \cup {item.members[i].name : i \in DOMAIN item.members}

\* Every name a tree occupies.
RECURSIVE consumed_names(_)
consumed_names(item) ==
  {item.name} \cup UNION {consumed_names(item.members[i]) : i \in DOMAIN item.members}

LoadTake ==
  /\ LoadIdle /\ call.job \in {"Tensor", "Walk"} /\ loading.left # <<>> /\ call.name = loading.left[1]
  /\ loading.left[1] \notin loading.claimed
  /\ loading' = [loading EXCEPT !.left = Tail(@),
                                !.claimed = @ \cup consumed_names(answer.item),
                                !.out = Append(@, [name |-> call.name, item |-> answer.item])]
  /\ UNCHANGED rside

\* The dict is built: file_item_to_py refuses a tensor that has no buffers.
RECURSIVE Buffered(_)
Buffered(item) ==
  IF item.kind = "Tensor" THEN item.buffers # <<>>
  ELSE \A i \in DOMAIN item.members : Buffered(item.members[i])

LoadDone ==
  /\ LoadIdle /\ loading.left = <<>>
  /\ loading' = [loading EXCEPT !.state = IF \A k \in DOMAIN loading.out : Buffered(loading.out[k].item)
                                          THEN "Loaded" ELSE "Raised"]
  /\ UNCHANGED rside

\* A call of the reader failed.
LoadRaises ==
  /\ loading.state \in {"Opening", "Loading"} /\ ~ driving /\ answer.result \in {"Error", "Dropped"}
  /\ loading' = [loading EXCEPT !.state = IF answer.result = "Error" THEN "Raised" ELSE "IoError"]
  /\ UNCHANGED rside

\* drive and fill_range, the system call's error included.
LoadStep ==
  /\ \/ R!Step \/ R!ReportEof \/ R!Take
     \/ \E n \in 1 .. core.target - Len(core.bytes) : R!report_filled(n)
  /\ UNCHANGED loading

LoadIoError ==
  /\ driving /\ core.state \in R!Filling /\ Len(core.bytes) < core.target
  /\ R!Return("Dropped", R!NoItem)
  /\ UNCHANGED <<size, core, call, loading>>

PyLoadStep ==
  /\ stopped
  /\ LoadNames \/ LoadSkip \/ LoadBegin \/ LoadTake \/ LoadDone \/ LoadRaises \/ LoadStep
  /\ UNCHANGED <<wvars, stopped, saving>>

PyLoad ==
  \/ PyLoadStep
  \/ /\ \/ \E names \in Wanted : load(names)
        \/ LoadIoError
     /\ UNCHANGED <<wvars, stopped, saving>>

-----------------------------------------------------------------------------
\* Every name in a tree, once for each place.
RECURSIVE Occurs(_, _)
Occurs(name, item) ==
  LET below[i \in 0 .. Len(item.members)] ==
        IF i = 0 THEN IF item.name = name THEN 1 ELSE 0
        ELSE below[i - 1] + Occurs(name, item.members[i])
  IN  below[Len(item.members)]

Places(name) ==
  LET upto[k \in 0 .. Len(loading.out)] ==
        IF k = 0 THEN 0 ELSE upto[k - 1] + Occurs(name, loading.out[k].item)
  IN  upto[Len(loading.out)]

\* load(save(d)) = d: the same keys in the same order, and under each the item saved.
LoadedIsSaved ==
  (saving.state = "Saved" /\ loading.state = "Loaded" /\ loading.names = <<>>) =>
     loading.out = [k \in DOMAIN saving.dict |->
                      [name |-> saving.dict[k].name, item |-> ItemOf[Named(saving.dict[k])]]]

\* Whoever wrote the file, load without names returns every tensor of it in one place ("its
\* members do not also appear under their own names"), and with names every one asked for.
NothingTwice ==
  loading.state = "Loaded" =>
     IF loading.names = <<>>
     THEN \A i \in DOMAIN entries : Places(entries[i].name) = 1
     ELSE \A i \in DOMAIN loading.names : Places(loading.names[i]) > 0

\* save raises only when two tensors would have the same name.
DictNames(dict) ==
  LET flat[k \in 0 .. Len(dict)] ==
        IF k = 0 THEN <<>>
        ELSE flat[k - 1] \o [i \in DOMAIN Flattened[Named(dict[k])] |-> Flattened[Named(dict[k])][i].name]
  IN  flat[Len(dict)]

SaveRaisesForCause ==
  saving.state = "Raised" =>
    \E i, j \in DOMAIN DictNames(saving.dict) :
       i < j /\ DictNames(saving.dict)[i] = DictNames(saving.dict)[j]

\* load raises only when the file was not finished, or a name asked for is not in it or
\* cannot be read.
LoadRaisesForCause ==
  (loading.state = "Raised" /\ finished) =>
     \/ \E i \in DOMAIN loading.names : loading.names[i] \notin seen_names
     \/ \E n \in FileNodes : n.name \in seen_names /\ ~ Allocatable(n)

\* What is saved comes back: everything, once, under its name, and save and load raise
\* only for cause.
SaveLoadsBack ==
  /\ LoadedIsSaved /\ NothingTwice
  /\ SaveRaisesForCause /\ LoadRaisesForCause
=============================================================================
