------------------------------- MODULE Config -------------------------------
(***************************************************************************)
(* Configuration data (librime/src/config.cc): a tree of maps with scalars *)
(* for leaves, here the function from the paths of its scalars to these.   *)
(* A list is the map of its indices.  A map that has nothing in it and a   *)
(* null item are not told from a missing one: the emitter leaves nulls out *)
(* and As<ConfigMap> of either has no items.                               *)
(***************************************************************************)
EXTENDS Naturals, Sequences, SequencesExt, FiniteSets, TLC

NoItem == << >>     \* the tree without items: what a missing file loads as

\* Traverse, for a scalar: HasValue tells whether there is one.
HasValue(tree, path) == path \in DOMAIN tree
IsMap(tree, path)    == \E p \in DOMAIN tree : IsStrictPrefix(path, p)
GetMap(tree, path) ==
  LET keys == {p \in DOMAIN tree : IsStrictPrefix(path, p)}
      rest == {SubSeq(p, Len(path) + 1, Len(p)) : p \in keys}
  IN  [p \in rest |-> tree[path \o p]]

Without(tree, path) == [p \in {q \in DOMAIN tree : ~IsPrefix(path, q)} |-> tree[p]]

\* Config::SetItem: maps are made on the way, but no scalar gives way to one.
CanSet(tree, path) == \A p \in DOMAIN tree : ~IsStrictPrefix(p, path)

SetValue(tree, path, value) ==
  IF CanSet(tree, path) THEN (path :> value) @@ Without(tree, path) ELSE tree

\* An item that is a map, or the missing item, which clears.
SetItem(tree, path, item) ==
  IF ~CanSet(tree, path) THEN tree
  ELSE [p \in {path \o q : q \in DOMAIN item} |-> item[SubSeq(p, Len(path) + 1, Len(p))]]
         @@ Without(tree, path)

\* SetBool, and GetBool with a default: only these two texts are Booleans.
BoolText(value) == IF value THEN "true" ELSE "false"
GetBool(tree, path, default) ==
  IF ~HasValue(tree, path) THEN default
  ELSE IF tree[path] = "true" THEN TRUE
  ELSE IF tree[path] = "false" THEN FALSE ELSE default

-----------------------------------------------------------------------------
(* The data of one file.  ConfigDataManager hands the same data to all who *)
(* open the file, for as long as one of them has it open; the last one to  *)
(* let go saves it if it has been modified (~ConfigData).                  *)

\* LoadFromFile: what was modified before and not saved is gone.
Loaded(file) == [tree |-> file, modified |-> FALSE]

\* GetConfigData: in use, or to be loaded.
Opened(data, inUse, file) == IF inUse THEN data ELSE Loaded(file)

Modified(data, path, value) ==
  IF CanSet(data.tree, path)
    THEN [tree |-> SetValue(data.tree, path, value), modified |-> TRUE]
    ELSE data

\* What the file holds once the data have been let go by the last.
Saved(data, file) == IF data.modified THEN data.tree ELSE file
=============================================================================
