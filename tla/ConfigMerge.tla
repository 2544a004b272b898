----------------------------- MODULE ConfigMerge -----------------------------
(***************************************************************************)
(* How one file of the configuration is merged with those before           *)
(* (server/loadConfig.cpp).  ConfigLoading, the order in which files are   *)
(* read, has the operations of this module as its constants.               *)
(*                                                                         *)
(* A tree (boost::property_tree::ptree, external) has a value, "" for      *)
(* none, and an ordered list of children.  The key of a child is a         *)
(* sequence of names: a key "a.b" of a file, as in the sections of         *)
(* kurento.conf.ini, is one key with two names, and the same text is the   *)
(* path of b within a.  An array is a value.  Merging is recursive: this   *)
(* module is for TLC only.                                                 *)
(***************************************************************************)
EXTENDS ConfigLoading, SequencesExt

CONSTANT NameOf  \* module file or subdirectory -> the names in its stem

-----------------------------------------------------------------------------
(* Trees                                                                   *)

Empty == [data |-> "", kids |-> <<>>]

Kid(key, tree) == [key |-> key, tree |-> tree]

\* Where the first child with this name is among the children, or 0.
Find(kids, name) == SelectInSeq(kids, LAMBDA k : k.key = <<name>>)

\* get_child: the tree at a path, or the default.
RECURSIVE GetChild(_, _, _)
GetChild(tree, path, default) ==
  IF path = <<>> THEN tree
  ELSE LET i == Find(tree.kids, Head(path))
       IN  IF i = 0 THEN default ELSE GetChild(tree.kids[i].tree, Tail(path), default)

\* add_child: a new last child at a path, which is made where it is missing.
RECURSIVE AddChild(_, _, _)
AddChild(tree, path, child) ==
  LET i == Find(tree.kids, Head(path))
  IN  IF Len(path) = 1
      THEN [tree EXCEPT !.kids = Append(@, Kid(path, child))]
      ELSE IF i = 0
      THEN [tree EXCEPT !.kids =
              Append(@, Kid(<<Head(path)>>, AddChild(Empty, Tail(path), child)))]
      ELSE [tree EXCEPT !.kids[i].tree = AddChild(@, Tail(path), child)]

\* erase: the children with this very key are removed.
Erase(tree, key) == [tree EXCEPT !.kids = SelectSeq(@, LAMBDA k : k.key # key)]

\* put: the value at a name is set, which keeps what is below it.
PutValue(tree, name, value) ==
  LET i == Find(tree.kids, name)
  IN  IF i = 0
      THEN AddChild(tree, <<name>>, [Empty EXCEPT !.data = value])
      ELSE [tree EXCEPT !.kids[i].tree.data = value]

-----------------------------------------------------------------------------
(* mergePropertyTrees                                                      *)

\* Mutant: a value that is there already stays.
RECURSIVE Merge_Keep(_, _, _)
Merge_Keep(merged, second, level) ==
  IF level > 0 /\ second.kids = <<>>
  THEN IF merged = Empty THEN second ELSE merged
  ELSE FoldLeft(
         LAMBDA tree, kid :
           AddChild(Erase(tree, kid.key), kid.key,
                    Merge_Keep(GetChild(tree, kid.key, Empty), kid.tree, level + 1)),
         merged, second.kids)

\* Mutant: a value is set and what was below it stays.
RECURSIVE Merge_Below(_, _, _)
Merge_Below(merged, second, level) ==
  IF level > 0 /\ second.kids = <<>>
  THEN [merged EXCEPT !.data = second.data]
  ELSE FoldLeft(
         LAMBDA tree, kid :
           AddChild(Erase(tree, kid.key), kid.key,
                    Merge_Below(GetChild(tree, kid.key, Empty), kid.tree, level + 1)),
         merged, second.kids)

\* Mutant: everything below the first level is copied.
Merge_Shallow(merged, second, level) ==
  FoldLeft(LAMBDA tree, kid : AddChild(Erase(tree, kid.key), kid.key, kid.tree),
           merged, second.kids)

\* Below the root a value or an empty object replaces what is there.  Otherwise
\* each child is merged with what is at its key, read as a path, and put back as
\* the last child at that path; what has the very key as its name is erased.
RECURSIVE Merge(_, _, _)
Merge(merged, second, level) ==
  IF level > 0 /\ second.kids = <<>>
  THEN second
  ELSE FoldLeft(
         LAMBDA tree, kid :
           AddChild(Erase(tree, kid.key), kid.key,
                    Merge(GetChild(tree, kid.key, Empty), kid.tree, level + 1)),
         merged, second.kids)

-----------------------------------------------------------------------------
(* What ConfigLoading does with a configuration                            *)

\* loadFile: the file is merged into a tree, which also gets the directory.
MergeFile(tree, file, directory) ==
  PutValue(Merge(tree, file, 0), "configPath", directory)

\* The module's tree is put below its key and merged.
MergeModule(tree, key, module) == Merge(tree, AddChild(Empty, key, module), 0)

\* diffPathToKey and the file's own name: where a file goes that is reached by a
\* sequence of subdirectories.
KeyOf(way, file) ==
  <<"modules">> \o FlattenSeq([i \in DOMAIN way |-> NameOf[way[i]]]) \o NameOf[file]

\* write_json refuses a tree with a node that has both a value and children.
RECURSIVE NoMixedNode(_)
NoMixedNode(tree) ==
  /\ tree.data = "" \/ tree.kids = <<>>
  /\ \A i \in DOMAIN tree.kids : NoMixedNode(tree.kids[i].tree)

-----------------------------------------------------------------------------
(* Properties                                                              *)

\* The value that the server reads at a path: config.get.
Read(tree, path) == GetChild(tree, path, Empty).data

\* The nodes of a file: the keys down to each, and the tree there.
RECURSIVE Nodes(_)
Nodes(tree) ==
  UNION {{[keys |-> <<kid.key>>, tree |-> kid.tree]} \cup
         {[n EXCEPT !.keys = <<kid.key>> \o @] : n \in Nodes(kid.tree)}
         : kid \in ToSet(tree.kids)}

Leaves(tree) == {n \in Nodes(tree) : n.tree.kids = <<>>}

\* The path by which the server looks a node of a merged file up.
PathOf(file, node) == file.at \o FlattenSeq(node.keys)

\* A step that merged a file.
Merged == loaded' # loaded
NewFile == Last(loaded')

\* A dotted key of the main file names something that the file also has by
\* another key: where that comes first, readers find it first.
Hidden(file, node) ==
  /\ file.at = <<>>
  /\ \E i \in DOMAIN node.keys :
       LET keys == SubSeq(node.keys, 1, i)
       IN  /\ Len(node.keys[i]) > 1
           /\ \E other \in Nodes(file.tree) :
                /\ ~IsPrefix(keys, other.keys)
                /\ IsPrefix(FlattenSeq(keys), FlattenSeq(other.keys))

\* The file sets the same thing, or something it is part of, twice.
SetTwice(file, node) ==
  \E other \in Leaves(file.tree) \ {node} :
    IsPrefix(PathOf(file, other), PathOf(file, node))

\* A setting of a file is in effect as soon as the file is merged, whatever other
\* files set before, unless it is in a section of the main file with a dotted key
\* and that file has something in the same place by another key, as it would with
\* [mediaServer.net.websocket.secure] before [mediaServer.net.websocket].  The file
\* of a module is merged twice, which unites such sections.
LastWins ==
  [][Merged =>
       \A node \in Leaves(NewFile.tree) :
         \/ Hidden(NewFile, node) \/ SetTwice(NewFile, node)
         \/ Read(config', PathOf(NewFile, node)) = node.tree.data]_vars

\* The paths of the settings of a tree that has no dotted keys.
Paths(tree) == {FlattenSeq(n.keys) : n \in Nodes(tree)}

\* A file changes no setting but those at or below its own leaves: the
\* settings of an object that two files share are united.
RestKept ==
  [][Merged =>
       \A path \in Paths(config) :
         \/ \E node \in Leaves(NewFile.tree) : IsPrefix(PathOf(NewFile, node), path)
         \/ path = NewFile.at \o <<"configPath">>
         \/ Read(config', path) = Read(config, path)]_vars

Comparable(p, q) == IsPrefix(p, q) \/ IsPrefix(q, p)

\* The configuration with a module's file and no other.
Alone(file) == Merge(Empty, AddChild(Empty, file.at, Merge(Empty, file.tree, 0)), 0)

\* The settings of a module whose path no other file shares are those of its
\* own file, whatever is merged before or after it and in whatever order.
ModuleAlone ==
  \A i \in DOMAIN loaded :
    (/\ loaded[i].at # <<>>
     /\ \A j \in DOMAIN loaded \ {i} :
          loaded[j].at # <<>> => ~Comparable(loaded[j].at, loaded[i].at))
      => \A path \in Paths(Alone(loaded[i])) :
           Read(config, path) = Read(Alone(loaded[i]), path)

\* The server only refuses to start on a configuration whose files it could
\* parse because one of them has a setting below what an earlier one, or the
\* same one, gives a value.
AbortsOnConflict ==
  state = "aborted" =>
    \E i, j \in DOMAIN loaded :
      /\ i <= j
      /\ \E n \in Leaves(loaded[i].tree), m \in Nodes(loaded[j].tree) :
           /\ n.tree.data # ""
           /\ IsStrictPrefix(PathOf(loaded[i], n), PathOf(loaded[j], m))

=============================================================================
