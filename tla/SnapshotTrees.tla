---------------------------- MODULE SnapshotTrees ----------------------------
(***************************************************************************)
(* What the TUI reads out of the trees of a snapshot (src/repo.rs): the    *)
(* preview of the first entries and the native diff of two snapshots, one  *)
(* step per round of their loops.                                          *)
(*                                                                         *)
(* A tree is the sequence of its nodes [name, kind, data, sub], so that    *)
(* trees are equal when their ids are; sub is <<>> or <<tree>>.  The data  *)
(* of a file is its content, of which it also is the size; of a link its   *)
(* target, of another node its device.  A name is a number: nodes are in   *)
(* the order of their names, the order in which names are shown and        *)
(* compared.  A path is a sequence of names.  Reads of trees succeed.      *)
(***************************************************************************)
EXTENDS Integers, SequencesExt

CONSTANTS
  Trees,      \* trees that are previewed and compared
  TreeNodes,  \* their nodes, at any depth
  Names,      \* names of nodes
  MaxLevel,   \* bound: names of a path
  Limits      \* limits of a preview

----------------------------------------------------------------------------
(* What is in a tree, by paths. *)
Under(nodes) == UNION {ToSet(n.sub[1]) : n \in {m \in nodes : m.sub # <<>>}}

\* The nodes of the directory at a path.
Contents(tree, path) ==
  LET at[k \in 0..Len(path)] ==
        IF k = 0 THEN ToSet(tree) ELSE Under({n \in at[k - 1] : n.name = path[k]})
  IN at[Len(path)]

NodesAt(tree, path) == {n \in Contents(tree, Front(path)) : n.name = Last(path)}
NodeAt(tree, path) == CHOOSE n \in NodesAt(tree, path) : TRUE

AllPaths == UNION {[1..k -> Names] : k \in 1..MaxLevel}
Paths(tree) == {p \in AllPaths : NodesAt(tree, p) # {}}

Sorted(tree) == \A i, j \in DOMAIN tree : i < j => tree[i].name < tree[j].name

\* Whoever writes a snapshot sorts its trees, with each name once, and gives
\* every directory a subtree and nothing else one.
ASSUME TreesAssumption ==
  /\ \A n \in TreeNodes :
       /\ n.name \in Names /\ n.data \in Nat
       /\ n.kind = "Dir" <=> n.sub # <<>>
       /\ n.sub = <<>> \/ (/\ n.sub = <<n.sub[1]>>
                           /\ n.sub[1] \in Seq(TreeNodes) /\ Sorted(n.sub[1]))
  /\ \A t \in Trees :
       /\ t \in Seq(TreeNodes) /\ Sorted(t)
       /\ \A p \in [1..MaxLevel -> Names] : Contents(t, p) = {}
  /\ Names \subseteq Nat /\ MaxLevel \in Nat /\ Limits \subseteq Nat

----------------------------------------------------------------------------
VARIABLES
  walk,       \* what is asked
  calls,      \* the calls that have not returned, the innermost one last
  out,        \* entries of the preview, or changes of the diff
  truncated,  \* of the preview
  summary     \* of the diff: files and bytes by modifier
walkVars == <<walk, calls, out, truncated, summary>>

NoWalk == [op |-> "none"]
NoFiles == [files |-> 0, bytes |-> 0]
Modifiers == {"Added", "Removed", "Modified"}  \* those the summary counts
NoSummary == [m \in Modifiers |-> NoFiles]

WalkInit ==
  /\ walk = NoWalk /\ calls = <<>> /\ out = <<>>
  /\ truncated = FALSE /\ summary = NoSummary

Call == Last(calls)
Callers == Front(calls)
Running(op) == walk.op = op /\ calls # <<>>
Within(path, n) == Append(path, n.name)
IsDir(n) == n.kind = "Dir"

----------------------------------------------------------------------------
(* Preview. *)

\* list_tree: directories first, then by name.
RowBefore(a, b) ==
  IF IsDir(a) = IsDir(b) THEN a.name < b.name ELSE IsDir(a)

\* The rows of a directory are visited in that order: the first of those left.
IsFirst(n, left) == \A m \in left \ {n} : RowBefore(n, m)

Rows(path, left) == [path |-> path, left |-> left]

\* Mutant of Full: the limit is only looked at on the way into a directory.
NeverFull(entries, limit) == FALSE

Full(entries, limit) == Len(entries) >= limit

\* A call of walk_preview for the directory at a path, with the entries so far.
Walk(stack, path, tree, entries, limit, cut) ==
  IF Len(entries) >= limit
  THEN calls' = stack /\ truncated' = TRUE
  ELSE calls' = Append(stack, Rows(path, ToSet(tree))) /\ truncated' = cut

AskPreview ==
  /\ walk = NoWalk
  /\ \E t \in Trees, limit \in Limits :
       /\ walk' = [op |-> "preview", tree |-> t, limit |-> limit]
       /\ Walk(<<>>, <<>>, t, <<>>, limit, FALSE)
  /\ out' = <<>> /\ UNCHANGED summary

\* A round of walk_preview's loop over the rows.
PreviewRow ==
  /\ Running("preview") /\ ~Full(out, walk.limit)
  /\ \E n \in Call.left :
       /\ IsFirst(n, Call.left)
       /\ out' = Append(out, [path |-> Within(Call.path, n), kind |-> n.kind])
       /\ LET rest == Append(Callers, Rows(Call.path, Call.left \ {n}))
          IN IF IsDir(n) /\ n.sub # <<>>
             THEN Walk(rest, Within(Call.path, n), n.sub[1], out', walk.limit, truncated)
             ELSE calls' = rest /\ UNCHANGED truncated
  /\ UNCHANGED <<walk, summary>>

PreviewFull ==
  /\ Running("preview") /\ Full(out, walk.limit) /\ Call.left # {}
  /\ truncated' = TRUE /\ calls' = Callers
  /\ UNCHANGED <<walk, out, summary>>

PreviewReturn ==
  /\ Running("preview") /\ Call.left = {}
  /\ calls' = Callers
  /\ UNCHANGED <<walk, out, truncated, summary>>

----------------------------------------------------------------------------
(* Diff. *)

\* Calls of diff_trees, with the two cursors, and of collect_all_as.
Pair(path, first, second, i, j) ==
  [of |-> "pair", path |-> path, first |-> first, second |-> second, i |-> i, j |-> j]
All(path, nodes, i, modifier) ==
  [of |-> "all", path |-> path, nodes |-> nodes, i |-> i, modifier |-> modifier]

\* The call of collect_all_as for what is below a node, if anything is.
AllUnder(path, n, modifier) ==
  IF n.sub = <<>> THEN <<>> ELSE <<All(path, n.sub[1], 1, modifier)>>

Change(modifier, path) == [modifier |-> modifier, path |-> path]

Counted(modifier, n, bytes) ==
  IF n.kind # "File" THEN summary
  ELSE [summary EXCEPT ![modifier] = [files |-> @.files + 1, bytes |-> @.bytes + bytes]]

\* emit_node, for a node only one of the snapshots has; then what is below it.
Emit(n, path, modifier, rest) ==
  /\ out' = Append(out, Change(modifier, path))
  /\ summary' = Counted(modifier, n, n.data)
  /\ calls' = rest \o AllUnder(path, n, modifier)
  /\ UNCHANGED <<walk, truncated>>

AskDiff ==
  /\ walk = NoWalk
  /\ \E t1, t2 \in Trees :
       /\ walk' = [op |-> "diff", first |-> t1, second |-> t2]
       /\ calls' = IF t1 = t2 THEN <<>> ELSE <<Pair(<<>>, t1, t2, 1, 1)>>
  /\ out' = <<>> /\ truncated' = FALSE /\ summary' = NoSummary

InPair == Running("diff") /\ Call.of = "pair"
More1 == Call.i <= Len(Call.first)
More2 == Call.j <= Len(Call.second)
Node1 == Call.first[Call.i]
Node2 == Call.second[Call.j]
Next1 == Append(Callers, [Call EXCEPT !.i = @ + 1])
Next2 == Append(Callers, [Call EXCEPT !.j = @ + 1])
NextBoth == Append(Callers, [Call EXCEPT !.i = @ + 1, !.j = @ + 1])

\* A round of diff_trees: a name of the first tree only (in the loop, or after it)
DiffRemoved ==
  /\ InPair /\ More1 /\ (More2 => Node1.name < Node2.name)
  /\ Emit(Node1, Within(Call.path, Node1), "Removed", Next1)

\* of the second only
DiffAdded ==
  /\ InPair /\ More2 /\ (More1 => Node2.name < Node1.name)
  /\ Emit(Node2, Within(Call.path, Node2), "Added", Next2)

\* or of both, with diff_matched_nodes.
InBoth == InPair /\ More1 /\ More2 /\ Node1.name = Node2.name

\* Mutant of Replaced: what was below is not looked at.
ReplacedFlat(n1, n2, path) == <<>>

\* The calls for what was below a node that changed its type, the last one first.
Replaced(n1, n2, path) == AllUnder(path, n2, "Added") \o AllUnder(path, n1, "Removed")

DiffType ==
  /\ InBoth /\ Node1.kind # Node2.kind
  /\ out' = Append(out, Change("TypeChanged", Within(Call.path, Node1)))
  /\ calls' = NextBoth \o Replaced(Node1, Node2, Within(Call.path, Node1))
  /\ UNCHANGED <<walk, truncated, summary>>

DiffDirs ==
  /\ InBoth /\ Node1.kind = Node2.kind /\ IsDir(Node1)
  /\ calls' = IF Node1.sub # Node2.sub /\ Node1.sub # <<>> /\ Node2.sub # <<>>
              THEN Append(NextBoth,
                          Pair(Within(Call.path, Node1), Node1.sub[1], Node2.sub[1], 1, 1))
              ELSE NextBoth
  /\ UNCHANGED <<walk, out, truncated, summary>>

DiffData ==
  /\ InBoth /\ Node1.kind = Node2.kind /\ ~IsDir(Node1)
  /\ IF Node1.data = Node2.data THEN UNCHANGED <<out, summary>>
     ELSE /\ out' = Append(out, Change("Modified", Within(Call.path, Node1)))
          /\ summary' = Counted("Modified", Node1, 0)
  /\ calls' = NextBoth
  /\ UNCHANGED <<walk, truncated>>

\* A round of collect_all_as.
CollectAll ==
  /\ Running("diff") /\ Call.of = "all" /\ Call.i <= Len(Call.nodes)
  /\ LET n == Call.nodes[Call.i]
     IN Emit(n, Within(Call.path, n), Call.modifier, Next1)

DiffReturn ==
  /\ Running("diff")
  /\ IF Call.of = "all" THEN Call.i > Len(Call.nodes) ELSE ~More1 /\ ~More2
  /\ calls' = Callers
  /\ UNCHANGED <<walk, out, truncated, summary>>

----------------------------------------------------------------------------
WalkDone ==
  /\ walk # NoWalk /\ calls = <<>>
  /\ walk' = NoWalk /\ out' = <<>> /\ truncated' = FALSE /\ summary' = NoSummary
  /\ UNCHANGED calls

WalkNext ==
  \/ AskPreview \/ PreviewRow \/ PreviewFull \/ PreviewReturn
  \/ AskDiff \/ DiffRemoved \/ DiffAdded \/ DiffType \/ DiffDirs \/ DiffData
  \/ CollectAll \/ DiffReturn \/ WalkDone

WalkSpec == WalkInit /\ [][WalkNext]_walkVars

----------------------------------------------------------------------------
\* The order of a preview: what is in a directory follows it, and of two entries
\* of one directory the one whose row is first, with everything in it.
Precedes(tree, p, q) ==
  \/ p # q /\ IsPrefix(p, q)
  \/ \E k \in DOMAIN p \cap DOMAIN q :
       /\ SubSeq(p, 1, k - 1) = SubSeq(q, 1, k - 1)
       /\ RowBefore(NodeAt(tree, SubSeq(p, 1, k)), NodeAt(tree, SubSeq(q, 1, k)))

\* A preview shows the first entries of the snapshot at any time, and in the end
\* all of them or as many as the limit allows, and then says so (walk_preview,
\* with early returns at every level of its recursion).
PreviewRight ==
  walk.op = "preview" =>
    LET shown == [i \in DOMAIN out |-> out[i].path]
        all   == Paths(walk.tree)
    IN /\ ToSet(shown) \subseteq all /\ IsInjective(shown) /\ Len(out) <= walk.limit
       /\ \A i \in DOMAIN out : out[i].kind = NodeAt(walk.tree, shown[i]).kind
       /\ \A i \in DOMAIN shown : \A p \in all :
            Precedes(walk.tree, p, shown[i]) => \E j \in 1..i - 1 : shown[j] = p
       /\ calls = <<>> /\ ~(all \subseteq ToSet(shown)) =>
            Len(out) = walk.limit /\ truncated

\* The diff says of a path once what became of it, also below a directory that
\* came, went or turned into something else, and in the end of every path that
\* changed; and its summary counts the files it shows (diff_trees, which merges
\* two sorted lists and calls itself and collect_all_as).
Became(first, second, path) ==
  IF path \notin Paths(second) THEN "Removed"
  ELSE IF path \notin Paths(first) THEN "Added"
  ELSE LET a == NodeAt(first, path)
           b == NodeAt(second, path)
       IN IF a.kind # b.kind THEN "TypeChanged"
          ELSE IF ~IsDir(a) /\ a.data # b.data THEN "Modified" ELSE "Same"

Changed(first, second) ==
  {p \in Paths(first) \cup Paths(second) : Became(first, second, p) # "Same"}
ToShow(first, second) == {Change(Became(first, second, p), p) : p \in Changed(first, second)}

Total(numbers) ==
  LET sum[k \in 0..Len(numbers)] == IF k = 0 THEN 0 ELSE sum[k - 1] + numbers[k]
  IN sum[Len(numbers)]

\* What each of the changes adds to the files and the bytes of a modifier.
Subject(first, second, c) == NodeAt(IF c.modifier = "Removed" THEN first ELSE second, c.path)
IsFileOf(first, second, m, c) == c.modifier = m /\ Subject(first, second, c).kind = "File"
FilesOf(first, second, m) ==
  [i \in DOMAIN out |-> IF IsFileOf(first, second, m, out[i]) THEN 1 ELSE 0]
BytesOf(first, second, m) ==
  [i \in DOMAIN out |->
     IF IsFileOf(first, second, m, out[i]) THEN Subject(first, second, out[i]).data ELSE 0]

DiffRight ==
  walk.op = "diff" =>
    LET first  == walk.first
        second == walk.second
    IN /\ ToSet(out) \subseteq ToShow(first, second)
       /\ IsInjective([i \in DOMAIN out |-> out[i].path])
       /\ calls = <<>> => ToShow(first, second) \subseteq ToSet(out)
       /\ \A m \in Modifiers : summary[m].files = Total(FilesOf(first, second, m))
       /\ \A m \in {"Added", "Removed"} : summary[m].bytes = Total(BytesOf(first, second, m))
=============================================================================
