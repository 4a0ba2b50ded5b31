--------------------------- MODULE MCBrowseScreens ---------------------------
(* BrowseScreens for TLC: two snapshots of a small tree of directories. *)
EXTENDS BrowseScreens, TLC

Row(name, kind, subtree) == [name |-> name, kind |-> kind, subtree |-> subtree]
File(name) == Row(name, "File", "-")

\* s1 is r1/{a, d/{a, l, e/{}}}, s2 is r2/{a, b}.
SomeRoots == [s \in {"s1", "s2"} |-> IF s = "s1" THEN "r1" ELSE "r2"]
SomeNodes ==
  [t \in {"r1", "r2", "d", "e"} |->
     CASE t = "r1" -> <<File("a"), Row("d", "Dir", "d")>>
       [] t = "r2" -> <<File("a"), File("b")>>
       [] t = "d"  -> <<File("a"), Row("e", "Dir", "e"), Row("l", "Symlink", "-")>>
       [] t = "e"  -> <<>>]

SomeTargets == [snap : {"s1", "s2"}, tree : {"r1", "r2", "d", "e"},
                name : {"a", "b", "d", "e", "l"}]
=============================================================================
