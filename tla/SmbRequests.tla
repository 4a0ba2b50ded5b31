----------------------------- MODULE SmbRequests -----------------------------
(***************************************************************************)
(* The requests an SMB client makes of a share of one snapshot, each       *)
(* answered in one step by SmbBacking.  The protocol itself is a library's *)
(* (smbanything_core): it calls stat, list, open and read_at.              *)
(***************************************************************************)
EXTENDS SmbBacking

CONSTANTS
  Served,     \* trees that are served
  Nodes,      \* their nodes, at any depth
  Dir,        \* the directory of a share: the short id of its snapshot
  DirCases,   \* its spellings
  Requested,  \* Requested[t]: components a client of tree t sends
  MaxDepth,   \* bound: components of a request
  Numbers     \* sizes, offsets and lengths of reads

\* Names are sequences of characters, the library splits a client's path at
\* separators, and whoever writes a tree gives every directory a subtree and
\* nothing else one.
ASSUME RequestsAssumption ==
  /\ \A n \in Nodes :
       /\ n.name \in Seq(ToSet(n.name))
       /\ n.kind = "Dir" <=> n.sub # <<>>
       /\ n.sub = <<>> \/ (n.sub = <<n.sub[1]>> /\ n.sub[1] \in Seq(Nodes))
  /\ \A t \in Served :
       /\ t \in Seq(Nodes)
       /\ \A c \in Requested[t] : c \in Seq(ToSet(c)) /\ Back \notin ToSet(c)
  /\ MaxDepth \in Nat /\ Numbers \subseteq Nat /\ UsizeMax \in Nat

VARIABLES query, answer
vars == <<query, answer>>

Nothing == [op |-> "none"]
Init == query = Nothing /\ answer = Nothing

Idle == query = Nothing
Answer(q, a) == query' = q /\ answer' = a

\* A client's path: the directory in some case, and components below.
Inside(t) == UNION {[1..k -> Requested[t]] : k \in 0..MaxDepth}
Requests(t) ==
  {<<>>} \cup UNION {{<<d>> \o p : p \in Inside(t)} : d \in DirCases \cup {<<Mark>>}}

AskStat ==
  /\ Idle
  /\ \E t \in Served : \E p \in Requests(t) :
       Answer([op |-> "stat", tree |-> t, path |-> p], NestedStat(Dir, DirCases, t, p))

AskList ==
  /\ Idle
  /\ \E t \in Served : \E p \in Requests(t) :
       Answer([op |-> "list", tree |-> t, path |-> p], NestedList(Dir, DirCases, t, p))

AskOpen ==
  /\ Idle
  /\ \E t \in Served : \E p \in Requests(t) :
       Answer([op |-> "open", tree |-> t, path |-> p], NestedOpen(Dir, DirCases, t, p))

AskRead ==
  /\ Idle
  /\ \E size, offset, len \in Numbers :
       Answer([op |-> "read", size |-> size, offset |-> offset, len |-> len],
              ReadAt(size, offset, len))

Done == ~Idle /\ query' = Nothing /\ answer' = Nothing

AskShare == AskStat \/ AskList \/ AskOpen \/ AskRead \/ Done

ShareSpec == Init /\ [][AskShare]_vars

----------------------------------------------------------------------------
\* A client of a share can make use of every row it is shown: no name has a
\* separator in it; a name whose characters were not replaced opens, under a name
\* that is listed once the node of that row and never another one (node_info,
\* from_repo and to_repo, lookup).
RowsOpen ==
  query.op = "list" /\ answer.status = "OK" /\ query.path # <<>> =>
    LET rows == answer.value
        here == Lookup(query.tree, Tail(query.path))[1].sub[1]
    IN \A i \in DOMAIN rows :
         LET found == Lookup(query.tree, Append(Tail(query.path), rows[i].name))
         IN /\ Back \notin ToSet(rows[i].name)
            /\ Mark \notin ToSet(rows[i].name) => found # <<>>
            /\ found # <<>> => NodeInfo(found[1]).name = rows[i].name
            /\ (found # <<>> /\ \A j \in DOMAIN rows \ {i} : rows[j].name # rows[i].name)
                 => found = <<here[i]>>

\* stat, list and open agree on what is at a path, and what is opened is a file
\* with the name that was asked for (NestedBacking over SnapshotBacking).
KindsAgree ==
  /\ query.op = "stat" =>
       LET l == NestedList(Dir, DirCases, query.tree, query.path)
           o == NestedOpen(Dir, DirCases, query.tree, query.path)
       IN IF answer.status # "OK" THEN l.status # "OK" /\ o.status # "OK"
          ELSE IF answer.value[1].kind = "Dir"
          THEN l.status = "OK" /\ o.status = "FILE_IS_A_DIRECTORY"
          ELSE l.status = "NOT_A_DIRECTORY" /\ o.status = "OK"
  /\ query.op = "open" /\ answer.status = "OK" =>
       NodeInfo(answer.value[1]).name = Last(query.path)

\* A read gives the bytes of the file in the range asked for, or an error when
\* the target cannot count to them; it never gives bytes from elsewhere.
ReadsInside ==
  query.op = "read" =>
    IF answer.status # "OK" THEN query.size > UsizeMax
    ELSE answer.value.from .. answer.value.to - 1
           = {b \in 0..query.size - 1 : query.offset <= b /\ b < query.offset + query.len}

\* What a share serves is the snapshot.
ServesTree == RowsOpen /\ KindsAgree /\ ReadsInside
=============================================================================
