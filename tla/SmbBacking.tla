----------------------------- MODULE SmbBacking -----------------------------
(***************************************************************************)
(* The tree an SMB client sees of a snapshot (src/smb/backing.rs) and the  *)
(* names in it (src/smb/name.rs).                                          *)
(*                                                                         *)
(* A name is a sequence of characters, of which these are told apart:      *)
(*   Back     the backslash: starts an escape, separates a client's path   *)
(*   Mark     U+FFFD, printable, put by wire_safe for a separator          *)
(*   Spaces   not printable for restic nor for this code: U+2002           *)
(*   Formats  not printable for restic, printable for this code: U+200B    *)
(*   Bytes    not UTF-8; they only occur in the names of a file system     *)
(* Escape[c] is the text after the backslash in the escape of c, taken as  *)
(* one character; a name may also hold that text as it is.  Every other    *)
(* character is plain.  A repository written by restic holds quoted names, *)
(* one written by rustic on Windows the names as they are.                 *)
(*                                                                         *)
(* Nodes are those of SnapshotTrees.  Reads of the repository succeed.     *)
(***************************************************************************)
EXTENDS Integers, SequencesExt

CONSTANTS Back, Mark, Spaces, Formats, Bytes, Escape,
          UsizeMax  \* the largest offset the target's usize holds

ASSUME NamesAssumption ==
  /\ Back \notin Spaces \cup Formats \cup {Mark}
  /\ \A c, d \in Spaces \cup Formats :
       Escape[c] # Back /\ (Escape[c] = Escape[d] => c = d)

----------------------------------------------------------------------------
(* Names. *)

\* strconv.Quote of restic, without the quotes.
ResticQuote(name) ==
  FlattenSeq([i \in DOMAIN name |->
    IF name[i] = Back THEN <<Back, Back>>
    ELSE IF name[i] \in Spaces \cup Formats \cup Bytes THEN <<Back, Escape[name[i]]>>
    ELSE <<name[i]>>])

\* encode, which is to_repo, character by character.
Quoted(c) ==
  IF c = Back THEN <<Back, Back>>
  ELSE IF c \in Spaces THEN <<Back, Escape[c]>> ELSE <<c>>

Encode(name) == FlattenSeq([i \in DOMAIN name |-> Quoted(name[i])])

\* The characters an escape may stand for: those whose result is UTF-8.
Unescaped(text) ==
  IF text = Back THEN {Back} ELSE {c \in Spaces \cup Formats : Escape[c] = text}

\* decode: the set of its results, empty when it fails.
Decoding(out, escape, failed) == [out |-> out, escape |-> escape, failed |-> failed]

DecodeStep(st, c) ==
  IF st.failed THEN st
  ELSE IF st.escape
  THEN IF Unescaped(c) = {} THEN Decoding(st.out, TRUE, TRUE)
       ELSE Decoding(Append(st.out, CHOOSE u \in Unescaped(c) : TRUE), FALSE, FALSE)
  ELSE IF c = Back THEN Decoding(st.out, TRUE, FALSE)
  ELSE Decoding(Append(st.out, c), FALSE, FALSE)

Decoded(stored) ==
  LET st[k \in 0..Len(stored)] ==
        IF k = 0 THEN Decoding(<<>>, FALSE, FALSE) ELSE DecodeStep(st[k - 1], stored[k])
  IN st[Len(stored)]

Decode(stored) ==
  LET end == Decoded(stored)
  IN IF end.failed \/ end.escape THEN {} ELSE {end.out}

\* Mutant of FromRepo: the round trip is not tried.
FromRepoUntried(stored) ==
  IF Decode(stored) = {} THEN stored ELSE CHOOSE d \in Decode(stored) : TRUE

\* from_repo
FromRepo(stored) ==
  IF \E d \in Decode(stored) : Encode(d) = stored
  THEN CHOOSE d \in Decode(stored) : TRUE ELSE stored

\* wire_safe
WireSafe(name) == [i \in DOMAIN name |-> IF name[i] = Back THEN Mark ELSE name[i]]

\* node_info; a link or a device is served as a file.
NodeInfo(n) ==
  [name |-> WireSafe(FromRepo(n.name)),
   kind |-> IF n.kind = "Dir" THEN "Dir" ELSE "File",
   size |-> IF n.kind = "Dir" THEN 0 ELSE n.data]
SyntheticDir(name) == [name |-> name, kind |-> "Dir", size |-> 0]

----------------------------------------------------------------------------
(* SnapshotBacking.  Options are sequences of at most one element. *)

Named(n, component) == n.name = Encode(component) \/ n.name = component

\* lookup, component by component: the first node of the name, in the subtree of
\* the node before.
LookupStep(found, component) ==
  LET here == IF found = <<>> \/ found[1].sub = <<>> THEN <<>> ELSE found[1].sub[1]
      i == SelectInSeq(here, LAMBDA n : Named(n, component))
  IN IF i = 0 THEN <<>> ELSE <<here[i]>>

RootNode(root) == [name |-> <<>>, kind |-> "Dir", data |-> 0, sub |-> <<root>>]

Lookup(root, path) ==
  LET found[k \in 0..Len(path)] ==
        IF k = 0 THEN <<RootNode(root)>> ELSE LookupStep(found[k - 1], path[k])
  IN found[Len(path)]

Ok(value) == [status |-> "OK", value |-> value]
Err(status) == [status |-> status, value |-> <<>>]

Stat(root, path) ==
  IF path = <<>> THEN Ok(<<SyntheticDir(<<>>)>>)
  ELSE LET n == Lookup(root, path)
       IN IF n = <<>> THEN Err("OBJECT_NAME_NOT_FOUND") ELSE Ok(<<NodeInfo(n[1])>>)

\* list, with entries
List(root, path) ==
  LET n == Lookup(root, path)
  IN IF n = <<>> THEN Err("OBJECT_PATH_NOT_FOUND")
     ELSE IF n[1].sub = <<>> THEN Err("NOT_A_DIRECTORY")
     ELSE Ok([i \in DOMAIN n[1].sub[1] |-> NodeInfo(n[1].sub[1][i])])

\* open, which gives the node that is read
Open(root, path) ==
  LET n == Lookup(root, path)
  IN IF path = <<>> \/ n = <<>> THEN Err("OBJECT_NAME_NOT_FOUND")
     ELSE IF n[1].kind = "Dir" THEN Err("FILE_IS_A_DIRECTORY")
     ELSE Ok(n)

----------------------------------------------------------------------------
(* NestedBacking: the tree is inside one directory, found in any case. *)
Missing == "missing"

Route(dirs, path) ==
  IF path = <<>> THEN "root"
  ELSE IF path[1] \notin dirs THEN Missing
  ELSE IF Len(path) = 1 THEN "dir" ELSE "inner"

NestedStat(dir, dirs, root, path) ==
  CASE Route(dirs, path) = "root"  -> Ok(<<SyntheticDir(<<>>)>>)
    [] Route(dirs, path) = "dir"   -> Ok(<<SyntheticDir(dir)>>)
    [] Route(dirs, path) = "inner" -> Stat(root, Tail(path))
    [] Route(dirs, path) = Missing -> Err("OBJECT_NAME_NOT_FOUND")

NestedList(dir, dirs, root, path) ==
  CASE Route(dirs, path) = "root"  -> Ok(<<SyntheticDir(dir)>>)
    [] Route(dirs, path) = Missing -> Err("OBJECT_PATH_NOT_FOUND")
    [] OTHER                       -> List(root, Tail(path))

NestedOpen(dir, dirs, root, path) ==
  CASE Route(dirs, path) \in {"root", "dir"} -> Err("FILE_IS_A_DIRECTORY")
    [] Route(dirs, path) = "inner" -> Open(root, Tail(path))
    [] Route(dirs, path) = Missing -> Err("OBJECT_NAME_NOT_FOUND")

----------------------------------------------------------------------------
(* SnapshotFile::read_at: the range of the file that is read, [from, to). *)
NoBytes == [from |-> 0, to |-> 0]

ReadAt(size, offset, len) ==
  IF offset >= size THEN Ok(NoBytes)
  ELSE IF offset > UsizeMax THEN Err("INVALID_PARAMETER")
  ELSE LET available == IF len < size - offset THEN len ELSE size - offset
       IN IF available > UsizeMax THEN Err("INVALID_PARAMETER")
          ELSE Ok([from |-> offset, to |-> offset + available])
=============================================================================
