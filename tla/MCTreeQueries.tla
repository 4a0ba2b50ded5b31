---------------------------- MODULE MCTreeQueries ----------------------------
(* TreeQueries for TLC. *)
EXTENDS TreeQueries

N(name, kind, data, sub) == [name |-> name, kind |-> kind, data |-> data, sub |-> sub]

\* Trees of at most two names, with directories down to the third level.
Leaves(name) == {N(name, "File", 1, <<>>), N(name, "File", 2, <<>>), N(name, "Symlink", 1, <<>>)}
DirsOf(name, S) == {N(name, "Dir", 0, <<t>>) : t \in S}
Level(S) ==
  {a \o b : a \in {<<>>} \cup {<<n>> : n \in Leaves(1) \cup DirsOf(1, S)},
            b \in {<<>>} \cup {<<n>> : n \in Leaves(2) \cup DirsOf(2, S)}}
One == <<N(1, "File", 1, <<>>)>>
Two == <<N(1, "File", 2, <<>>), N(2, "File", 1, <<>>)>>
SmallTrees ==
  Level({<<>>, One, Two, <<N(2, "File", 1, <<>>)>>, <<N(2, "Symlink", 1, <<>>)>>,
         <<N(1, "Dir", 0, <<One>>), N(2, "File", 2, <<>>)>>, <<N(1, "Dir", 0, <<Two>>)>>})
SmallNodes ==
  LET Below(S) == UNION {ToSet(n.sub[1]) : n \in {m \in S : IsDir(m)}}
      top == UNION {ToSet(t) : t \in SmallTrees}
  IN top \cup Below(top) \cup Below(Below(top))

\* Characters of names.  text is the escape of the space, in a file's own name.
SomeEscape == [space |-> "u2002", format |-> "u200b", byte |-> "xff"]
Alphabet == {"a", "back", "mark", "space", "format", "byte", "u2002"}
Real(k) == UNION {[1..i -> Alphabet] : i \in 1..k}

\* As restic stores them, and as rustic does on Windows.
Stored(k) ==
  {ResticQuote(r) : r \in Real(k)}
    \cup {r \in Real(k) : ToSet(r) \cap {"back", "byte"} = {}}

\* A directory of a file with any name and a directory, with a file in it.
ServedTrees ==
  {<<N(f, "File", 2, <<>>), N(d, "Dir", 0, << <<N(<<"a">>, "File", 1, <<>>)>> >>)>> :
     f \in Stored(2), d \in Stored(1)}
  \cup {<<N(f, "File", 2, <<>>), N(g, "Symlink", 1, <<>>)>> : f \in Stored(1), g \in Stored(1)}

Asked == [t \in ServedTrees |-> {NodeInfo(t[i]).name : i \in DOMAIN t} \cup {<<"a">>}]
AllNodes == UNION {ToSet(t) : t \in ServedTrees} \cup {N(<<"a">>, "File", 1, <<>>)}
ShortId == <<"id">>
ShortIds == {<<"id">>, <<"ID">>}
=============================================================================
