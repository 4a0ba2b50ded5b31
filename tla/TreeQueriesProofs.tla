-------------------------- MODULE TreeQueriesProofs --------------------------
(* Proofs about SnapshotTrees, about SmbRequests with the names and paths of *)
(* SmbBacking, and about the two of them together. *)
EXTENDS TreeQueries, SequenceTheorems, WellFoundedInduction, TLAPS

----------------------------------------------------------------------------
(* Induction and recursion on an index, first-order by sets and functions. *)
LEMMA IndexInduction ==
  ASSUME NEW N \in Nat, NEW G, 0 \in G, \A k \in 0..N : k \in G /\ k < N => k + 1 \in G
  PROVE  \A k \in 0..N : k \in G
<1> DEFINE T == {k \in 0..N : k \notin G}
<1> SUFFICES ASSUME T # {} PROVE FALSE
  OBVIOUS
<1>1. PICK k \in T : \A m \in T : ~(<<m, k>> \in OpToRel(<, Nat))
  <2>1. T \subseteq Nat
    OBVIOUS
  <2> HIDE DEF T
  <2> QED
    BY <2>1, NatLessThanWellFounded, WFMin
<1>2. k \in Nat /\ k # 0 /\ k \notin G /\ k <= N
  OBVIOUS
<1>3. k - 1 \in 0..N /\ k - 1 < N /\ (k - 1) + 1 = k
  BY <1>2
<1>4. k - 1 \notin G
  BY <1>2, <1>3
<1>5. k - 1 \in T
  BY <1>3, <1>4
<1>6. <<k - 1, k>> \in OpToRel(<, Nat)
  BY <1>2, <1>3 DEF OpToRel
<1> QED
  BY <1>1, <1>5, <1>6

\* A loop of n rounds over states in S, of which F[<<k, s>>] is the k-th.
IsLoop(w, F, b, n) == w[0] = b /\ \A k \in 1..n : w[k] = F[<<k, w[k - 1]>>]

LEMMA SomeLoop ==
  ASSUME NEW S, NEW b \in S, NEW N \in Nat, NEW F \in [(1..N) \X S -> S]
  PROVE  \E w \in [0..N -> S] : IsLoop(w, F, b, N)
<1> DEFINE G == {n \in 0..N : \E w \in [0..n -> S] : IsLoop(w, F, b, n)}
<1>1. 0 \in G
  <2> DEFINE w == [k \in 0..0 |-> b]
  <2>1. w \in [0..0 -> S] /\ w[0] = b /\ 1..0 = {}
    OBVIOUS
  <2> HIDE DEF w
  <2> QED
    BY <2>1 DEF IsLoop
<1>2. ASSUME NEW n \in 0..N, n \in G, n < N PROVE n + 1 \in G
  <2>1. PICK w \in [0..n -> S] : IsLoop(w, F, b, n)
    BY <1>2
  <2> DEFINE x == F[<<n + 1, w[n]>>]
             v == [k \in 0..n + 1 |-> IF k = n + 1 THEN x ELSE w[k]]
  <2>2. n + 1 \in 1..N /\ n \in 0..n /\ w[n] \in S
    BY <1>2, <2>1
  <2>3. x \in S
    BY <2>2
  <2> HIDE DEF x
  <2>4. v \in [0..n + 1 -> S]
    BY <2>1, <2>3
  <2>5. ASSUME NEW k \in 1..n + 1 PROVE v[k] = F[<<k, v[k - 1]>>]
    <3>1. CASE k = n + 1
      <4>1. k - 1 = n /\ n \in 0..n + 1 /\ n # n + 1 /\ k \in 0..n + 1
        BY <3>1
      <4>2. v[k] = x /\ v[k - 1] = w[n]
        BY <3>1, <4>1
      <4> QED
        BY <3>1, <4>2 DEF x
    <3>2. CASE k # n + 1
      <4>1. k \in 1..n /\ k \in 0..n + 1 /\ k - 1 \in 0..n + 1 /\ k - 1 # n + 1
        BY <3>2
      <4>2. v[k] = w[k] /\ v[k - 1] = w[k - 1]
        BY <3>2, <4>1
      <4>3. w[k] = F[<<k, w[k - 1]>>]
        BY <2>1, <4>1 DEF IsLoop
      <4> QED
        BY <4>2, <4>3
    <3> QED
      BY <3>1, <3>2
  <2>6. v[0] = b
    <3>1. 0 \in 0..n + 1 /\ 0 # n + 1
      BY <2>2
    <3> QED
      BY <2>1, <3>1 DEF IsLoop
  <2>7. n + 1 \in 0..N
    BY <2>2
  <2> HIDE DEF v
  <2> QED
    BY <2>4, <2>5, <2>6, <2>7 DEF IsLoop
<1> HIDE DEF G
<1>3. \A k \in 0..N : k \in G
  BY <1>1, <1>2, IndexInduction
<1> QED
  BY <1>3 DEF G

\* Two loops that begin alike and do the same rounds are the same so far.
LEMMA SameLoop ==
  ASSUME NEW N \in Nat, NEW v, NEW w, v[0] = w[0],
         \A k \in 1..N : v[k - 1] = w[k - 1] => v[k] = w[k]
  PROVE  v[N] = w[N]
<1> DEFINE G == {k \in 0..N : v[k] = w[k]}
<1>1. 0 \in G
  OBVIOUS
<1>2. ASSUME NEW k \in 0..N, k \in G, k < N PROVE k + 1 \in G
  <2>1. k + 1 \in 1..N /\ (k + 1) - 1 = k
    BY <1>2
  <2> QED
    BY <1>2, <2>1
<1> HIDE DEF G
<1>3. \A k \in 0..N : k \in G
  BY <1>1, <1>2, IndexInduction
<1> QED
  BY <1>3 DEF G

----------------------------------------------------------------------------
(* What is in a tree. *)
IsTree(t) == t \in Seq(TreeNodes) /\ Sorted(t)
UniqueNames(S) == \A m, n \in S : m.name = n.name => m = n

LEMMA UnderType ==
  ASSUME NEW S, S \subseteq TreeNodes
  PROVE  Under(S) \subseteq TreeNodes
<1>1. ASSUME NEW n \in S, n.sub # <<>> PROVE ToSet(n.sub[1]) \subseteq TreeNodes
  <2>1. n.sub[1] \in Seq(TreeNodes)
    BY <1>1, TreesAssumption
  <2> QED
    BY <2>1 DEF ToSet
<1> QED
  BY <1>1 DEF Under

LEMMA ContentsLoop ==
  ASSUME NEW t \in Seq(TreeNodes), NEW path \in Seq(Names)
  PROVE  \E w : /\ w[0] = ToSet(t)
                /\ \A k \in 0..Len(path) : w[k] \subseteq TreeNodes
                /\ \A k \in 1..Len(path) : w[k] = Under({n \in w[k - 1] : n.name = path[k]})
                /\ Contents(t, path) = w[Len(path)]
<1> DEFINE L == Len(path)
           Into(S, k) == Under({n \in S : n.name = path[k]})
           F == [q \in (1..L) \X SUBSET TreeNodes |-> Into(q[2], q[1])]
           IsRun(g) == g = [k \in 0..L |-> IF k = 0 THEN ToSet(t) ELSE Into(g[k - 1], k)]
<1>1. L \in Nat
  OBVIOUS
<1>2. ToSet(t) \in SUBSET TreeNodes
  BY DEF ToSet
<1>0. ASSUME NEW S \in SUBSET TreeNodes, NEW k PROVE Into(S, k) \in SUBSET TreeNodes
  BY UnderType
<1>3. F \in [(1..L) \X SUBSET TreeNodes -> SUBSET TreeNodes]
  <2> HIDE DEF Into
  <2> QED
    BY <1>0
<1>4. PICK w \in [0..L -> SUBSET TreeNodes] : IsLoop(w, F, ToSet(t), L)
  <2> HIDE DEF F, L
  <2> QED
    BY <1>1, <1>2, <1>3, SomeLoop
<1>5. w[0] = ToSet(t) /\ \A k \in 1..L : w[k] = F[<<k, w[k - 1]>>]
  <2> HIDE DEF F, L
  <2> QED
    BY <1>4 DEF IsLoop
<1>6. \A k \in 1..L : w[k] = Into(w[k - 1], k)
  <2> SUFFICES ASSUME NEW k \in 1..L PROVE w[k] = Into(w[k - 1], k)
    OBVIOUS
  <2>1. k - 1 \in 0..L /\ w[k - 1] \in SUBSET TreeNodes
    <3> HIDE DEF F, L
    <3>1. k - 1 \in 0..L
      BY <1>1
    <3> QED
      BY <1>4, <3>1
  <2> HIDE DEF Into
  <2> QED
    BY <1>5, <2>1
<1> HIDE DEF F, Into
<1>7. IsRun(w)
  <2>1. \A k \in 0..L : w[k] = IF k = 0 THEN ToSet(t) ELSE Into(w[k - 1], k)
    <3> HIDE DEF L
    <3>1. \A k \in 0..L : k = 0 \/ k \in 1..L
      BY <1>1
    <3> QED
      BY <1>5, <1>6, <3>1
  <2>2. w = [k \in 0..L |-> w[k]]
    BY <1>4
  <2> QED
    BY <2>1, <2>2
<1> DEFINE g == CHOOSE h : IsRun(h)
<1>8. IsRun(g)
  BY <1>7
<1>9. Contents(t, path) = g[L]
  BY DEF Contents, Into
<1> HIDE DEF g
<1>10. g[0] = ToSet(t) /\ \A k \in 1..L : g[k] = Into(g[k - 1], k)
  <2>1. \A k \in 0..L : g[k] = IF k = 0 THEN ToSet(t) ELSE Into(g[k - 1], k)
    BY <1>8
  <2> QED
    BY <1>1, <2>1
<1> DEFINE G == {k \in 0..L : g[k] \in SUBSET TreeNodes}
<1>11. 0 \in G
  <2>1. 0 \in 0..L
    BY <1>1
  <2> HIDE DEF L
  <2> QED
    BY <1>2, <1>10, <2>1
<1>12. ASSUME NEW k \in 0..L, k \in G, k < L PROVE k + 1 \in G
  <2>1. k + 1 \in 1..L /\ k + 1 \in 0..L /\ (k + 1) - 1 = k /\ g[k] \in SUBSET TreeNodes
    BY <1>1, <1>12
  <2> HIDE DEF L
  <2>2. g[k + 1] = Into(g[k], k + 1)
    BY <1>10, <2>1
  <2>3. g[k + 1] \in SUBSET TreeNodes
    BY <1>0, <2>1, <2>2
  <2> QED
    BY <2>1, <2>3
<1> HIDE DEF G
<1>13. \A k \in 0..L : k \in G
  BY <1>1, <1>11, <1>12, IndexInduction
<1> QED
  BY <1>9, <1>10, <1>13 DEF G, Into

LEMMA ContentsEmpty ==
  ASSUME NEW t \in Seq(TreeNodes)
  PROVE  Contents(t, <<>>) = ToSet(t)
<1>1. <<>> \in Seq(Names) /\ Len(<<>>) = 0
  OBVIOUS
<1> QED
  BY <1>1, ContentsLoop

LEMMA ContentsType ==
  ASSUME NEW t \in Seq(TreeNodes), NEW path \in Seq(Names)
  PROVE  Contents(t, path) \subseteq TreeNodes
<1>1. Len(path) \in 0..Len(path)
  OBVIOUS
<1> QED
  BY <1>1, ContentsLoop

LEMMA ContentsAppend ==
  ASSUME NEW t \in Seq(TreeNodes), NEW path \in Seq(Names), NEW x \in Names
  PROVE  Contents(t, Append(path, x)) = Under({n \in Contents(t, path) : n.name = x})
<1> DEFINE L == Len(path)
           q == Append(path, x)
           Into(S, y) == Under({n \in S : n.name = y})
<1>1. q \in Seq(Names) /\ Len(q) = L + 1 /\ q[L + 1] = x /\ L \in Nat
      /\ \A k \in 1..L : q[k] = path[k]
  BY AppendProperties
<1> HIDE DEF q
<1>2. PICK w : /\ w[0] = ToSet(t)
               /\ \A k \in 1..L : w[k] = Into(w[k - 1], path[k])
               /\ Contents(t, path) = w[L]
  BY ContentsLoop
<1>3. PICK v : /\ v[0] = ToSet(t)
               /\ \A k \in 1..L + 1 : v[k] = Into(v[k - 1], q[k])
               /\ Contents(t, q) = v[L + 1]
  <2>1. PICK v : /\ v[0] = ToSet(t)
                 /\ \A k \in 1..Len(q) : v[k] = Into(v[k - 1], q[k])
                 /\ Contents(t, q) = v[Len(q)]
    BY <1>1, ContentsLoop
  <2> HIDE DEF L, Into
  <2> QED
    BY <1>1, <2>1
<1> HIDE DEF L, Into
<1>4. \A k \in 1..L : v[k - 1] = w[k - 1] => v[k] = w[k]
  <2> SUFFICES ASSUME NEW k \in 1..L, v[k - 1] = w[k - 1] PROVE v[k] = w[k]
    OBVIOUS
  <2>1. k \in 1..L + 1
    BY <1>1
  <2> QED
    BY <1>1, <1>2, <1>3, <2>1
<1>5. v[L] = w[L]
  <2>1. v[0] = w[0]
    BY <1>2, <1>3
  <2> QED
    BY <1>1, <1>4, <2>1, SameLoop
<1>6. L + 1 \in 1..L + 1 /\ (L + 1) - 1 = L
  BY <1>1
<1> QED
  BY <1>1, <1>2, <1>3, <1>5, <1>6 DEF q, Into

LEMMA SubTree ==
  ASSUME NEW n \in TreeNodes
  PROVE  /\ n.name \in Names /\ n.data \in Nat
         /\ n.kind = "Dir" <=> n.sub # <<>>
         /\ n.sub # <<>> => IsTree(n.sub[1])
BY TreesAssumption DEF IsTree

LEMMA TreeUnique ==
  ASSUME NEW t, IsTree(t)
  PROVE  UniqueNames(ToSet(t))
<1> SUFFICES ASSUME NEW i \in DOMAIN t, NEW j \in DOMAIN t, t[i].name = t[j].name
             PROVE  t[i] = t[j]
  BY DEF UniqueNames, ToSet
<1>1. i \in Nat /\ j \in Nat /\ DOMAIN t = 1..Len(t) /\ t[i] \in TreeNodes /\ t[j] \in TreeNodes
  BY DEF IsTree
<1>2. t[i].name \in Nat /\ t[j].name \in Nat
  BY <1>1, SubTree, TreesAssumption
<1>3. ~(i < j) /\ ~(j < i)
  BY <1>2 DEF IsTree, Sorted
<1> QED
  BY <1>1, <1>3

\* What is under one node.
Children(n) == IF n.sub = <<>> THEN {} ELSE ToSet(n.sub[1])

LEMMA UnderOne ==
  ASSUME NEW n
  PROVE  Under({n}) = Children(n)
BY DEF Under, Children

LEMMA ContentsUnique ==
  ASSUME NEW t, IsTree(t), NEW path \in Seq(Names)
  PROVE  UniqueNames(Contents(t, path))
<1> DEFINE L == Len(path)
<1>1. t \in Seq(TreeNodes) /\ L \in Nat
  BY DEF IsTree
<1>2. PICK w : /\ w[0] = ToSet(t)
               /\ \A k \in 0..L : w[k] \subseteq TreeNodes
               /\ \A k \in 1..L : w[k] = Under({n \in w[k - 1] : n.name = path[k]})
               /\ Contents(t, path) = w[L]
  BY <1>1, ContentsLoop
<1> HIDE DEF L
<1> DEFINE G == {k \in 0..L : UniqueNames(w[k])}
<1>3. 0 \in G
  BY <1>1, <1>2, TreeUnique
<1>4. ASSUME NEW k \in 0..L, k \in G, k < L PROVE k + 1 \in G
  <2>1. k + 1 \in 1..L /\ k + 1 \in 0..L /\ (k + 1) - 1 = k /\ UniqueNames(w[k])
    BY <1>1, <1>4
  <2> DEFINE S == {n \in w[k] : n.name = path[k + 1]}
  <2>2. w[k + 1] = Under(S) /\ w[k] \subseteq TreeNodes
    BY <1>2, <2>1
  <2>3. UniqueNames(Under(S))
    <3>1. CASE S = {}
      BY <3>1 DEF Under, UniqueNames
    <3>2. CASE S # {}
      <4>1. PICK n \in TreeNodes : S = {n}
        BY <2>1, <2>2, <3>2 DEF UniqueNames
      <4>2. UniqueNames(Children(n))
        BY SubTree, TreeUnique DEF Children, UniqueNames
      <4> QED
        BY <4>1, <4>2, UnderOne
    <3> QED
      BY <3>1, <3>2
  <2> QED
    BY <2>1, <2>2, <2>3
<1> HIDE DEF G
<1>5. \A k \in 0..L : k \in G
  BY <1>1, <1>3, <1>4, IndexInduction
<1> QED
  BY <1>1, <1>2, <1>5 DEF G

\* One level further down.
LEMMA ContentsBelow ==
  ASSUME NEW t, IsTree(t), NEW path \in Seq(Names)
  PROVE  /\ \A n \in Contents(t, path) : Contents(t, Append(path, n.name)) = Children(n)
         /\ \A x \in Names : (\A n \in Contents(t, path) : n.name # x)
                               => Contents(t, Append(path, x)) = {}
<1>1. t \in Seq(TreeNodes)
  BY DEF IsTree
<1>2. ASSUME NEW n \in Contents(t, path)
      PROVE  Contents(t, Append(path, n.name)) = Children(n)
  <2>1. n.name \in Names
    BY <1>1, ContentsType, SubTree
  <2>2. {m \in Contents(t, path) : m.name = n.name} = {n}
    BY ContentsUnique DEF UniqueNames
  <2> QED
    BY <1>1, <2>1, <2>2, ContentsAppend, UnderOne
<1>3. ASSUME NEW x \in Names, \A n \in Contents(t, path) : n.name # x
      PROVE  Contents(t, Append(path, x)) = {}
  <2>1. {m \in Contents(t, path) : m.name = x} = {}
    BY <1>3
  <2> QED
    BY <1>1, <2>1, ContentsAppend DEF Under
<1> QED
  BY <1>2, <1>3

----------------------------------------------------------------------------
(* Paths. *)
DirPaths == {p \in Seq(Names) : Len(p) <= MaxLevel}

\* A path leads on from another one by a name.
Goes(p, path, x) ==
  /\ Len(path) < Len(p)
  /\ \A i \in 1..Len(path) : p[i] = path[i]
  /\ p[Len(path) + 1] = x

LEMMA AllPathsAre == AllPaths = {p \in Seq(Names) : Len(p) \in 1..MaxLevel}
<1>1. MaxLevel \in Nat
  BY TreesAssumption
<1>2. ASSUME NEW p \in AllPaths PROVE p \in Seq(Names) /\ Len(p) \in 1..MaxLevel
  <2>1. PICK k \in 1..MaxLevel : p \in [1..k -> Names]
    BY DEF AllPaths
  <2> QED
    BY <1>1, <2>1
<1>3. ASSUME NEW p \in Seq(Names), Len(p) \in 1..MaxLevel PROVE p \in AllPaths
  <2>1. p \in [1..Len(p) -> Names]
    OBVIOUS
  <2> QED
    BY <1>3, <2>1 DEF AllPaths
<1> QED
  BY <1>2, <1>3

LEMMA FrontLastAppend ==
  ASSUME NEW S, NEW path \in Seq(S), NEW x \in S
  PROVE  Front(Append(path, x)) = path /\ Last(Append(path, x)) = x
<1> DEFINE q == Append(path, x)
<1>1. q \in Seq(S) /\ Len(q) = Len(path) + 1 /\ q[Len(path) + 1] = x
      /\ \A k \in 1..Len(path) : q[k] = path[k]
  BY AppendProperties
<1>2. Len(path) \in Nat /\ Len(q) - 1 = Len(path)
  BY <1>1
<1> HIDE DEF q
<1>3. SubSeq(q, 1, Len(path)) = path
  <2>1. \A i \in 1..Len(path) : q[i] \in S
    BY <1>1
  <2>2. /\ SubSeq(q, 1, Len(path)) \in Seq(S)
        /\ Len(SubSeq(q, 1, Len(path))) = Len(path)
        /\ \A i \in 1..Len(path) : SubSeq(q, 1, Len(path))[i] = q[i]
    BY <1>2, <2>1, SubSeqProperties
  <2> QED
    BY <1>1, <2>2, SeqEqual
<1> QED
  BY <1>1, <1>2, <1>3 DEF Front, Last, q

LEMMA AtAppend ==
  ASSUME NEW t, NEW path \in Seq(Names), NEW x \in Names
  PROVE  NodesAt(t, Append(path, x)) = {n \in Contents(t, path) : n.name = x}
BY FrontLastAppend DEF NodesAt

\* A node of a directory is the one at its path.
LEMMA NodeIs ==
  ASSUME NEW t, IsTree(t), NEW path \in Seq(Names), NEW n \in Contents(t, path)
  PROVE  /\ n \in TreeNodes /\ n.name \in Names
         /\ NodesAt(t, Within(path, n)) = {n} /\ NodeAt(t, Within(path, n)) = n
<1>1. n \in TreeNodes /\ n.name \in Names
  BY ContentsType, SubTree DEF IsTree
<1>2. NodesAt(t, Within(path, n)) = {n}
  <2>1. {m \in Contents(t, path) : m.name = n.name} = {n}
    BY ContentsUnique DEF UniqueNames
  <2> QED
    BY <1>1, <2>1, AtAppend DEF Within
<1> QED
  BY <1>1, <1>2 DEF NodeAt

LEMMA PathTo ==
  ASSUME NEW t \in Trees, NEW path \in DirPaths, NEW n \in Contents(t, path)
  PROVE  Within(path, n) \in Paths(t) /\ Within(path, n) \in DirPaths
<1>1. IsTree(t) /\ path \in Seq(Names) /\ MaxLevel \in Nat /\ Len(path) \in Nat
  BY TreesAssumption DEF IsTree, DirPaths
<1>2. n.name \in Names /\ NodesAt(t, Within(path, n)) # {}
  BY <1>1, NodeIs
<1>3. Len(path) # MaxLevel
  <2> SUFFICES ASSUME Len(path) = MaxLevel PROVE FALSE
    OBVIOUS
  <2>1. path \in [1..MaxLevel -> Names]
    BY <1>1
  <2> QED
    BY <2>1, TreesAssumption
<1>4. Len(path) < MaxLevel
  BY <1>1, <1>3 DEF DirPaths
<1>5. Within(path, n) \in Seq(Names) /\ Len(Within(path, n)) = Len(path) + 1
  BY <1>1, <1>2, AppendProperties DEF Within
<1> QED
  BY <1>1, <1>2, <1>4, <1>5, AllPathsAre DEF Paths, DirPaths

\* The way to a node: each name on it is that of a node of the directory before.
LEMMA WayTo ==
  ASSUME NEW t, IsTree(t), NEW p \in Seq(Names), p # <<>>, NodesAt(t, p) # {},
         NEW k \in 0..Len(p) - 1
  PROVE  \E n \in Contents(t, SubSeq(p, 1, k)) : n.name = p[k + 1]
<1> DEFINE L == Len(p) - 1
           Has(j) == \E n \in Contents(t, SubSeq(p, 1, j)) : n.name = p[j + 1]
           G == {i \in 0..L : Has(L - i)}
<1>1. L \in Nat /\ L + 1 = Len(p) /\ \A j \in 1..Len(p) : p[j] \in Names
  BY EmptySeq
<1>2. Has(L)
  BY <1>1 DEF NodesAt, Front, Last
<1> HIDE DEF L
<1>3. 0 \in G
  BY <1>1, <1>2
<1>4. ASSUME NEW i \in 0..L, i \in G, i < L PROVE i + 1 \in G
  <2> DEFINE j == L - i - 1
             before == SubSeq(p, 1, j)
  <2>1. i + 1 \in 0..L /\ j \in Nat /\ j + 1 = L - i /\ L - (i + 1) = j /\ j + 1 \in 1..Len(p)
    BY <1>1, <1>4
  <2>2. before \in Seq(Names)
    BY <1>1, <2>1
  <2>3. SubSeq(p, 1, j + 1) = Append(before, p[j + 1])
    BY <1>1, <2>1
  <2>4. Contents(t, SubSeq(p, 1, j + 1)) # {}
    BY <1>4, <2>1
  <2> HIDE DEF before
  <2>5. \E n \in Contents(t, before) : n.name = p[j + 1]
    <3>1. p[j + 1] \in Names
      BY <1>1, <2>1
    <3>2. Contents(t, Append(before, p[j + 1])) # {}
      BY <2>3, <2>4
    <3> HIDE DEF j
    <3> QED
      BY <2>2, <3>1, <3>2, ContentsBelow
  <2> QED
    BY <2>1, <2>5 DEF before
<1> HIDE DEF G
<1>5. \A i \in 0..L : i \in G
  BY <1>1, <1>3, <1>4, IndexInduction
<1>6. L - k \in 0..L /\ L - (L - k) = k
  BY <1>1
<1> QED
  BY <1>5, <1>6 DEF G

\* What is further down a path.
Beyond(p, q) == Len(q) < Len(p) /\ \A i \in 1..Len(q) : p[i] = q[i]

LEMMA SamePrefix ==
  ASSUME NEW p \in Seq(Names), NEW q \in Seq(Names), Len(q) <= Len(p),
         \A i \in 1..Len(q) : p[i] = q[i]
  PROVE  SubSeq(p, 1, Len(q)) = q
<1>1. Len(p) \in Nat /\ Len(q) \in Nat /\ \A i \in 1..Len(q) : i \in 1..Len(p) /\ p[i] \in Names
  OBVIOUS
<1>2. /\ SubSeq(p, 1, Len(q)) \in Seq(Names)
      /\ Len(SubSeq(p, 1, Len(q))) = Len(q)
      /\ \A i \in 1..Len(q) : SubSeq(p, 1, Len(q))[i] = p[i]
  BY <1>1, SubSeqProperties
<1> QED
  BY <1>2, SeqEqual

LEMMA NextOn ==
  ASSUME NEW t, IsTree(t), NEW q \in Seq(Names), NEW p \in Paths(t), Beyond(p, q)
  PROVE  \E n \in Contents(t, q) : Goes(p, q, n.name)
<1>1. p \in Seq(Names) /\ Len(p) \in Nat /\ Len(q) \in Nat /\ NodesAt(t, p) # {} /\ Len(p) # 0
  BY AllPathsAre DEF Paths, Beyond
<1>2. SubSeq(p, 1, Len(q)) = q
  BY <1>1, SamePrefix DEF Beyond
<1>3. Len(q) \in 0..Len(p) - 1 /\ p # <<>>
  BY <1>1 DEF Beyond
<1>4. \E n \in Contents(t, q) : n.name = p[Len(q) + 1]
  BY <1>1, <1>2, <1>3, WayTo
<1> QED
  BY <1>4 DEF Goes, Beyond

\* What leads on from a path by a node is the node's path or beyond it.
LEMMA GoesOn ==
  ASSUME NEW path \in Seq(Names), NEW x \in Names, NEW p \in Seq(Names)
  PROVE  Goes(p, path, x) <=> p = Append(path, x) \/ Beyond(p, Append(path, x))
<1> DEFINE q == Append(path, x)
<1>1. q \in Seq(Names) /\ Len(q) = Len(path) + 1 /\ q[Len(path) + 1] = x
      /\ \A k \in 1..Len(path) : q[k] = path[k]
  BY AppendProperties
<1>2. Len(p) \in Nat /\ Len(path) \in Nat
  OBVIOUS
<1> HIDE DEF q
<1>3. ASSUME Goes(p, path, x) PROVE p = q \/ Beyond(p, q)
  <2>1. \A i \in 1..Len(q) : p[i] = q[i]
    BY <1>1, <1>2, <1>3 DEF Goes
  <2>2. Len(q) = Len(p) \/ Len(q) < Len(p)
    BY <1>1, <1>2, <1>3 DEF Goes
  <2>3. CASE Len(q) = Len(p)
    BY <1>1, <2>1, <2>3, SeqEqual
  <2> QED
    BY <2>1, <2>2, <2>3 DEF Beyond
<1>4. ASSUME p = q \/ Beyond(p, q) PROVE Goes(p, path, x)
  <2>1. Len(q) <= Len(p) /\ \A i \in 1..Len(q) : p[i] = q[i]
    BY <1>1, <1>2, <1>4 DEF Beyond
  <2>2. Len(path) < Len(p) /\ Len(path) + 1 \in 1..Len(q) /\ \A i \in 1..Len(path) : i \in 1..Len(q)
    BY <1>1, <1>2, <2>1
  <2> QED
    BY <1>1, <2>1, <2>2 DEF Goes
<1> QED
  BY <1>3, <1>4 DEF q

----------------------------------------------------------------------------
(* The calls that have not returned: where each of them is and which names *)
(* of its directory it has ahead of it.                                     *)

\* A call is within what a caller of it has come to.
Chained(s, P, Past) ==
  \A a, b \in DOMAIN s : a < b =>
    /\ Beyond(P[s[b]], P[s[a]])
    /\ <<P[s[b]][Len(P[s[a]]) + 1], s[a]>> \in Past

ToVisit(s, P, A) ==
  {p \in AllPaths : \E a \in DOMAIN s : \E x \in A[s[a]] : Goes(p, P[s[a]], x)}

Downwards(q, A) == {p \in AllPaths : \E x \in A : Goes(p, q, x)}

IsStack(S, P, A, Past) ==
  /\ P \in [S -> DirPaths] /\ A \in [S -> SUBSET Names]
  /\ \A c \in S : \A x \in A[c] : <<x, c>> \notin Past

LEMMA Tops ==
  ASSUME NEW S, NEW s \in Seq(S), s # <<>>
  PROVE  /\ Len(s) \in Nat /\ Len(s) >= 1 /\ Last(s) = s[Len(s)] /\ Last(s) \in S
         /\ Front(s) \in Seq(S) /\ Len(Front(s)) = Len(s) - 1
         /\ \A a \in 1..Len(s) - 1 : Front(s)[a] = s[a] /\ s[a] \in S
<1> DEFINE n == Len(s) - 1
<1>1. Len(s) \in Nat /\ Len(s) # 0
  BY EmptySeq
<1>2. n \in Nat /\ \A i \in 1..n : s[i] \in S
  BY <1>1
<1> HIDE DEF n
<1>3. /\ SubSeq(s, 1, n) \in Seq(S)
      /\ Len(SubSeq(s, 1, n)) = n
      /\ \A i \in 1..n : SubSeq(s, 1, n)[i] = s[i]
  BY <1>2, SubSeqProperties
<1>4. Len(s) \in 1..Len(s) /\ s[Len(s)] \in S
  BY <1>1
<1> QED
  BY <1>1, <1>2, <1>3, <1>4 DEF Front, Last, n

\* A call returns.
LEMMA Returned ==
  ASSUME NEW S, NEW P, NEW A, NEW Past, NEW s \in Seq(S), s # <<>>, Chained(s, P, Past)
  PROVE  /\ Front(s) \in Seq(S) /\ Chained(Front(s), P, Past)
         /\ ToVisit(Front(s), P, A) \subseteq ToVisit(s, P, A)
         /\ A[Last(s)] = {} => ToVisit(s, P, A) \subseteq ToVisit(Front(s), P, A)
<1>1. /\ Len(s) \in Nat /\ Front(s) \in Seq(S) /\ Len(Front(s)) = Len(s) - 1
      /\ Last(s) = s[Len(s)]
      /\ \A a \in 1..Len(s) - 1 : Front(s)[a] = s[a]
  BY Tops
<1>2. /\ DOMAIN s = 1..Len(s) /\ DOMAIN Front(s) = 1..Len(s) - 1
      /\ DOMAIN Front(s) \subseteq DOMAIN s
      /\ \A a \in DOMAIN s : a = Len(s) \/ a \in DOMAIN Front(s)
  BY <1>1
<1>3. Chained(Front(s), P, Past)
  <2> SUFFICES ASSUME NEW a \in DOMAIN Front(s), NEW b \in DOMAIN Front(s), a < b
               PROVE  /\ Beyond(P[s[b]], P[s[a]])
                      /\ <<P[s[b]][Len(P[s[a]]) + 1], s[a]>> \in Past
    BY <1>1, <1>2 DEF Chained
  <2> QED
    BY <1>2 DEF Chained
<1>4. ToVisit(Front(s), P, A) \subseteq ToVisit(s, P, A)
  BY <1>1, <1>2 DEF ToVisit
<1>5. ASSUME A[Last(s)] = {} PROVE ToVisit(s, P, A) \subseteq ToVisit(Front(s), P, A)
  BY <1>1, <1>2, <1>5 DEF ToVisit
<1> QED
  BY <1>1, <1>3, <1>4, <1>5

\* A path within a call is within what its callers have come to.
LEMMA Visiting ==
  ASSUME NEW S, NEW P, NEW A, NEW Past, IsStack(S, P, A, Past),
         NEW s \in Seq(S), s # <<>>, Chained(s, P, Past),
         NEW a \in 1..Len(s) - 1, NEW p \in Seq(Names), NEW x, Goes(p, P[Last(s)], x)
  PROVE  /\ Beyond(p, P[s[a]]) /\ <<p[Len(P[s[a]]) + 1], s[a]>> \in Past
         /\ \A y \in A[s[a]] : ~Goes(p, P[s[a]], y)
<1> DEFINE up == P[s[a]]
           down == P[Last(s)]
<1>1. Len(s) \in DOMAIN s /\ a \in DOMAIN s /\ a < Len(s) /\ Last(s) = s[Len(s)] /\ s[a] \in S
      /\ Last(s) \in S
  BY Tops
<1>2. Beyond(down, up) /\ <<down[Len(up) + 1], s[a]>> \in Past
  BY <1>1 DEF Chained
<1>3. up \in Seq(Names) /\ down \in Seq(Names)
  BY <1>1 DEF IsStack, DirPaths
<1> HIDE DEF up, down
<1>4. Len(up) \in Nat /\ Len(down) \in Nat /\ Len(p) \in Nat
  BY <1>3
<1>5. Len(up) < Len(down) /\ Len(down) < Len(p)
      /\ (\A i \in 1..Len(up) : down[i] = up[i]) /\ (\A i \in 1..Len(down) : p[i] = down[i])
  BY <1>2 DEF Beyond, down, Goes
<1>6. (\A i \in 1..Len(up) : i \in 1..Len(down)) /\ Len(up) + 1 \in 1..Len(down)
      /\ Len(up) < Len(p)
  BY <1>4, <1>5
<1>7. p[Len(up) + 1] = down[Len(up) + 1] /\ \A i \in 1..Len(up) : p[i] = up[i]
  BY <1>5, <1>6
<1>8. Beyond(p, up) /\ <<p[Len(up) + 1], s[a]>> \in Past
  BY <1>2, <1>6, <1>7 DEF Beyond
<1>9. ASSUME NEW y \in A[s[a]], Goes(p, up, y) PROVE FALSE
  BY <1>1, <1>8, <1>9 DEF Goes, IsStack
<1> QED
  BY <1>8, <1>9 DEF up

\* A call comes to the next name it has ahead.
LEMMA Visited ==
  ASSUME NEW S, NEW P, NEW A, NEW Past, IsStack(S, P, A, Past),
         NEW s \in Seq(S), s # <<>>, Chained(s, P, Past),
         NEW x \in Names, NEW d \in S,
         P[d] = P[Last(s)], A[d] = A[Last(s)] \ {x}
  PROVE  /\ Append(Front(s), d) \in Seq(S) /\ Chained(Append(Front(s), d), P, Past)
         /\ ToVisit(Append(Front(s), d), P, A)
              = {p \in ToVisit(s, P, A) : ~Goes(p, P[d], x)}
<1> DEFINE N == Len(s)
           r == Append(Front(s), d)
<1>1. /\ N \in Nat /\ N >= 1 /\ Last(s) = s[N] /\ Last(s) \in S
      /\ Front(s) \in Seq(S) /\ Len(Front(s)) = N - 1
      /\ \A a \in 1..N - 1 : Front(s)[a] = s[a]
  BY Tops
<1>2. r \in Seq(S) /\ Len(r) = N /\ r[N] = d /\ \A a \in 1..N - 1 : r[a] = s[a]
  BY <1>1, AppendProperties
<1>3. DOMAIN s = 1..N /\ DOMAIN r = 1..N
  BY <1>1, <1>2
<1> HIDE DEF N, r
<1>4. N \in 1..N /\ \A a \in 1..N : a = N \/ (a \in 1..N - 1 /\ a < N)
  BY <1>1
<1>5. Chained(r, P, Past)
  <2> SUFFICES ASSUME NEW a \in 1..N, NEW b \in 1..N, a < b
               PROVE  /\ Beyond(P[r[b]], P[r[a]])
                      /\ <<P[r[b]][Len(P[r[a]]) + 1], r[a]>> \in Past
    BY <1>3 DEF Chained
  <2>1. r[a] = s[a] /\ P[r[b]] = P[s[b]]
    <3>1. a \in 1..N - 1
      BY <1>1
    <3> QED
      BY <1>1, <1>2, <1>4, <3>1
  <2> QED
    BY <1>3, <2>1 DEF Chained
<1>6. ASSUME NEW p \in ToVisit(r, P, A) PROVE p \in ToVisit(s, P, A) /\ ~Goes(p, P[d], x)
  <2>1. PICK a \in 1..N : \E y \in A[r[a]] : Goes(p, P[r[a]], y)
    BY <1>3 DEF ToVisit
  <2>2. PICK y \in A[r[a]] : Goes(p, P[r[a]], y)
    BY <2>1
  <2>3. p \in AllPaths /\ p \in Seq(Names)
    BY AllPathsAre DEF ToVisit
  <2>4. CASE a = N
    <3>1. y \in A[Last(s)] /\ y # x /\ Goes(p, P[s[N]], y)
      BY <1>1, <1>2, <2>2, <2>4
    <3>2. ~Goes(p, P[d], x)
      BY <1>2, <2>2, <2>4, <3>1 DEF Goes
    <3> QED
      BY <1>1, <1>3, <1>4, <2>3, <3>1, <3>2 DEF ToVisit
  <2>5. CASE a # N
    <3>1. a \in 1..N - 1 /\ r[a] = s[a]
      BY <1>2, <1>4, <2>5
    <3>2. ~Goes(p, P[d], x)
      <4> SUFFICES ASSUME Goes(p, P[Last(s)], x) PROVE FALSE
        OBVIOUS
      <4>1. a \in 1..Len(s) - 1
        BY <3>1 DEF N
      <4>2. \A z \in A[s[a]] : ~Goes(p, P[s[a]], z)
        BY <2>3, <4>1, Visiting
      <4> QED
        BY <2>2, <3>1, <4>2
    <3> QED
      BY <1>3, <2>2, <2>3, <3>1, <3>2 DEF ToVisit
  <2> QED
    BY <2>4, <2>5
<1>7. ASSUME NEW p \in ToVisit(s, P, A), ~Goes(p, P[d], x) PROVE p \in ToVisit(r, P, A)
  <2>1. PICK a \in 1..N : \E y \in A[s[a]] : Goes(p, P[s[a]], y)
    BY <1>3 DEF ToVisit
  <2>2. PICK y \in A[s[a]] : Goes(p, P[s[a]], y)
    BY <2>1
  <2>3. p \in AllPaths
    BY DEF ToVisit
  <2>4. y \in A[r[a]] /\ Goes(p, P[r[a]], y)
    <3>1. CASE a = N
      <4>1. y # x
        BY <1>1, <1>7, <2>2, <3>1
      <4> QED
        BY <1>1, <1>2, <2>2, <3>1, <4>1
    <3>2. CASE a # N
      BY <1>2, <1>4, <2>2, <3>2
    <3> QED
      BY <3>1, <3>2
  <2> QED
    BY <1>3, <2>3, <2>4 DEF ToVisit
<1> QED
  BY <1>2, <1>5, <1>6, <1>7 DEF r

\* A call is made for the name its caller has just come to.
LEMMA Called ==
  ASSUME NEW S, NEW P, NEW A, NEW Past, IsStack(S, P, A, Past),
         NEW s \in Seq(S), s # <<>>, Chained(s, P, Past),
         NEW d \in S,
         \E x \in Names : P[d] = Append(P[Last(s)], x) /\ <<x, Last(s)>> \in Past
  PROVE  /\ Append(s, d) \in Seq(S) /\ Chained(Append(s, d), P, Past)
         /\ \A p : p \in ToVisit(Append(s, d), P, A)
                   <=> p \in ToVisit(s, P, A) \/ p \in Downwards(P[d], A[d])
<1> DEFINE N == Len(s)
           r == Append(s, d)
<1>0. PICK x \in Names : P[d] = Append(P[Last(s)], x) /\ <<x, Last(s)>> \in Past
  OBVIOUS
<1>1. N \in Nat /\ N >= 1 /\ Last(s) = s[N] /\ Last(s) \in S
  BY Tops
<1>2. r \in Seq(S) /\ Len(r) = N + 1 /\ r[N + 1] = d /\ \A a \in 1..N : r[a] = s[a]
  BY AppendProperties
<1>3. DOMAIN s = 1..N /\ DOMAIN r = 1..N + 1
  BY <1>1, <1>2
<1>4. P[Last(s)] \in Seq(Names)
  BY <1>1 DEF IsStack, DirPaths
<1>5. Goes(P[d], P[Last(s)], x)
  BY <1>0, <1>4, GoesOn, AppendProperties
<1>6. P[d] \in Seq(Names)
  BY DEF IsStack, DirPaths
<1> HIDE DEF N, r
<1>7. N \in 1..N + 1 /\ \A a \in 1..N + 1 : a = N + 1 \/ a \in 1..N
  BY <1>1
<1>8. Chained(r, P, Past)
  <2> SUFFICES ASSUME NEW a \in 1..N + 1, NEW b \in 1..N + 1, a < b
               PROVE  /\ Beyond(P[r[b]], P[r[a]])
                      /\ <<P[r[b]][Len(P[r[a]]) + 1], r[a]>> \in Past
    BY <1>3 DEF Chained
  <2>1. a \in 1..N /\ r[a] = s[a]
    BY <1>1, <1>2
  <2>2. CASE b \in 1..N
    BY <1>2, <1>3, <2>1, <2>2 DEF Chained
  <2>3. CASE b = N + 1 /\ a = N
    BY <1>0, <1>1, <1>2, <1>5, <2>1, <2>3 DEF Goes, Beyond
  <2>4. CASE b = N + 1 /\ a # N
    <3>1. a \in 1..Len(s) - 1
      BY <1>1, <2>1, <2>4 DEF N
    <3>2. /\ Beyond(P[d], P[s[a]])
          /\ <<P[d][Len(P[s[a]]) + 1], s[a]>> \in Past
      <4> HIDE DEF Chained
      <4> QED
        BY <1>5, <1>6, <3>1, Visiting
    <3> QED
      BY <1>2, <2>1, <2>4, <3>2
  <2> QED
    BY <1>7, <2>2, <2>3, <2>4
<1>9. ToVisit(r, P, A) = ToVisit(s, P, A) \cup Downwards(P[d], A[d])
  <2>1. ASSUME NEW p \in AllPaths
        PROVE  (\E a \in 1..N + 1 : \E y \in A[r[a]] : Goes(p, P[r[a]], y))
               <=> \/ \E a \in 1..N : \E y \in A[s[a]] : Goes(p, P[s[a]], y)
                   \/ \E y \in A[d] : Goes(p, P[d], y)
    <3>1. N + 1 \in 1..N + 1 /\ \A a \in 1..N : a \in 1..N + 1
      BY <1>1
    <3> QED
      BY <1>2, <1>7, <3>1
  <2> QED
    BY <1>3, <2>1 DEF ToVisit, Downwards
<1> QED
  BY <1>2, <1>8, <1>9 DEF r

LEMMA FirstCall ==
  ASSUME NEW S, NEW P, NEW A, NEW Past, NEW d \in S
  PROVE  /\ <<d>> \in Seq(S) /\ Chained(<<d>>, P, Past)
         /\ \A p : p \in ToVisit(<<d>>, P, A) <=> p \in Downwards(P[d], A[d])
<1>1. DOMAIN <<d>> = {1} /\ <<d>>[1] = d /\ <<d>> \in Seq(S)
  OBVIOUS
<1>2. \A a, b \in {1} : ~(a < b)
  OBVIOUS
<1> QED
  BY <1>1, <1>2 DEF Chained, ToVisit, Downwards

LEMMA NoCalls ==
  ASSUME NEW P, NEW A, NEW Past
  PROVE  Chained(<<>>, P, Past) /\ ToVisit(<<>>, P, A) = {}
<1>1. DOMAIN <<>> = {}
  OBVIOUS
<1> QED
  BY <1>1 DEF Chained, ToVisit

----------------------------------------------------------------------------
(* The order of a preview. *)
LEMMA SameSoFar ==
  ASSUME NEW p \in Seq(Names), NEW q \in Seq(Names), NEW k \in Nat, k <= Len(p), k <= Len(q)
  PROVE  SubSeq(p, 1, k) = SubSeq(q, 1, k) <=> \A i \in 1..k : p[i] = q[i]
<1>1. \A i \in 1..k : p[i] \in Names /\ q[i] \in Names
  OBVIOUS
<1>2. /\ SubSeq(p, 1, k) \in Seq(Names) /\ Len(SubSeq(p, 1, k)) = k
      /\ \A i \in 1..k : SubSeq(p, 1, k)[i] = p[i]
  BY <1>1, SubSeqProperties
<1>3. /\ SubSeq(q, 1, k) \in Seq(Names) /\ Len(SubSeq(q, 1, k)) = k
      /\ \A i \in 1..k : SubSeq(q, 1, k)[i] = q[i]
  BY <1>1, SubSeqProperties
<1>4. ASSUME SubSeq(p, 1, k) = SubSeq(q, 1, k) PROVE \A i \in 1..k : p[i] = q[i]
  BY <1>2, <1>3, <1>4
<1>5. ASSUME \A i \in 1..k : p[i] = q[i] PROVE SubSeq(p, 1, k) = SubSeq(q, 1, k)
  BY <1>2, <1>3, <1>5, SeqEqual
<1> QED
  BY <1>4, <1>5

LEMMA NodeOn ==
  ASSUME NEW t, IsTree(t), NEW p \in Paths(t), NEW k \in 1..Len(p)
  PROVE  /\ NodeAt(t, SubSeq(p, 1, k)) \in Contents(t, SubSeq(p, 1, k - 1))
         /\ NodeAt(t, SubSeq(p, 1, k)).name = p[k]
<1> DEFINE before == SubSeq(p, 1, k - 1)
<1>1. p \in Seq(Names) /\ NodesAt(t, p) # {} /\ Len(p) \in Nat /\ k \in Nat /\ k >= 1 /\ k <= Len(p)
  BY AllPathsAre DEF Paths
<1>2. p # <<>> /\ k - 1 \in 0..Len(p) - 1 /\ (k - 1) + 1 = k /\ k - 1 \in Nat /\ p[k] \in Names
  BY <1>1
<1>3. before \in Seq(Names)
  BY <1>1, <1>2
<1>4. SubSeq(p, 1, k) = Append(before, p[k])
  BY <1>1, <1>2
<1>5. \E n \in Contents(t, before) : n.name = p[k]
  <2>1. \E n \in Contents(t, SubSeq(p, 1, k - 1)) : n.name = p[(k - 1) + 1]
    BY <1>1, <1>2, WayTo
  <2> QED
    BY <1>2, <2>1
<1> DEFINE x == p[k]
<1>0. x \in Names
  BY <1>2
<1> HIDE DEF before, x
<1>6. NodesAt(t, Append(before, x)) = {n \in Contents(t, before) : n.name = x}
  BY <1>0, <1>3, AtAppend
<1>7. NodeAt(t, Append(before, x)) \in NodesAt(t, Append(before, x))
  BY <1>5, <1>6 DEF NodeAt, x
<1> QED
  BY <1>4, <1>6, <1>7 DEF before, x

LEMMA NotItself ==
  ASSUME NEW n \in TreeNodes
  PROVE  ~RowBefore(n, n)
<1>1. n.name \in Nat
  BY SubTree, TreesAssumption
<1> QED
  BY <1>1 DEF RowBefore

LEMMA OneWay ==
  ASSUME NEW m \in TreeNodes, NEW n \in TreeNodes, RowBefore(n, m)
  PROVE  ~RowBefore(m, n) /\ m # n
<1>1. m.name \in Nat /\ n.name \in Nat
  BY SubTree, TreesAssumption
<1> QED
  BY <1>1 DEF RowBefore, IsDir

\* Nothing precedes what is as far down the same way, or less far.
LEMMA SameWay ==
  ASSUME NEW t, IsTree(t), NEW p \in Paths(t), NEW q \in Seq(Names), NEW k \in DOMAIN p \cap DOMAIN q,
         \A i \in 1..k : p[i] = q[i]
  PROVE  ~RowBefore(NodeAt(t, SubSeq(p, 1, k)), NodeAt(t, SubSeq(q, 1, k)))
<1>1. p \in Seq(Names) /\ k \in 1..Len(p) /\ k \in 1..Len(q) /\ k \in Nat /\ k <= Len(p) /\ k <= Len(q)
  BY AllPathsAre DEF Paths
<1>2. SubSeq(p, 1, k) = SubSeq(q, 1, k)
  BY <1>1, SameSoFar
<1>3. NodeAt(t, SubSeq(p, 1, k)) \in TreeNodes
  <2>1. SubSeq(p, 1, k - 1) \in Seq(Names)
    BY <1>1
  <2>2. Contents(t, SubSeq(p, 1, k - 1)) \subseteq TreeNodes
    BY <2>1, ContentsType DEF IsTree
  <2> QED
    BY <1>1, <2>2, NodeOn
<1> QED
  BY <1>2, <1>3, NotItself

LEMMA NotAbove ==
  ASSUME NEW t, IsTree(t), NEW p \in Paths(t), NEW q \in Seq(Names), p = q \/ Beyond(p, q)
  PROVE  ~Precedes(t, p, q)
<1>1. p \in Seq(Names) /\ Len(p) \in Nat /\ Len(q) \in Nat /\ Len(q) <= Len(p)
      /\ \A i \in 1..Len(q) : p[i] = q[i]
  BY AllPathsAre DEF Paths, Beyond
<1>2. ~(p # q /\ IsPrefix(p, q))
  BY <1>1 DEF IsPrefix, Beyond
<1>3. ASSUME NEW k \in DOMAIN p \cap DOMAIN q
      PROVE  ~RowBefore(NodeAt(t, SubSeq(p, 1, k)), NodeAt(t, SubSeq(q, 1, k)))
  <2>1. \A i \in 1..k : i \in 1..Len(q)
    BY <1>1
  <2> QED
    BY <1>1, <2>1, SameWay
<1> QED
  BY <1>2, <1>3 DEF Precedes

\* Of two rows of a directory the later one, with what is in it, does not precede.
LEMMA NotBefore ==
  ASSUME NEW t, IsTree(t), NEW path \in Seq(Names),
         NEW m \in Contents(t, path), NEW n \in Contents(t, path), RowBefore(n, m),
         NEW p \in Paths(t), NEW q \in Paths(t), Goes(p, path, m.name), Goes(q, path, n.name)
  PROVE  ~Precedes(t, p, q)
<1> DEFINE L == Len(path)
<1>1. p \in Seq(Names) /\ q \in Seq(Names) /\ Len(p) \in Nat /\ Len(q) \in Nat /\ L \in Nat
      /\ p \in AllPaths
  BY AllPathsAre DEF Paths
<1>2. m \in TreeNodes /\ n \in TreeNodes
  BY ContentsType DEF IsTree
<1>3. m.name # n.name /\ ~RowBefore(m, n)
  BY <1>2, OneWay, ContentsUnique DEF UniqueNames
<1>4. L < Len(p) /\ L < Len(q) /\ (\A i \in 1..L : p[i] = path[i] /\ q[i] = path[i])
      /\ p[L + 1] = m.name /\ q[L + 1] = n.name
  BY DEF Goes
<1> HIDE DEF L
<1>5. ~IsPrefix(p, q)
  <2> SUFFICES ASSUME IsPrefix(p, q) PROVE FALSE
    OBVIOUS
  <2>1. Len(p) <= Len(q) /\ SubSeq(p, 1, Len(p)) = SubSeq(q, 1, Len(p))
    BY <1>1 DEF IsPrefix
  <2>2. \A i \in 1..Len(p) : p[i] = q[i]
    BY <1>1, <2>1, SameSoFar
  <2>3. L + 1 \in 1..Len(p)
    BY <1>1, <1>4
  <2> QED
    BY <1>3, <1>4, <2>2, <2>3
<1>6. ASSUME NEW k \in DOMAIN p \cap DOMAIN q, SubSeq(p, 1, k - 1) = SubSeq(q, 1, k - 1),
             RowBefore(NodeAt(t, SubSeq(p, 1, k)), NodeAt(t, SubSeq(q, 1, k)))
      PROVE  FALSE
  <2>1. k \in Nat /\ k >= 1 /\ k <= Len(p) /\ k <= Len(q) /\ k \in 1..Len(p) /\ k \in 1..Len(q)
    BY <1>1
  <2>2. \A i \in 1..k - 1 : p[i] = q[i]
    <3>1. k - 1 \in Nat /\ k - 1 <= Len(p) /\ k - 1 <= Len(q)
      BY <2>1, <1>1
    <3> HIDE DEF L
    <3> QED
      BY <1>1, <1>6, <3>1, SameSoFar
  <2>3. k <= L + 1
    <3> SUFFICES ASSUME k > L + 1 PROVE FALSE
      BY <1>1, <2>1
    <3>1. L + 1 \in 1..k - 1
      BY <1>1, <2>1
    <3> QED
      BY <1>3, <1>4, <2>2, <3>1
  <2>4. CASE k = L + 1
    <3>1. SubSeq(p, 1, k - 1) = path /\ SubSeq(q, 1, k - 1) = path
      <4>1. k - 1 = Len(path)
        BY <1>1, <2>4 DEF L
      <4> QED
        BY <1>1, <1>4, <4>1, SamePrefix DEF L
    <3>2. NodeAt(t, SubSeq(p, 1, k)) \in Contents(t, path) /\ NodeAt(t, SubSeq(p, 1, k)).name = m.name
      <4>1. /\ NodeAt(t, SubSeq(p, 1, k)) \in Contents(t, SubSeq(p, 1, k - 1))
            /\ NodeAt(t, SubSeq(p, 1, k)).name = p[k]
        BY <2>1, NodeOn
      <4> QED
        BY <1>4, <2>4, <3>1, <4>1
    <3>3. NodeAt(t, SubSeq(q, 1, k)) \in Contents(t, path) /\ NodeAt(t, SubSeq(q, 1, k)).name = n.name
      <4>1. /\ NodeAt(t, SubSeq(q, 1, k)) \in Contents(t, SubSeq(q, 1, k - 1))
            /\ NodeAt(t, SubSeq(q, 1, k)).name = q[k]
        BY <2>1, NodeOn
      <4> QED
        BY <1>4, <2>4, <3>1, <4>1
    <3>4. NodeAt(t, SubSeq(p, 1, k)) = m /\ NodeAt(t, SubSeq(q, 1, k)) = n
      BY <3>2, <3>3, ContentsUnique DEF UniqueNames
    <3> QED
      BY <1>3, <1>6, <3>4
  <2>5. CASE k <= L
    <3>1. \A i \in 1..k : i \in 1..L
      BY <1>1, <2>1, <2>5
    <3>2. \A i \in 1..k : p[i] = q[i]
      BY <1>4, <3>1
    <3> QED
      BY <1>1, <1>6, <3>2, SameWay
  <2> QED
    BY <1>1, <2>1, <2>3, <2>4, <2>5
<1> QED
  BY <1>5, <1>6 DEF Precedes

----------------------------------------------------------------------------
(* What is shown: entries and changes have a path. *)
ShownIn(o) == {o[i].path : i \in DOMAIN o}
Once(o) == \A i, j \in DOMAIN o : o[i].path = o[j].path => i = j

LEMMA OneMore ==
  ASSUME NEW E, NEW o \in Seq(E), NEW e \in E, Once(o), e.path \notin ShownIn(o)
  PROVE  /\ Append(o, e) \in Seq(E) /\ Once(Append(o, e))
         /\ ShownIn(Append(o, e)) = ShownIn(o) \cup {e.path}
<1> DEFINE r == Append(o, e)
           N == Len(o)
<1>1. r \in Seq(E) /\ Len(r) = N + 1 /\ r[N + 1] = e /\ (\A i \in 1..N : r[i] = o[i]) /\ N \in Nat
  BY AppendProperties
<1>2. DOMAIN o = 1..N /\ DOMAIN r = 1..N + 1
  BY <1>1
<1> HIDE DEF r, N
<1>3. N + 1 \in 1..N + 1 /\ \A i \in 1..N + 1 : i = N + 1 \/ i \in 1..N
  BY <1>1
<1>4. \A i \in 1..N : i \in 1..N + 1 /\ r[i] = o[i] /\ r[i].path # e.path
  BY <1>1, <1>2 DEF ShownIn
<1>5. ShownIn(r) = ShownIn(o) \cup {e.path}
  BY <1>1, <1>2, <1>3, <1>4 DEF ShownIn
<1>6. Once(r)
  <2> SUFFICES ASSUME NEW i \in 1..N + 1, NEW j \in 1..N + 1, r[i].path = r[j].path PROVE i = j
    BY <1>2 DEF Once
  <2> QED
    BY <1>1, <1>2, <1>3, <1>4 DEF Once
<1> QED
  BY <1>1, <1>5, <1>6 DEF r

\* What is under a name is on the way by it.
LEMMA WayBy ==
  ASSUME NEW path \in Seq(Names), NEW x \in Names, NEW A \in SUBSET Names
  PROVE  \A p \in Downwards(Append(path, x), A) :
           p \in AllPaths /\ Goes(p, path, x) /\ p # Append(path, x)
<1> SUFFICES ASSUME NEW p \in Downwards(Append(path, x), A)
             PROVE  p \in AllPaths /\ Goes(p, path, x) /\ p # Append(path, x)
  OBVIOUS
<1> DEFINE q == Append(path, x)
<1>1. q \in Seq(Names)
  OBVIOUS
<1> HIDE DEF q
<1>2. p \in AllPaths /\ p \in Seq(Names) /\ Beyond(p, q)
  BY AllPathsAre DEF Downwards, Goes, Beyond, q
<1>3. p # q
  BY <1>1, <1>2 DEF Beyond
<1>4. Goes(p, path, x)
  BY <1>2, GoesOn DEF q
<1> QED
  BY <1>2, <1>3, <1>4 DEF q

\* The paths of a tree that are on the way by a node: its own, and those under it.
LEMMA Onward ==
  ASSUME NEW t, IsTree(t), NEW path \in Seq(Names), NEW n \in Contents(t, path),
         NEW p \in Paths(t), Goes(p, path, n.name), p # Within(path, n)
  PROVE  p \in Downwards(Within(path, n), {m.name : m \in Children(n)})
<1> DEFINE q == Within(path, n)
<1>1. n.name \in Names /\ p \in AllPaths /\ p \in Seq(Names)
  BY NodeIs, AllPathsAre DEF Paths
<1>2. q \in Seq(Names)
  BY <1>1 DEF Within
<1>3. Beyond(p, q)
  BY <1>1, GoesOn DEF Within
<1>4. Contents(t, q) = Children(n)
  BY ContentsBelow DEF Within
<1> HIDE DEF q
<1>5. \E m \in Children(n) : Goes(p, q, m.name)
  BY <1>2, <1>3, <1>4, NextOn
<1> QED
  BY <1>1, <1>5 DEF Downwards, q

----------------------------------------------------------------------------
(* Preview. *)
RowCalls(t) ==
  {c \in [path : DirPaths, left : SUBSET TreeNodes] : c.left \subseteq Contents(t, c.path)}
RowPaths(t) == [c \in RowCalls(t) |-> c.path]
RowNames(t) == [c \in RowCalls(t) |-> {m.name : m \in c.left}]

\* A call is past a row when it comes before all those left.
RowsPast(t) ==
  {e \in Names \X RowCalls(t) :
     \E v \in Contents(t, e[2].path) : v.name = e[1] /\ \A m \in e[2].left : RowBefore(v, m)}

Entries(t) == {[path |-> p, kind |-> NodeAt(t, p).kind] : p \in Paths(t)}
RowsToCome(t) == ToVisit(calls, RowPaths(t), RowNames(t))

\* The inductive invariant of a preview: the calls that have not returned have
\* ahead of them what is not shown yet, and all of it comes after what is shown.
PreviewState(t, limit) ==
  /\ calls \in Seq(RowCalls(t)) /\ Chained(calls, RowPaths(t), RowsPast(t))
  /\ out \in Seq(Entries(t)) /\ Once(out)
  /\ truncated \in BOOLEAN /\ Len(out) <= limit /\ (truncated => Len(out) = limit)
  /\ ShownIn(out) \cap RowsToCome(t) = {}
  /\ ~truncated => Paths(t) \subseteq ShownIn(out) \cup RowsToCome(t)
  /\ \A i \in DOMAIN out : \A p \in Paths(t) :
       Precedes(t, p, out[i].path) => \E j \in 1..i - 1 : out[j].path = p

PreviewInv ==
  walk.op = "preview" =>
    /\ walk.tree \in Trees /\ walk.limit \in Nat
    /\ PreviewState(walk.tree, walk.limit)

LEMMA TreesAre ==
  ASSUME NEW t \in Trees
  PROVE  IsTree(t) /\ ToSet(t) \subseteq TreeNodes
BY TreesAssumption DEF IsTree, ToSet

LEMMA RowStack ==
  ASSUME NEW t \in Trees
  PROVE  IsStack(RowCalls(t), RowPaths(t), RowNames(t), RowsPast(t))
<1>1. IsTree(t)
  BY TreesAre
<1>2. ASSUME NEW c \in RowCalls(t)
      PROVE  /\ c.path \in DirPaths /\ c.path \in Seq(Names)
             /\ c.left \subseteq TreeNodes /\ c.left \subseteq Contents(t, c.path)
  BY DEF RowCalls, DirPaths
<1>3. RowPaths(t) \in [RowCalls(t) -> DirPaths]
  BY <1>2 DEF RowPaths
<1>4. RowNames(t) \in [RowCalls(t) -> SUBSET Names]
  <2>1. ASSUME NEW c \in RowCalls(t) PROVE {m.name : m \in c.left} \subseteq Names
    BY <1>2, SubTree
  <2> QED
    BY <2>1 DEF RowNames
<1>5. ASSUME NEW c \in RowCalls(t), NEW x \in RowNames(t)[c], <<x, c>> \in RowsPast(t) PROVE FALSE
  <2>1. PICK m \in c.left : x = m.name
    BY <1>5 DEF RowNames
  <2>2. PICK v \in Contents(t, c.path) : v.name = x /\ RowBefore(v, m)
    BY <1>5, <2>1 DEF RowsPast
  <2>3. m \in Contents(t, c.path) /\ UniqueNames(Contents(t, c.path)) /\ m \in TreeNodes
    BY <1>1, <1>2, <2>1, ContentsUnique
  <2>4. v = m
    BY <2>1, <2>2, <2>3 DEF UniqueNames
  <2> QED
    BY <2>2, <2>3, <2>4, NotItself
<1> QED
  BY <1>3, <1>4, <1>5 DEF IsStack

\* The call after it came to a row.
After(c, n) == Rows(c.path, c.left \ {n})

\* A call that comes to its first row: what it has ahead of it then, and that
\* nothing the calls had ahead of them precedes that row.
LEMMA ToRow ==
  ASSUME NEW t \in Trees, NEW s \in Seq(RowCalls(t)), s # <<>>,
         Chained(s, RowPaths(t), RowsPast(t)), NEW n \in Last(s).left, IsFirst(n, Last(s).left)
  PROVE  LET c == Last(s)
             q == Within(c.path, n)
             r == Append(Front(s), After(c, n))
         IN /\ r \in Seq(RowCalls(t)) /\ Chained(r, RowPaths(t), RowsPast(t))
            /\ r # <<>> /\ Last(r) = After(c, n)
            /\ After(c, n) \in RowCalls(t) /\ <<n.name, After(c, n)>> \in RowsPast(t)
            /\ ToVisit(r, RowPaths(t), RowNames(t))
                 = {p \in ToVisit(s, RowPaths(t), RowNames(t)) : ~Goes(p, c.path, n.name)}
            /\ c.path \in DirPaths /\ n \in Contents(t, c.path)
            /\ q \in ToVisit(s, RowPaths(t), RowNames(t)) /\ Goes(q, c.path, n.name)
            /\ \A p \in Paths(t) \cap ToVisit(s, RowPaths(t), RowNames(t)) : ~Precedes(t, p, q)
<1> DEFINE c == Last(s)
           q == Within(c.path, n)
           d == After(c, n)
           S == RowCalls(t)
           P == RowPaths(t)
           A == RowNames(t)
           Past == RowsPast(t)
           N == Len(s)
<1>1. /\ N \in Nat /\ N \in DOMAIN s /\ c = s[N] /\ c \in S
      /\ (\A a \in 1..N - 1 : s[a] \in S)
      /\ Front(s) \in Seq(S) /\ DOMAIN s = 1..N
  BY Tops
<1>2. /\ c.path \in DirPaths /\ c.path \in Seq(Names) /\ c.left \subseteq TreeNodes
      /\ c.left \subseteq Contents(t, c.path) /\ IsTree(t) /\ IsStack(S, P, A, Past)
  BY <1>1, TreesAre, RowStack DEF RowCalls, DirPaths
<1>3. /\ n \in TreeNodes /\ n \in Contents(t, c.path) /\ n.name \in Names
      /\ UniqueNames(Contents(t, c.path)) /\ q \in Paths(t)
  BY <1>2, SubTree, ContentsUnique, PathTo
<1>4. /\ d \in S /\ P[d] = c.path /\ P[c] = c.path /\ A[c] = {m.name : m \in c.left}
      /\ A[d] = {m.name : m \in c.left \ {n}} /\ d.path = c.path /\ d.left = c.left \ {n}
  BY <1>1, <1>2 DEF After, Rows, RowCalls, RowPaths, RowNames
<1>5. A[d] = A[c] \ {n.name}
  <2>1. \A m \in c.left : m.name = n.name => m = n
    BY <1>2, <1>3 DEF UniqueNames
  <2> HIDE DEF c, d, A
  <2> QED
    BY <1>4, <2>1
<1>6. Goes(q, c.path, n.name) /\ q \in Seq(Names) /\ q \in AllPaths
  <2>1. q \in Seq(Names)
    BY <1>2, <1>3 DEF Within
  <2> QED
    BY <1>2, <1>3, <2>1, GoesOn DEF Within, Paths
<1>7. <<n.name, d>> \in Past
  BY <1>3, <1>4 DEF RowsPast, IsFirst
<1>8. q \in ToVisit(s, P, A)
  <2>1. n.name \in A[c]
    BY <1>4
  <2> HIDE DEF c, A, P, q, N
  <2> QED
    BY <1>1, <1>4, <1>6, <2>1 DEF ToVisit
<1>9. ASSUME NEW p \in Paths(t), p \in ToVisit(s, P, A) PROVE ~Precedes(t, p, q)
  <2>1. PICK a \in 1..N : \E x \in A[s[a]] : Goes(p, P[s[a]], x)
    BY <1>1, <1>9 DEF ToVisit
  <2>2. s[a] \in S /\ P[s[a]] = s[a].path /\ A[s[a]] = {m.name : m \in s[a].left}
        /\ s[a].path \in Seq(Names) /\ s[a].left \subseteq Contents(t, s[a].path)
    BY <1>1 DEF RowPaths, RowNames, RowCalls, DirPaths
  <2>3. PICK m \in s[a].left : Goes(p, s[a].path, m.name)
    BY <2>1, <2>2
  <2>4. p \in Seq(Names)
    BY AllPathsAre DEF Paths
  <2>5. CASE a = N /\ m = n
    <3>1. p = q \/ Beyond(p, q)
      BY <1>1, <1>2, <1>3, <2>3, <2>4, <2>5, GoesOn DEF Within
    <3> HIDE DEF q
    <3> QED
      BY <1>2, <1>6, <3>1, NotAbove
  <2>6. CASE a = N /\ m # n
    <3>1. RowBefore(n, m) /\ m \in Contents(t, c.path) /\ Goes(p, c.path, m.name)
      BY <1>1, <1>2, <2>3, <2>6 DEF IsFirst
    <3> HIDE DEF q, c
    <3> QED
      BY <1>2, <1>3, <1>6, <3>1, NotBefore
  <2>7. CASE a # N
    <3>1. a \in 1..Len(s) - 1
      BY <1>1, <2>7
    <3>2. Beyond(q, P[s[a]]) /\ <<q[Len(P[s[a]]) + 1], s[a]>> \in Past
      <4>1. Goes(q, P[Last(s)], n.name)
        BY <1>4, <1>6
      <4> HIDE DEF q, P, A, Past, S
      <4> QED
        BY <1>2, <1>6, <3>1, <4>1, Visiting DEF S, P, A, Past
    <3>3. PICK v \in Contents(t, s[a].path) :
            v.name = q[Len(s[a].path) + 1] /\ \A k \in s[a].left : RowBefore(v, k)
      BY <2>2, <3>2 DEF RowsPast
    <3>4. Goes(q, s[a].path, v.name) /\ RowBefore(v, m) /\ m \in Contents(t, s[a].path)
      BY <2>2, <2>3, <3>2, <3>3 DEF Beyond, Goes
    <3> HIDE DEF q
    <3> QED
      BY <1>2, <1>3, <2>2, <2>3, <3>4, NotBefore
  <2> QED
    BY <2>5, <2>6, <2>7
<1> DEFINE r == Append(Front(s), d)
<1>10. r \in Seq(S) /\ Chained(r, P, Past)
       /\ ToVisit(r, P, A) = {p \in ToVisit(s, P, A) : ~Goes(p, P[d], n.name)}
  <2>1. P[d] = P[Last(s)] /\ A[d] = A[Last(s)] \ {n.name}
    BY <1>4, <1>5
  <2> HIDE DEF S, P, A, Past, d
  <2> QED
    BY <1>2, <1>3, <1>4, <2>1, Visited DEF S, P, A, Past
<1>11. r # <<>> /\ Last(r) = d
  <2> HIDE DEF d
  <2> QED
    BY <1>1, <1>4, FrontLastAppend, AppendProperties
<1> QED
  BY <1>2, <1>3, <1>4, <1>6, <1>7, <1>8, <1>9, <1>10, <1>11

LEMMA EntryOf ==
  ASSUME NEW t \in Trees, NEW path \in DirPaths, NEW n \in Contents(t, path)
  PROVE  [path |-> Within(path, n), kind |-> n.kind] \in Entries(t)
<1>1. Within(path, n) \in Paths(t) /\ NodeAt(t, Within(path, n)) = n
  BY TreesAre, PathTo, NodeIs DEF DirPaths
<1> QED
  BY <1>1 DEF Entries

\* What is under a directory is ahead of the call for it.
LEMMA ToRowsBelow ==
  ASSUME NEW t \in Trees, NEW r \in Seq(RowCalls(t)), r # <<>>,
         Chained(r, RowPaths(t), RowsPast(t)),
         NEW n \in Contents(t, Last(r).path), <<n.name, Last(r)>> \in RowsPast(t), n.sub # <<>>
  PROVE  LET q == Within(Last(r).path, n)
             e == Rows(q, ToSet(n.sub[1]))
         IN /\ Append(r, e) \in Seq(RowCalls(t))
            /\ Chained(Append(r, e), RowPaths(t), RowsPast(t))
            /\ ToVisit(Append(r, e), RowPaths(t), RowNames(t))
                 = ToVisit(r, RowPaths(t), RowNames(t))
                   \cup Downwards(q, {m.name : m \in Children(n)})
<1> DEFINE S == RowCalls(t)
           P == RowPaths(t)
           A == RowNames(t)
           Past == RowsPast(t)
           c == Last(r)
           q == Within(c.path, n)
           e == Rows(q, ToSet(n.sub[1]))
<1>1. c \in S /\ c.path \in DirPaths /\ c.path \in Seq(Names) /\ IsTree(t) /\ IsStack(S, P, A, Past)
  <2>1. c \in S
    BY Tops
  <2> HIDE DEF c
  <2> QED
    BY <2>1, TreesAre, RowStack DEF RowCalls, DirPaths
<1>2. n \in TreeNodes /\ n.name \in Names /\ q \in DirPaths /\ q = Append(c.path, n.name)
  BY <1>1, NodeIs, PathTo DEF Within
<1>3. Contents(t, q) = Children(n) /\ Children(n) = ToSet(n.sub[1])
  BY <1>1, <1>2, ContentsBelow DEF Children
<1>4. ToSet(n.sub[1]) \subseteq TreeNodes
  <2>1. n.sub[1] \in Seq(TreeNodes)
    BY <1>2, SubTree DEF IsTree
  <2> QED
    BY <2>1 DEF ToSet
<1> HIDE DEF q, c
<1>5. e \in S
  BY <1>2, <1>3, <1>4 DEF Rows, RowCalls
<1>6. P[e] = q /\ A[e] = {m.name : m \in Children(n)} /\ P[c] = c.path
  BY <1>1, <1>3, <1>5 DEF Rows, RowPaths, RowNames
<1>7. /\ Append(r, e) \in Seq(S) /\ Chained(Append(r, e), P, Past)
      /\ \A p : p \in ToVisit(Append(r, e), P, A) <=> p \in ToVisit(r, P, A) \/ p \in Downwards(P[e], A[e])
  <2>1. P[e] = Append(P[Last(r)], n.name) /\ <<n.name, Last(r)>> \in Past
    BY <1>2, <1>6 DEF c
  <2>2. r \in Seq(S) /\ Chained(r, P, Past)
    OBVIOUS
  <2>3. \E x \in Names : P[e] = Append(P[Last(r)], x) /\ <<x, Last(r)>> \in Past
    BY <1>2, <2>1
  <2> HIDE DEF S, P, A, Past, e
  <2> QED
    BY <1>1, <1>5, <2>2, <2>3, Called
<1> QED
  BY <1>6, <1>7 DEF c, q

LEMMA RowKeeps ==
  ASSUME NEW t \in Trees, NEW limit \in Nat, PreviewState(t, limit), calls # <<>>,
         Len(out) < limit, NEW n \in Call.left, IsFirst(n, Call.left),
         out' = Append(out, [path |-> Within(Call.path, n), kind |-> n.kind]),
         LET rest == Append(Callers, After(Call, n))
         IN \/ n.sub # <<>> /\ Len(out') >= limit /\ calls' = rest /\ truncated'
            \/ /\ n.sub # <<>> /\ truncated' = truncated
               /\ calls' = Append(rest, Rows(Within(Call.path, n), ToSet(n.sub[1])))
            \/ n.sub = <<>> /\ calls' = rest /\ truncated' = truncated
  PROVE  PreviewState(t, limit)'
<1> DEFINE c == Call
           q == Within(c.path, n)
           r == Append(Callers, After(c, n))
           P == RowPaths(t)
           A == RowNames(t)
           Past == RowsPast(t)
           e == [path |-> q, kind |-> n.kind]
           Below == Downwards(q, {m.name : m \in Children(n)})
<1>1. /\ calls \in Seq(RowCalls(t)) /\ Chained(calls, P, Past)
      /\ out \in Seq(Entries(t)) /\ Once(out) /\ Len(out) \in Nat /\ ~truncated
      /\ ShownIn(out) \cap ToVisit(calls, P, A) = {}
      /\ Paths(t) \subseteq ShownIn(out) \cup ToVisit(calls, P, A)
      /\ \A i \in DOMAIN out : \A p \in Paths(t) :
           Precedes(t, p, out[i].path) => \E j \in 1..i - 1 : out[j].path = p
  <2> HIDE DEF P, A, Past
  <2>1. /\ calls \in Seq(RowCalls(t)) /\ Chained(calls, P, Past)
        /\ out \in Seq(Entries(t)) /\ Once(out)
        /\ ShownIn(out) \cap ToVisit(calls, P, A) = {}
        /\ Paths(t) \subseteq ShownIn(out) \cup ToVisit(calls, P, A)
    BY DEF PreviewState, RowsToCome, P, A, Past
  <2>2. \A i \in DOMAIN out : \A p \in Paths(t) :
          Precedes(t, p, out[i].path) => \E j \in 1..i - 1 : out[j].path = p
    BY DEF PreviewState
  <2>3. ~truncated
    BY DEF PreviewState
  <2>4. Len(out) \in Nat
    BY <2>1
  <2> QED
    BY <2>1, <2>2, <2>3, <2>4
<1>2. /\ r \in Seq(RowCalls(t)) /\ Chained(r, P, Past)
      /\ r # <<>> /\ Last(r) = After(c, n)
      /\ After(c, n) \in RowCalls(t) /\ <<n.name, After(c, n)>> \in Past
      /\ ToVisit(r, P, A) = {p \in ToVisit(calls, P, A) : ~Goes(p, c.path, n.name)}
      /\ c.path \in DirPaths /\ n \in Contents(t, c.path)
      /\ q \in ToVisit(calls, P, A) /\ Goes(q, c.path, n.name)
      /\ \A p \in Paths(t) \cap ToVisit(calls, P, A) : ~Precedes(t, p, q)
  BY <1>1, ToRow DEF Call, Callers
<1>3. Last(r).path = c.path
  <2> HIDE DEF r
  <2> QED
    BY <1>2 DEF After, Rows
<1>4. IsTree(t) /\ c.path \in Seq(Names) /\ n.name \in Names /\ n \in TreeNodes
      /\ Children(n) \subseteq TreeNodes
  <2>1. IsTree(t) /\ c.path \in Seq(Names) /\ n.name \in Names /\ n \in TreeNodes
    BY <1>2, TreesAre, NodeIs DEF DirPaths
  <2>2. n.sub # <<>> => n.sub[1] \in Seq(TreeNodes)
    BY <2>1, SubTree DEF IsTree
  <2> QED
    BY <2>1, <2>2 DEF Children, ToSet
<1>5. e \in Entries(t) /\ q \in Paths(t)
  BY <1>2, EntryOf, PathTo
<1>6. /\ out' \in Seq(Entries(t)) /\ Once(out') /\ ShownIn(out') = ShownIn(out) \cup {q}
      /\ Len(out') = Len(out) + 1 /\ out'[Len(out) + 1] = e
      /\ \A i \in 1..Len(out) : out'[i] = out[i]
  <2>1. e.path = q /\ e.path \notin ShownIn(out)
    BY <1>1, <1>2
  <2> HIDE DEF e, q
  <2>2. out' = Append(out, e)
    BY DEF e, q
  <2> QED
    BY <1>1, <1>5, <2>1, <2>2, OneMore, AppendProperties
<1>8. \A p \in Below : p \in ToVisit(calls, P, A) /\ p # q
  <2>1. {m.name : m \in Children(n)} \in SUBSET Names
    BY <1>4, SubTree
  <2>2. \A p \in Below : p \in AllPaths /\ Goes(p, c.path, n.name) /\ p # q
    BY <1>4, <2>1, WayBy DEF Within
  <2>3. \A p \in AllPaths : Goes(p, c.path, n.name) => p \in ToVisit(calls, P, A)
    <3>1. Len(calls) \in DOMAIN calls /\ c = calls[Len(calls)] /\ c \in RowCalls(t)
      BY <1>1, Tops DEF Call
    <3>2. P[c] = c.path /\ n.name \in A[c]
      BY <3>1 DEF RowPaths, RowNames
    <3> HIDE DEF c, P, A
    <3> QED
      BY <3>1, <3>2 DEF ToVisit
  <2> QED
    BY <2>2, <2>3
<1>9. \A p \in Paths(t) : Goes(p, c.path, n.name) => p = q \/ p \in Below
  BY <1>2, <1>4, Onward
<1>10. /\ calls' \in Seq(RowCalls(t)) /\ Chained(calls', P, Past)
       /\ \/ truncated' /\ Len(out') >= limit /\ ToVisit(calls', P, A) = ToVisit(r, P, A)
          \/ /\ ~truncated' /\ \A p \in Paths(t) : Goes(p, c.path, n.name) => p = q \/ p \in ToVisit(calls', P, A)
             /\ ToVisit(r, P, A) \subseteq ToVisit(calls', P, A)
       /\ ToVisit(calls', P, A) \subseteq ToVisit(r, P, A) \cup Below
  <2> HIDE DEF Below, P, A, Past, q, c, r
  <2>1. CASE n.sub # <<>> /\ Len(out') >= limit /\ calls' = r /\ truncated'
    BY <1>2, <2>1
  <2>2. CASE n.sub # <<>> /\ truncated' = truncated /\ calls' = Append(r, Rows(q, ToSet(n.sub[1])))
    <3>1. /\ calls' \in Seq(RowCalls(t)) /\ Chained(calls', P, Past)
          /\ ToVisit(calls', P, A) = ToVisit(r, P, A) \cup Below
      <4>1. n \in Contents(t, Last(r).path) /\ <<n.name, Last(r)>> \in RowsPast(t)
            /\ Chained(r, RowPaths(t), RowsPast(t)) /\ q = Within(Last(r).path, n)
        BY <1>2, <1>3 DEF P, Past, q
      <4> QED
        BY <1>2, <2>2, <4>1, ToRowsBelow DEF P, A, Past, Below
    <3> QED
      BY <1>1, <1>9, <2>2, <3>1
  <2>3. CASE n.sub = <<>> /\ calls' = r /\ truncated' = truncated
    <3>1. Below = {}
      BY <2>3 DEF Below, Children, Downwards
    <3> QED
      BY <1>1, <1>2, <1>9, <2>3, <3>1
  <2> QED
    BY <2>1, <2>2, <2>3 DEF r, c, q
<1> HIDE DEF Below, P, A, Past, q, c, r, e
<1>11. Len(out') <= limit /\ (truncated' => Len(out') = limit)
  BY <1>1, <1>6, <1>10
<1>12. ShownIn(out') \cap ToVisit(calls', P, A) = {}
  BY <1>1, <1>2, <1>6, <1>8, <1>10
<1>13. ~truncated' => Paths(t) \subseteq ShownIn(out') \cup ToVisit(calls', P, A)
  BY <1>1, <1>2, <1>6, <1>10
<1>14. ASSUME NEW i \in DOMAIN out', NEW p \in Paths(t), Precedes(t, p, out'[i].path)
       PROVE  \E j \in 1..i - 1 : out'[j].path = p
  <2>1. DOMAIN out = 1..Len(out) /\ DOMAIN out' = 1..Len(out) + 1
    BY <1>1, <1>6
  <2>2. CASE i = Len(out) + 1
    <3>1. Precedes(t, p, q)
      BY <1>6, <1>14, <2>2 DEF e
    <3>2. p \in ShownIn(out)
      BY <1>1, <1>2, <3>1
    <3>3. PICK j \in 1..Len(out) : out[j].path = p
      BY <2>1, <3>2 DEF ShownIn
    <3>4. j \in 1..i - 1
      BY <1>1, <2>2
    <3> QED
      BY <1>6, <3>3, <3>4
  <2>3. CASE i # Len(out) + 1
    <3>1. i \in 1..Len(out) /\ out'[i] = out[i]
      BY <1>1, <1>6, <2>1, <2>3
    <3>2. PICK j \in 1..i - 1 : out[j].path = p
      BY <1>1, <1>14, <2>1, <3>1
    <3>3. j \in 1..Len(out)
      BY <1>1, <3>1
    <3> QED
      BY <1>6, <3>2, <3>3
  <2> QED
    BY <2>2, <2>3
<1> QED
  BY <1>6, <1>10, <1>11, <1>12, <1>13, <1>14 DEF PreviewState, RowsToCome, P, A, Past

LEMMA ReturnKeeps ==
  ASSUME NEW t \in Trees, NEW limit \in Nat, PreviewState(t, limit), calls # <<>>,
         calls' = Callers, out' = out,
         \/ Call.left = {} /\ truncated' = truncated
         \/ Len(out) >= limit /\ truncated' = TRUE
  PROVE  PreviewState(t, limit)'
<1> DEFINE S == RowCalls(t)
           P == RowPaths(t)
           A == RowNames(t)
           Past == RowsPast(t)
<1>1. /\ calls \in Seq(S) /\ Chained(calls, P, Past)
      /\ out \in Seq(Entries(t)) /\ Once(out) /\ Len(out) \in Nat
      /\ truncated \in BOOLEAN /\ Len(out) <= limit /\ (truncated => Len(out) = limit)
      /\ ShownIn(out) \cap ToVisit(calls, P, A) = {}
      /\ (~truncated => Paths(t) \subseteq ShownIn(out) \cup ToVisit(calls, P, A))
      /\ \A i \in DOMAIN out : \A p \in Paths(t) :
           Precedes(t, p, out[i].path) => \E j \in 1..i - 1 : out[j].path = p
  BY DEF PreviewState, RowsToCome
<1>2. Call \in S /\ Call = Last(calls)
  BY <1>1, Tops DEF Call
<1>3. Call.left = {} => A[Last(calls)] = {}
  BY <1>2 DEF RowNames
<1> HIDE DEF S, P, A, Past
<1>4. /\ Callers \in Seq(S) /\ Chained(Callers, P, Past)
      /\ ToVisit(Callers, P, A) \subseteq ToVisit(calls, P, A)
      /\ A[Last(calls)] = {} => ToVisit(calls, P, A) \subseteq ToVisit(Callers, P, A)
  BY <1>1, Returned DEF Callers
<1>5. truncated' \in BOOLEAN /\ (truncated' => Len(out) = limit)
  <2>1. CASE Call.left = {} /\ truncated' = truncated
    BY <1>1, <2>1
  <2>2. CASE Len(out) >= limit /\ truncated' = TRUE
    <3>1. Len(out) = limit
      BY <1>1, <2>2
    <3> QED
      BY <2>2, <3>1
  <2> QED
    BY <2>1, <2>2
<1>6. ~truncated' => ~truncated /\ Call.left = {}
  OBVIOUS
<1>7. ShownIn(out') \cap ToVisit(calls', P, A) = {}
  BY <1>1, <1>4
<1>8. ~truncated' => Paths(t) \subseteq ShownIn(out') \cup ToVisit(calls', P, A)
  BY <1>1, <1>3, <1>4, <1>6
<1> QED
  BY <1>1, <1>4, <1>5, <1>7, <1>8 DEF PreviewState, RowsToCome, S, P, A, Past

LEMMA AskKeeps ==
  ASSUME NEW t \in Trees, NEW limit \in Nat, out' = <<>>,
         Walk(<<>>, <<>>, t, <<>>, limit, FALSE)
  PROVE  PreviewState(t, limit)'
<1> DEFINE S == RowCalls(t)
           P == RowPaths(t)
           A == RowNames(t)
           Past == RowsPast(t)
           d == Rows(<<>>, ToSet(t))
<1>1. /\ IsTree(t) /\ ToSet(t) \subseteq TreeNodes /\ Contents(t, <<>>) = ToSet(t)
      /\ <<>> \in Seq(Names) /\ Len(<<>>) = 0 /\ MaxLevel \in Nat
  BY TreesAre, TreesAssumption, ContentsEmpty DEF IsTree
<1>2. <<>> \in DirPaths
  BY <1>1 DEF DirPaths
<1>3. d \in S /\ P[d] = <<>> /\ A[d] = {m.name : m \in ToSet(t)}
  BY <1>1, <1>2 DEF Rows, RowCalls, RowPaths, RowNames
<1>4. Paths(t) \subseteq Downwards(P[d], A[d])
  <2> SUFFICES ASSUME NEW p \in Paths(t) PROVE p \in Downwards(<<>>, {m.name : m \in ToSet(t)})
    BY <1>3
  <2>1. p \in AllPaths /\ Beyond(p, <<>>)
    BY <1>1, AllPathsAre DEF Paths, Beyond
  <2>2. \E m \in ToSet(t) : Goes(p, <<>>, m.name)
    BY <1>1, <2>1, NextOn
  <2> QED
    BY <2>1, <2>2 DEF Downwards
<1>5. DOMAIN out' = {} /\ ShownIn(out') = {} /\ Once(out') /\ out' \in Seq(Entries(t)) /\ Len(out') = 0
  BY DEF ShownIn, Once
<1> HIDE DEF S, P, A, Past, d
<1>6. CASE limit = 0
  <2>1. calls' = <<>> /\ truncated' = TRUE
    BY <1>1, <1>6 DEF Walk
  <2>2. calls' \in Seq(S) /\ Chained(calls', P, Past)
    <3>1. Chained(<<>>, P, Past) /\ ToVisit(<<>>, P, A) = {}
      BY NoCalls
    <3> QED
      BY <2>1, <3>1
  <2> QED
    BY <1>5, <1>6, <2>1, <2>2 DEF PreviewState, RowsToCome, S, P, A, Past
<1>7. CASE limit # 0
  <2>1. calls' = <<d>> /\ truncated' = FALSE
    <3>1. calls' = Append(<<>>, d) /\ truncated' = FALSE
      BY <1>1, <1>7 DEF Walk, d
    <3> QED
      BY <3>1
  <2>2. calls' \in Seq(S) /\ Chained(calls', P, Past) 
        /\ \A p : p \in ToVisit(calls', P, A) <=> p \in Downwards(P[d], A[d])
    BY <1>3, <2>1, FirstCall
  <2>3. Paths(t) \subseteq ToVisit(calls', P, A) /\ ShownIn(out') \cap ToVisit(calls', P, A) = {}
    BY <1>4, <1>5, <2>2
  <2>4. Len(out') <= limit
    BY <1>5
  <2>5. ~truncated' /\ truncated' \in BOOLEAN
    BY <2>1
  <2> QED
    BY <1>5, <2>2, <2>3, <2>4, <2>5 DEF PreviewState, RowsToCome, S, P, A, Past
<1> QED
  BY <1>6, <1>7

LEMMA PreviewStep ==
  ASSUME PreviewInv, [WalkNext]_walkVars
  PROVE  PreviewInv'
<1> SUFFICES ASSUME walk'.op = "preview"
             PROVE  /\ walk'.tree \in Trees /\ walk'.limit \in Nat
                    /\ PreviewState(walk.tree, walk.limit)'
  BY DEF PreviewInv
<1>0. ASSUME walk' = walk, PreviewState(walk.tree, walk.limit) => PreviewState(walk.tree, walk.limit)'
      PROVE  /\ walk'.tree \in Trees /\ walk'.limit \in Nat
             /\ PreviewState(walk.tree, walk.limit)'
  BY <1>0 DEF PreviewInv
<1> PICK t, limit : t = walk.tree /\ limit = walk.limit
  OBVIOUS
<1>1. CASE AskPreview
  <2>1. PICK u \in Trees : \E k \in Limits :
          /\ walk' = [op |-> "preview", tree |-> u, limit |-> k]
          /\ Walk(<<>>, <<>>, u, <<>>, k, FALSE)
    BY <1>1 DEF AskPreview
  <2>2. PICK k \in Limits :
          /\ walk' = [op |-> "preview", tree |-> u, limit |-> k]
          /\ Walk(<<>>, <<>>, u, <<>>, k, FALSE)
    BY <2>1
  <2>3. k \in Nat /\ out' = <<>>
    BY <1>1, TreesAssumption DEF AskPreview
  <2>4. PreviewState(u, k)'
    BY <2>2, <2>3, AskKeeps
  <2>5. walk'.tree = u /\ walk'.limit = k
    BY <2>2
  <2> QED
    BY <2>3, <2>4, <2>5
<1>2. CASE PreviewRow
  <2>1. /\ walk' = walk /\ walk.op = "preview" /\ calls # <<>> /\ ~Full(out, limit)
        /\ t \in Trees /\ limit \in Nat /\ PreviewState(t, limit)
    BY <1>2 DEF PreviewRow, Running, PreviewInv
  <2>2. PICK n \in Call.left :
          /\ IsFirst(n, Call.left)
          /\ out' = Append(out, [path |-> Within(Call.path, n), kind |-> n.kind])
          /\ LET rest == Append(Callers, Rows(Call.path, Call.left \ {n}))
             IN IF IsDir(n) /\ n.sub # <<>>
                THEN Walk(rest, Within(Call.path, n), n.sub[1], out', walk.limit, truncated)
                ELSE calls' = rest /\ UNCHANGED truncated
    BY <1>2 DEF PreviewRow
  <2>3. Len(out) < limit
    BY <2>1 DEF Full, PreviewState
  <2>4. n \in TreeNodes
    <3>1. Call \in RowCalls(t)
      BY <2>1, Tops DEF PreviewState, Call
    <3> QED
      BY <3>1 DEF RowCalls
  <2>5. LET rest == Append(Callers, After(Call, n))
        IN \/ n.sub # <<>> /\ Len(out') >= limit /\ calls' = rest /\ truncated'
           \/ /\ n.sub # <<>> /\ truncated' = truncated
              /\ calls' = Append(rest, Rows(Within(Call.path, n), ToSet(n.sub[1])))
           \/ n.sub = <<>> /\ calls' = rest /\ truncated' = truncated
    <3>1. IsDir(n) <=> n.sub # <<>>
      BY <2>4, SubTree DEF IsDir
    <3> QED
      BY <2>2, <3>1 DEF Walk, After
  <2>6. PreviewState(t, limit)'
    BY <2>1, <2>2, <2>3, <2>5, RowKeeps
  <2> QED
    BY <1>0, <2>1, <2>6
<1>3. CASE PreviewFull \/ PreviewReturn
  <2>1. /\ walk' = walk /\ walk.op = "preview" /\ calls # <<>> /\ calls' = Callers /\ out' = out
        /\ \/ Call.left = {} /\ truncated' = truncated
           \/ Len(out) >= limit /\ truncated' = TRUE
        /\ t \in Trees /\ limit \in Nat /\ PreviewState(t, limit)
    BY <1>3 DEF PreviewFull, PreviewReturn, Running, PreviewInv, Full
  <2>2. PreviewState(t, limit)'
    BY <2>1, ReturnKeeps
  <2> QED
    BY <1>0, <2>1, <2>2
<1>4. CASE AskDiff
  BY <1>4 DEF AskDiff
<1>5. CASE DiffRemoved \/ DiffAdded \/ DiffType \/ DiffDirs \/ DiffData \/ CollectAll \/ DiffReturn
  <2>1. walk' = walk /\ walk.op = "diff"
    BY <1>5 DEF DiffRemoved, DiffAdded, DiffType, DiffDirs, DiffData, CollectAll, DiffReturn, Emit,
                InBoth, InPair, Running
  <2> QED
    BY <2>1
<1>6. CASE WalkDone
  BY <1>6 DEF WalkDone, NoWalk
<1>7. CASE UNCHANGED walkVars
  <2>1. walk' = walk /\ calls' = calls /\ out' = out /\ truncated' = truncated
    BY <1>7 DEF walkVars
  <2> QED
    BY <1>0, <2>1 DEF PreviewState, RowsToCome
<1> QED
  BY <1>1, <1>2, <1>3, <1>4, <1>5, <1>6, <1>7 DEF WalkNext

LEMMA PreviewInvRight == PreviewInv => PreviewRight
<1> SUFFICES ASSUME PreviewInv, walk.op = "preview" PROVE PreviewRight
  BY DEF PreviewRight
<1> DEFINE t == walk.tree
           shown == [i \in DOMAIN out |-> out[i].path]
<1>1. t \in Trees /\ walk.limit \in Nat /\ PreviewState(t, walk.limit)
  BY DEF PreviewInv
<1>2. ToSet(shown) = ShownIn(out) /\ DOMAIN shown = DOMAIN out
  BY DEF ToSet, ShownIn
<1>3. ASSUME NEW i \in DOMAIN out
      PROVE  out[i].path \in Paths(t) /\ out[i].kind = NodeAt(t, out[i].path).kind
  <2>1. out[i] \in Entries(t)
    BY <1>1 DEF PreviewState
  <2> QED
    BY <2>1 DEF Entries
<1>4. ToSet(shown) \subseteq Paths(t)
  BY <1>2, <1>3 DEF ShownIn
<1>5. IsInjective(shown)
  BY <1>1 DEF PreviewState, Once, IsInjective
<1>6. ASSUME NEW i \in DOMAIN out, NEW p \in Paths(t), Precedes(t, p, shown[i])
      PROVE  \E j \in 1..i - 1 : shown[j] = p
  <2>1. PICK j \in 1..i - 1 : out[j].path = p
    BY <1>1, <1>6 DEF PreviewState
  <2>2. j \in DOMAIN out
    <3>1. out \in Seq(Entries(t))
      BY <1>1 DEF PreviewState
    <3> QED
      BY <3>1
  <2> QED
    BY <2>1, <2>2
<1>7. ASSUME calls = <<>>, ~(Paths(t) \subseteq ToSet(shown)) PROVE Len(out) = walk.limit /\ truncated
  <2>1. RowsToCome(t) = {}
    BY <1>7, NoCalls DEF RowsToCome
  <2> QED
    BY <1>1, <1>2, <1>7, <2>1 DEF PreviewState
<1> HIDE DEF shown
<1> QED
  BY <1>1, <1>2, <1>3, <1>4, <1>5, <1>6, <1>7 DEF PreviewRight, PreviewState, shown

\* A preview shows the first entries of the snapshot, in the order of its rows, for
\* any trees and limits (walk_preview: PreviewRight).
THEOREM ShowsTheFirst == WalkSpec => []PreviewRight
<1>1. WalkInit => PreviewInv
  BY DEF WalkInit, PreviewInv, NoWalk
<1>2. PreviewInv /\ [WalkNext]_walkVars => PreviewInv'
  BY PreviewStep
<1> QED
  BY <1>1, <1>2, PreviewInvRight, PTL DEF WalkSpec

----------------------------------------------------------------------------
(* Sums. *)
LEMMA TotalLoop ==
  ASSUME NEW s \in Seq(Nat)
  PROVE  \E w : /\ w[0] = 0
                /\ \A k \in 0..Len(s) : w[k] \in Nat
                /\ \A k \in 1..Len(s) : w[k] = w[k - 1] + s[k]
                /\ Total(s) = w[Len(s)]
<1> DEFINE L == Len(s)
           F == [e \in (1..L) \X Nat |-> e[2] + s[e[1]]]
           IsRun(g) == g = [k \in 0..L |-> IF k = 0 THEN 0 ELSE g[k - 1] + s[k]]
<1>1. L \in Nat /\ \A k \in 1..L : s[k] \in Nat
  OBVIOUS
<1>2. F \in [(1..L) \X Nat -> Nat]
  <2>1. \A e \in (1..L) \X Nat : e[2] + s[e[1]] \in Nat
    BY <1>1
  <2> HIDE DEF L
  <2> QED
    BY <2>1
<1>3. PICK w \in [0..L -> Nat] : IsLoop(w, F, 0, L)
  <2> HIDE DEF F, L
  <2> QED
    BY <1>1, <1>2, SomeLoop
<1>4. \A k \in 1..L : w[k] = w[k - 1] + s[k]
  <2> SUFFICES ASSUME NEW k \in 1..L PROVE w[k] = w[k - 1] + s[k]
    OBVIOUS
  <2>1. w[k] = F[<<k, w[k - 1]>>]
    <3> HIDE DEF F, L
    <3> QED
      BY <1>3 DEF IsLoop
  <2>2. w[k - 1] \in Nat
    <3> HIDE DEF F, L
    <3>1. k - 1 \in 0..L
      BY <1>1
    <3> QED
      BY <1>3, <3>1
  <2> HIDE DEF L
  <2> QED
    BY <2>1, <2>2
<1>5. IsRun(w)
  <2> HIDE DEF F
  <2>1. \A k \in 0..L : w[k] = IF k = 0 THEN 0 ELSE w[k - 1] + s[k]
    <3> HIDE DEF L
    <3>1. \A k \in 0..L : k = 0 \/ k \in 1..L
      BY <1>1
    <3> QED
      BY <1>3, <1>4, <3>1 DEF IsLoop
  <2>2. w = [k \in 0..L |-> w[k]]
    BY <1>3
  <2> QED
    BY <2>1, <2>2
<1> DEFINE g == CHOOSE h : IsRun(h)
<1>6. IsRun(g)
  BY <1>5
<1>7. Total(s) = g[L]
  BY DEF Total
<1> HIDE DEF g, F
<1>8. g[0] = 0 /\ \A k \in 1..L : g[k] = g[k - 1] + s[k]
  <2>1. \A k \in 0..L : g[k] = IF k = 0 THEN 0 ELSE g[k - 1] + s[k]
    BY <1>6
  <2> QED
    BY <1>1, <2>1
<1> DEFINE G == {k \in 0..L : g[k] \in Nat}
<1> HIDE DEF L
<1>9. 0 \in G
  BY <1>1, <1>8
<1>10. ASSUME NEW k \in 0..L, k \in G, k < L PROVE k + 1 \in G
  <2>1. k + 1 \in 1..L /\ k + 1 \in 0..L /\ (k + 1) - 1 = k /\ g[k] \in Nat /\ s[k + 1] \in Nat
    BY <1>1, <1>10
  <2>2. g[k + 1] = g[k] + s[k + 1]
    BY <1>8, <2>1
  <2>3. g[k + 1] \in Nat
    BY <2>1, <2>2
  <2> QED
    BY <2>1, <2>3
<1> HIDE DEF G
<1>11. \A k \in 0..L : k \in G
  BY <1>1, <1>9, <1>10, IndexInduction
<1> QED
  BY <1>7, <1>8, <1>11 DEF G, L

LEMMA TotalEmpty == Total(<<>>) = 0
<1>1. <<>> \in Seq(Nat) /\ Len(<<>>) = 0
  OBVIOUS
<1> QED
  BY <1>1, TotalLoop

LEMMA TotalAppend ==
  ASSUME NEW s \in Seq(Nat), NEW x \in Nat
  PROVE  Append(s, x) \in Seq(Nat) /\ Total(s) \in Nat /\ Total(Append(s, x)) = Total(s) + x
<1> DEFINE L == Len(s)
           r == Append(s, x)
<1>1. r \in Seq(Nat) /\ Len(r) = L + 1 /\ r[L + 1] = x /\ L \in Nat /\ \A k \in 1..L : r[k] = s[k]
  BY AppendProperties
<1> HIDE DEF r
<1>2. PICK w : /\ w[0] = 0 /\ (\A k \in 0..L : w[k] \in Nat)
               /\ \A k \in 1..L : w[k] = w[k - 1] + s[k]
               /\ Total(s) = w[L]
  BY TotalLoop
<1>3. PICK v : /\ v[0] = 0
               /\ \A k \in 1..L + 1 : v[k] = v[k - 1] + r[k]
               /\ Total(r) = v[L + 1]
  <2>1. PICK v : /\ v[0] = 0
                 /\ \A k \in 1..Len(r) : v[k] = v[k - 1] + r[k]
                 /\ Total(r) = v[Len(r)]
    BY <1>1, TotalLoop
  <2> HIDE DEF L
  <2> QED
    BY <1>1, <2>1
<1> HIDE DEF L
<1>4. \A k \in 1..L : v[k - 1] = w[k - 1] => v[k] = w[k]
  <2> SUFFICES ASSUME NEW k \in 1..L, v[k - 1] = w[k - 1] PROVE v[k] = w[k]
    OBVIOUS
  <2>1. k \in 1..L + 1
    BY <1>1
  <2> QED
    BY <1>1, <1>2, <1>3, <2>1
<1>5. v[L] = w[L]
  <2>1. v[0] = w[0]
    BY <1>2, <1>3
  <2> QED
    BY <1>1, <1>4, <2>1, SameLoop
<1>6. L + 1 \in 1..L + 1 /\ (L + 1) - 1 = L /\ L \in 0..L
  BY <1>1
<1> QED
  BY <1>1, <1>2, <1>3, <1>5, <1>6 DEF r

LEMMA MapAppend ==
  ASSUME NEW E, NEW F \in [E -> Nat], NEW o \in Seq(E), NEW e \in E
  PROVE  /\ [i \in DOMAIN o |-> F[o[i]]] \in Seq(Nat)
         /\ [i \in DOMAIN Append(o, e) |-> F[Append(o, e)[i]]]
              = Append([i \in DOMAIN o |-> F[o[i]]], F[e])
<1> DEFINE N == Len(o)
           r == Append(o, e)
           f == [i \in DOMAIN o |-> F[o[i]]]
           g == [i \in DOMAIN r |-> F[r[i]]]
<1>1. /\ r \in Seq(E) /\ Len(r) = N + 1 /\ r[N + 1] = e /\ (\A i \in 1..N : r[i] = o[i]) /\ N \in Nat
      /\ \A i \in 1..N : o[i] \in E
  BY AppendProperties
<1>2. DOMAIN o = 1..N /\ DOMAIN r = 1..N + 1
  BY <1>1
<1> HIDE DEF N, r
<1>3. f \in Seq(Nat) /\ Len(f) = N /\ \A i \in 1..N : f[i] = F[o[i]]
  <2>1. \A i \in 1..N : F[o[i]] \in Nat
    BY <1>1
  <2>2. f \in [1..N -> Nat]
    BY <1>2, <2>1
  <2> QED
    BY <1>1, <1>2, <2>2
<1>4. g \in Seq(Nat) /\ Len(g) = N + 1 /\ \A i \in 1..N + 1 : g[i] = F[r[i]]
  <2>1. \A i \in 1..N + 1 : r[i] \in E
    BY <1>1
  <2>2. g \in [1..N + 1 -> Nat]
    BY <1>2, <2>1
  <2> QED
    BY <1>1, <1>2, <2>2
<1> HIDE DEF f, g
<1>5. F[e] \in Nat
  OBVIOUS
<1> DEFINE h == Append(f, F[e])
<1>6. h \in Seq(Nat) /\ Len(h) = N + 1 /\ h[N + 1] = F[e] /\ \A i \in 1..N : h[i] = f[i]
  BY <1>3, <1>5, AppendProperties
<1> HIDE DEF h
<1>7. ASSUME NEW i \in 1..N + 1 PROVE g[i] = h[i]
  <2>1. g[i] = F[r[i]]
    BY <1>4
  <2>2. CASE i = N + 1
    BY <1>1, <1>6, <2>1, <2>2
  <2>3. CASE i # N + 1
    <3>1. i \in 1..N
      BY <1>1, <2>3
    <3>2. r[i] = o[i] /\ f[i] = F[o[i]] /\ h[i] = f[i]
      BY <1>1, <1>3, <1>6, <3>1
    <3> QED
      BY <2>1, <3>2
  <2> QED
    BY <2>2, <2>3
<1>8. g = h
  <2>1. Len(g) = Len(h) /\ \A i \in 1..Len(g) : g[i] = h[i]
    BY <1>4, <1>6, <1>7
  <2> QED
    BY <1>4, <1>6, <2>1, SeqEqual
<1> QED
  BY <1>3, <1>8 DEF f, g, h, r

----------------------------------------------------------------------------
(* The names from, and before, a position of a tree. *)
NamesFrom(s, k) == {s[l].name : l \in k..Len(s)}
NamesTo(s, k) == {s[l].name : l \in 1..k - 1}
Before(X, Y) == \A x \in X : \A y \in Y : x < y

LEMMA NamesIn ==
  ASSUME NEW s, IsTree(s), NEW k \in 1..Len(s) + 1
  PROVE  /\ NamesFrom(s, k) \subseteq Names /\ NamesTo(s, k) \subseteq Names
         /\ {n.name : n \in ToSet(s)} = NamesTo(s, k) \cup NamesFrom(s, k)
         /\ Before(NamesTo(s, k), NamesFrom(s, k))
<1>1. Len(s) \in Nat /\ DOMAIN s = 1..Len(s) /\ \A l \in 1..Len(s) : s[l].name \in Names
  <2>1. s \in Seq(TreeNodes)
    BY DEF IsTree
  <2>2. Len(s) \in Nat /\ DOMAIN s = 1..Len(s) /\ \A l \in 1..Len(s) : s[l] \in TreeNodes
    BY <2>1
  <2> QED
    BY <2>2, SubTree
<1>2. \A l \in 1..Len(s) : l \in 1..k - 1 \/ l \in k..Len(s)
  BY <1>1
<1>3. (\A l \in 1..k - 1 : l \in 1..Len(s)) /\ \A l \in k..Len(s) : l \in 1..Len(s)
  BY <1>1
<1>4. Before(NamesTo(s, k), NamesFrom(s, k))
  <2> SUFFICES ASSUME NEW a \in 1..k - 1, NEW b \in k..Len(s) PROVE s[a].name < s[b].name
    BY DEF Before, NamesTo, NamesFrom
  <2>1. a < b /\ a \in DOMAIN s /\ b \in DOMAIN s
    BY <1>1
  <2> QED
    BY <2>1 DEF IsTree, Sorted
<1> QED
  BY <1>1, <1>2, <1>3, <1>4 DEF NamesFrom, NamesTo, ToSet

LEMMA NamesNext ==
  ASSUME NEW s, IsTree(s), NEW k \in 1..Len(s)
  PROVE  /\ s[k] \in ToSet(s) /\ s[k] \in TreeNodes /\ s[k].name \in Names /\ s[k].name \in Nat
         /\ k + 1 \in 1..Len(s) + 1
         /\ NamesFrom(s, k) = {s[k].name} \cup NamesFrom(s, k + 1)
         /\ NamesTo(s, k + 1) = NamesTo(s, k) \cup {s[k].name}
         /\ \A x \in NamesFrom(s, k + 1) : s[k].name < x
<1>1. s \in Seq(TreeNodes) /\ Len(s) \in Nat /\ s[k] \in TreeNodes /\ DOMAIN s = 1..Len(s)
  BY DEF IsTree
<1>2. s[k] \in ToSet(s) /\ s[k].name \in Names /\ s[k].name \in Nat
  BY <1>1, SubTree, TreesAssumption DEF ToSet
<1>3. k + 1 \in 1..Len(s) + 1
  BY <1>1
<1>4. k..Len(s) = {k} \cup (k + 1)..Len(s) /\ 1..(k + 1) - 1 = (1..k - 1) \cup {k}
  BY <1>1
<1>5. k \in 1..(k + 1) - 1
  BY <1>1
<1>6. \A x \in NamesFrom(s, k + 1) : s[k].name < x
  <2>1. s[k].name \in NamesTo(s, k + 1)
    BY <1>5 DEF NamesTo
  <2> QED
    BY <1>3, <2>1, NamesIn DEF Before
<1>7. NamesFrom(s, k) = {s[k].name} \cup NamesFrom(s, k + 1)
  BY <1>4 DEF NamesFrom
<1>8. NamesTo(s, k + 1) = NamesTo(s, k) \cup {s[k].name}
  BY <1>4 DEF NamesTo
<1> QED
  BY <1>1, <1>2, <1>3, <1>6, <1>7, <1>8

LEMMA NamesEnd ==
  ASSUME NEW s, IsTree(s), NEW k \in 1..Len(s) + 1, ~(k <= Len(s))
  PROVE  NamesFrom(s, k) = {}
<1>1. Len(s) \in Nat
  BY DEF IsTree
<1>2. k..Len(s) = {}
  BY <1>1
<1> QED
  BY <1>2 DEF NamesFrom

----------------------------------------------------------------------------
(* Diff. *)
\* A call of diff_trees: what is before one of its cursors is before what the
\* other has still to come to.
PairCalls(t1, t2) ==
  {c \in [of : {"pair"}, path : DirPaths, first : Seq(TreeNodes), second : Seq(TreeNodes),
          i : Nat, j : Nat] :
     /\ IsTree(c.first) /\ ToSet(c.first) = Contents(t1, c.path) /\ c.i \in 1..Len(c.first) + 1
     /\ IsTree(c.second) /\ ToSet(c.second) = Contents(t2, c.path) /\ c.j \in 1..Len(c.second) + 1
     /\ Before(NamesTo(c.first, c.i), NamesFrom(c.second, c.j))
     /\ Before(NamesTo(c.second, c.j), NamesFrom(c.first, c.i))}

\* A call of collect_all_as: nothing is at its path in the other snapshot.
AllCalls(t1, t2) ==
  {c \in [of : {"all"}, path : DirPaths, nodes : Seq(TreeNodes), i : Nat,
          modifier : {"Added", "Removed"}] :
     /\ IsTree(c.nodes) /\ c.i \in 1..Len(c.nodes) + 1
     /\ \/ /\ c.modifier = "Removed"
           /\ ToSet(c.nodes) = Contents(t1, c.path) /\ Contents(t2, c.path) = {}
        \/ /\ c.modifier = "Added"
           /\ ToSet(c.nodes) = Contents(t2, c.path) /\ Contents(t1, c.path) = {}}

DiffCalls(t1, t2) == PairCalls(t1, t2) \cup AllCalls(t1, t2)
Ahead(c) ==
  IF c.of = "pair" THEN NamesFrom(c.first, c.i) \cup NamesFrom(c.second, c.j)
  ELSE NamesFrom(c.nodes, c.i)

DiffPaths(t1, t2) == [c \in DiffCalls(t1, t2) |-> c.path]
DiffNames(t1, t2) == [c \in DiffCalls(t1, t2) |-> Ahead(c)]
DiffPast(t1, t2) == {e \in Names \X DiffCalls(t1, t2) : e[1] \notin Ahead(e[2])}
DiffToCome(t1, t2) == ToVisit(calls, DiffPaths(t1, t2), DiffNames(t1, t2))

\* The inductive invariant of a diff: every change is shown, once, or ahead of a
\* call that has not returned, and not both.
DiffState(t1, t2) ==
  /\ calls \in Seq(DiffCalls(t1, t2)) /\ Chained(calls, DiffPaths(t1, t2), DiffPast(t1, t2))
  /\ out \in Seq(ToShow(t1, t2)) /\ Once(out)
  /\ ShownIn(out) \cap DiffToCome(t1, t2) = {}
  /\ Changed(t1, t2) \subseteq ShownIn(out) \cup DiffToCome(t1, t2)

SummaryState(t1, t2) ==
  /\ summary \in [Modifiers -> [files : Nat, bytes : Nat]]
  /\ \A m \in Modifiers : summary[m].files = Total(FilesOf(t1, t2, m))
  /\ \A m \in {"Added", "Removed"} : summary[m].bytes = Total(BytesOf(t1, t2, m))

DiffInv ==
  walk.op = "diff" =>
    /\ walk.first \in Trees /\ walk.second \in Trees
    /\ DiffState(walk.first, walk.second) /\ SummaryState(walk.first, walk.second)

LEMMA CallIs ==
  ASSUME NEW t1, NEW t2, NEW c \in DiffCalls(t1, t2)
  PROVE  /\ c.path \in DirPaths /\ c.path \in Seq(Names) /\ Ahead(c) \subseteq Names
         /\ c.of \in {"pair", "all"}
         /\ c.of = "pair" => c \in PairCalls(t1, t2)
         /\ c.of = "all" => c \in AllCalls(t1, t2)
<1>1. CASE c \in PairCalls(t1, t2)
  <2>1. /\ c.of = "pair" /\ c.path \in DirPaths /\ IsTree(c.first) /\ IsTree(c.second)
        /\ c.i \in 1..Len(c.first) + 1 /\ c.j \in 1..Len(c.second) + 1
    BY <1>1 DEF PairCalls
  <2>2. NamesFrom(c.first, c.i) \subseteq Names /\ NamesFrom(c.second, c.j) \subseteq Names
    BY <2>1, NamesIn
  <2> QED
    BY <1>1, <2>1, <2>2 DEF Ahead, DirPaths
<1>2. CASE c \in AllCalls(t1, t2)
  <2>1. /\ c.of = "all" /\ c.path \in DirPaths /\ IsTree(c.nodes) /\ c.i \in 1..Len(c.nodes) + 1
    BY <1>2 DEF AllCalls
  <2>2. NamesFrom(c.nodes, c.i) \subseteq Names
    BY <2>1, NamesIn
  <2> QED
    BY <1>2, <2>1, <2>2 DEF Ahead, DirPaths
<1> QED
  BY <1>1, <1>2 DEF DiffCalls

LEMMA DiffStack ==
  ASSUME NEW t1, NEW t2
  PROVE  IsStack(DiffCalls(t1, t2), DiffPaths(t1, t2), DiffNames(t1, t2), DiffPast(t1, t2))
<1>1. DiffPaths(t1, t2) \in [DiffCalls(t1, t2) -> DirPaths]
  BY CallIs DEF DiffPaths
<1>2. DiffNames(t1, t2) \in [DiffCalls(t1, t2) -> SUBSET Names]
  BY CallIs DEF DiffNames
<1>3. \A c \in DiffCalls(t1, t2) : \A x \in DiffNames(t1, t2)[c] : <<x, c>> \notin DiffPast(t1, t2)
  BY DEF DiffNames, DiffPast
<1> QED
  BY <1>1, <1>2, <1>3 DEF IsStack

LEMMA ChangedAre ==
  ASSUME NEW t1, NEW t2
  PROVE  /\ Changed(t1, t2) \subseteq AllPaths
         /\ \A p \in Changed(t1, t2) : p \in Seq(Names) /\ Change(Became(t1, t2, p), p) \in ToShow(t1, t2)
         /\ \A c \in ToShow(t1, t2) : c.path \in Changed(t1, t2) /\ c.modifier = Became(t1, t2, c.path)
BY AllPathsAre DEF Changed, Paths, ToShow, Change

\* A call comes to a name, and to what is below it.
LEMMA NameKeeps ==
  ASSUME NEW t1, NEW t2, DiffState(t1, t2), calls # <<>>,
         NEW x \in Ahead(Call), NEW d \in DiffCalls(t1, t2), d.path = Call.path,
         Ahead(d) = Ahead(Call) \ {x},
         LET q == Append(Call.path, x)
             r == Append(Callers, d)
         IN /\ \/ calls' = r /\ \A p \in Changed(t1, t2) : ~Beyond(p, q)
               \/ \E e \in DiffCalls(t1, t2) :
                    /\ calls' = Append(r, e) /\ e.path = q
                    /\ \A p \in Changed(t1, t2) : Beyond(p, q) => p \in Downwards(q, Ahead(e))
            /\ \/ q \notin Changed(t1, t2) /\ out' = out
               \/ q \in Changed(t1, t2) /\ out' = Append(out, Change(Became(t1, t2, q), q))
  PROVE  DiffState(t1, t2)'
<1> DEFINE c == Call
           q == Append(c.path, x)
           r == Append(Callers, d)
           S == DiffCalls(t1, t2)
           P == DiffPaths(t1, t2)
           A == DiffNames(t1, t2)
           Past == DiffPast(t1, t2)
           C == Changed(t1, t2)
<1>1. /\ calls \in Seq(S) /\ Chained(calls, P, Past) /\ out \in Seq(ToShow(t1, t2)) /\ Once(out)
      /\ ShownIn(out) \cap ToVisit(calls, P, A) = {}
      /\ C \subseteq ShownIn(out) \cup ToVisit(calls, P, A)
  BY DEF DiffState, DiffToCome
<1>2. c = Last(calls) /\ c \in S /\ Len(calls) \in DOMAIN calls /\ calls[Len(calls)] = c
  <2> HIDE DEF S
  <2>1. calls \in Seq(S)
    BY <1>1
  <2>2. Len(calls) \in Nat /\ Len(calls) >= 1 /\ Last(calls) = calls[Len(calls)] /\ Last(calls) \in S
    BY <2>1, Tops
  <2> QED
    BY <2>1, <2>2 DEF Call
<1>3. c.path \in Seq(Names) /\ x \in Names /\ IsStack(S, P, A, Past)
  BY <1>2, CallIs, DiffStack
<1>4. P[c] = c.path /\ P[d] = c.path /\ A[d] = A[c] \ {x} /\ x \in A[c]
  BY <1>2 DEF DiffPaths, DiffNames
<1>5. <<x, d>> \in Past
  BY <1>3 DEF DiffPast
<1>6. q \in Seq(Names) /\ Goes(q, c.path, x)
  <2>1. q \in Seq(Names)
    BY <1>3
  <2> HIDE DEF c
  <2> QED
    BY <1>3, <2>1, GoesOn
<1>7. ASSUME NEW p \in AllPaths, Goes(p, c.path, x) PROVE p \in ToVisit(calls, P, A)
  <2> HIDE DEF c, P, A
  <2> QED
    BY <1>2, <1>4, <1>7 DEF ToVisit
<1>8. ASSUME NEW p \in C, Goes(p, c.path, x) PROVE p = q \/ Beyond(p, q)
  BY <1>3, <1>8, ChangedAre, GoesOn
<1> HIDE DEF c, q, r, S, P, A, Past, C
<1>9. r \in Seq(S) /\ Chained(r, P, Past) /\ r # <<>> /\ Last(r) = d
      /\ ToVisit(r, P, A) = {p \in ToVisit(calls, P, A) : ~Goes(p, c.path, x)}
  <2>1. P[d] = P[Last(calls)] /\ A[d] = A[Last(calls)] \ {x} /\ d \in S
    BY <1>2, <1>4 DEF S
  <2>2. /\ Append(Front(calls), d) \in Seq(S) /\ Chained(Append(Front(calls), d), P, Past)
        /\ ToVisit(Append(Front(calls), d), P, A) = {p \in ToVisit(calls, P, A) : ~Goes(p, P[d], x)}
    <3>1. /\ calls \in Seq(S) /\ calls # <<>> /\ Chained(calls, P, Past)
          /\ IsStack(S, P, A, Past) /\ x \in Names
      BY <1>1, <1>3
    <3> QED
      BY ONLY <2>1, <3>1, Visited
  <2>3. r = Append(Front(calls), d)
    BY DEF r, Callers
  <2>4. Front(calls) \in Seq(S)
    BY <1>1, Tops
  <2>5. r # <<>> /\ Last(r) = d
    BY <2>1, <2>3, <2>4, FrontLastAppend, AppendProperties
  <2> QED
    BY <1>4, <2>2, <2>3, <2>5
<1>10. /\ calls' \in Seq(S) /\ Chained(calls', P, Past)
       /\ \A p : p \in ToVisit(calls', P, A) =>
            p \in ToVisit(r, P, A) \/ (p \in AllPaths /\ Goes(p, c.path, x) /\ p # q)
       /\ ToVisit(r, P, A) \subseteq ToVisit(calls', P, A)
       /\ \A p \in C : Goes(p, c.path, x) /\ p # q => p \in ToVisit(calls', P, A)
  <2>1. CASE calls' = r /\ \A p \in C : ~Beyond(p, q)
    BY <1>8, <1>9, <2>1
  <2>2. ASSUME NEW e \in S, calls' = Append(r, e), e.path = q,
               \A p \in C : Beyond(p, q) => p \in Downwards(q, Ahead(e))
        PROVE  <1>10!:
    <3>1. P[e] = q /\ A[e] = Ahead(e) /\ A[e] \in SUBSET Names
      BY <2>2, CallIs DEF P, A, S, DiffPaths, DiffNames
    <3>2. \E y \in Names : P[e] = Append(P[Last(r)], y) /\ <<y, Last(r)>> \in Past
      BY <1>3, <1>4, <1>5, <1>9, <3>1 DEF q
    <3>3. /\ Append(r, e) \in Seq(S) /\ Chained(Append(r, e), P, Past)
          /\ \A p : p \in ToVisit(Append(r, e), P, A)
                      <=> p \in ToVisit(r, P, A) \/ p \in Downwards(P[e], A[e])
      BY <1>3, <1>9, <3>2, Called
    <3>4. \A p \in Downwards(q, A[e]) : p \in AllPaths /\ Goes(p, c.path, x) /\ p # q
      BY <1>3, <3>1, WayBy DEF q
    <3>5. \A p \in C : Goes(p, c.path, x) /\ p # q => p \in Downwards(q, A[e])
      BY <1>8, <2>2, <3>1
    <3> QED
      BY <2>2, <3>1, <3>3, <3>4, <3>5
  <2> QED
    BY <2>1, <2>2 DEF r, q, c, C, S
<1>11. \/ q \notin C /\ out' = out
       \/ /\ q \in C /\ out' \in Seq(ToShow(t1, t2)) /\ Once(out') /\ ShownIn(out') = ShownIn(out) \cup {q}
  <2>1. CASE q \notin C /\ out' = out
    BY <2>1
  <2>2. CASE q \in C /\ out' = Append(out, Change(Became(t1, t2, q), q))
    <3> DEFINE e == Change(Became(t1, t2, q), q)
    <3>1. q \in AllPaths /\ e \in ToShow(t1, t2)
      BY <2>2, ChangedAre DEF C
    <3>2. e.path = q /\ e.path \notin ShownIn(out)
      BY <1>1, <1>6, <1>7, <3>1 DEF Change
    <3> HIDE DEF e
    <3>3. out' = Append(out, e)
      BY <2>2 DEF e
    <3> QED
      BY <1>1, <2>2, <3>1, <3>2, <3>3, OneMore
  <2> QED
    BY <2>1, <2>2 DEF q, c, C
<1>12. ShownIn(out') \cap ToVisit(calls', P, A) = {}
  <2>1. q \notin ToVisit(calls', P, A)
    BY <1>6, <1>9, <1>10
  <2>2. ToVisit(calls', P, A) \subseteq ToVisit(calls, P, A)
    BY <1>7, <1>9, <1>10
  <2> QED
    BY <1>1, <1>11, <2>1, <2>2
<1>13. C \subseteq ShownIn(out') \cup ToVisit(calls', P, A)
  <2> SUFFICES ASSUME NEW p \in C, p \notin ShownIn(out') PROVE p \in ToVisit(calls', P, A)
    OBVIOUS
  <2>1. p # q /\ p \in ToVisit(calls, P, A)
    BY <1>1, <1>11
  <2> QED
    BY <1>9, <1>10, <2>1
<1> QED
  BY <1>1, <1>10, <1>11, <1>12, <1>13 DEF DiffState, DiffToCome, S, P, A, Past, C

LEMMA NodeAtType ==
  ASSUME NEW t, IsTree(t), NEW p \in Paths(t)
  PROVE  NodeAt(t, p) \in TreeNodes /\ NodeAt(t, p) \in NodesAt(t, p)
<1>1. p \in Seq(Names) /\ Len(p) \in 1..MaxLevel /\ NodesAt(t, p) # {} /\ MaxLevel \in Nat
  BY AllPathsAre, TreesAssumption DEF Paths
<1>2. p # <<>>
  BY <1>1
<1>3. Front(p) \in Seq(Names)
  BY <1>1, <1>2, Tops
<1>4. NodesAt(t, p) \subseteq TreeNodes
  BY <1>3, ContentsType DEF NodesAt, IsTree
<1> QED
  BY <1>1, <1>4 DEF NodeAt

LEMMA BelowAre ==
  ASSUME NEW t, IsTree(t), NEW q \in Seq(Names), NEW p \in Paths(t), Beyond(p, q)
  PROVE  p \in Downwards(q, {n.name : n \in Contents(t, q)})
<1>1. \E n \in Contents(t, q) : Goes(p, q, n.name)
  BY NextOn
<1>2. p \in AllPaths
  BY DEF Paths
<1> QED
  BY <1>1, <1>2 DEF Downwards

LEMMA DownwardsMore ==
  ASSUME NEW q, NEW A, NEW B, A \subseteq B
  PROVE  Downwards(q, A) \subseteq Downwards(q, B)
BY DEF Downwards

\* Where two trees have the same directory they have the same below it.
LEMMA SameBelow ==
  ASSUME NEW t1, IsTree(t1), NEW t2, IsTree(t2), NEW q \in Seq(Names),
         Contents(t1, q) = Contents(t2, q)
  PROVE  \A p \in Changed(t1, t2) : ~Beyond(p, q)
<1> SUFFICES ASSUME NEW p \in Changed(t1, t2), Beyond(p, q) PROVE FALSE
  OBVIOUS
<1> DEFINE M == Len(q)
           N == Len(p) - 1 - M
           Same(k) == Contents(t1, SubSeq(p, 1, k)) = Contents(t2, SubSeq(p, 1, k))
           G == {i \in 0..N : Same(M + i)}
<1>1. p \in AllPaths /\ p \in Seq(Names) /\ Len(p) \in Nat /\ M \in Nat /\ N \in Nat /\ M + N = Len(p) - 1
      /\ t1 \in Seq(TreeNodes) /\ t2 \in Seq(TreeNodes)
  BY ChangedAre DEF Beyond, IsTree
<1>2. SubSeq(p, 1, M) = q
  BY <1>1, SamePrefix DEF Beyond
<1> HIDE DEF M, N
<1>3. 0 \in G
  <2>1. M + 0 = M /\ 0 \in 0..N
    BY <1>1
  <2>2. Same(M)
    BY <1>2
  <2> QED
    BY <2>1, <2>2
<1>4. ASSUME NEW i \in 0..N, i \in G, i < N PROVE i + 1 \in G
  <2> DEFINE k == M + i
             before == SubSeq(p, 1, k)
             x == p[k + 1]
  <2>1. i + 1 \in 0..N /\ M + (i + 1) = k + 1 /\ k \in Nat /\ k + 1 \in 1..Len(p)
    BY <1>1, <1>4
  <2>2. before \in Seq(Names) /\ x \in Names /\ SubSeq(p, 1, k + 1) = Append(before, x)
    BY <1>1, <2>1
  <2>3. Contents(t1, before) = Contents(t2, before)
    BY <1>4
  <2> HIDE DEF before, x, k
  <2>4. Contents(t1, Append(before, x)) = Contents(t2, Append(before, x))
    <3>1. Contents(t1, Append(before, x)) = Under({n \in Contents(t1, before) : n.name = x})
      BY <1>1, <2>2, ContentsAppend
    <3>2. Contents(t2, Append(before, x)) = Under({n \in Contents(t2, before) : n.name = x})
      BY <1>1, <2>2, ContentsAppend
    <3> QED
      BY <2>3, <3>1, <3>2
  <2> QED
    BY <2>1, <2>2, <2>4
<1> HIDE DEF G
<1>5. \A i \in 0..N : i \in G
  BY <1>1, <1>3, <1>4, IndexInduction
<1>6. Same(Len(p) - 1)
  <2>1. N \in 0..N
    BY <1>1
  <2> QED
    BY <1>1, <1>5, <2>1 DEF G
<1>7. NodesAt(t1, p) = NodesAt(t2, p)
  BY <1>6 DEF NodesAt, Front
<1>8. (p \in Paths(t1) <=> p \in Paths(t2)) /\ NodeAt(t1, p) = NodeAt(t2, p)
  BY <1>7 DEF Paths, NodeAt
<1> QED
  BY <1>8 DEF Changed, Became

----------------------------------------------------------------------------
(* A name that one of the trees has at a path, or both. *)
LEMMA NodeHere ==
  ASSUME NEW t \in Trees, NEW path \in DirPaths, NEW n \in Contents(t, path)
  PROVE  LET q == Within(path, n)
         IN /\ IsTree(t) /\ path \in Seq(Names) /\ n \in TreeNodes /\ n.name \in Names
            /\ q = Append(path, n.name) /\ q \in DirPaths /\ q \in Seq(Names) /\ q \in Paths(t)
            /\ NodeAt(t, q) = n /\ Contents(t, q) = Children(n)
<1>1. IsTree(t) /\ path \in Seq(Names)
  BY TreesAre DEF DirPaths
<1>2. n \in TreeNodes /\ n.name \in Names /\ NodeAt(t, Within(path, n)) = n
  BY <1>1, NodeIs
<1>3. Within(path, n) \in DirPaths /\ Within(path, n) \in Paths(t)
  BY PathTo
<1>4. Contents(t, Within(path, n)) = Children(n)
  BY <1>1, ContentsBelow DEF Within
<1> QED
  BY <1>1, <1>2, <1>3, <1>4 DEF Within, DirPaths

LEMMA NoneHere ==
  ASSUME NEW t \in Trees, NEW path \in DirPaths, NEW x \in Names,
         \A m \in Contents(t, path) : m.name # x
  PROVE  /\ Append(path, x) \notin Paths(t)
         /\ Contents(t, Append(path, x)) = {}
<1>1. IsTree(t) /\ path \in Seq(Names)
  BY TreesAre DEF DirPaths
<1>2. NodesAt(t, Append(path, x)) = {}
  BY <1>1, AtAppend
<1>3. Contents(t, Append(path, x)) = {}
  BY <1>1, ContentsBelow
<1> QED
  BY <1>2, <1>3 DEF Paths

----------------------------------------------------------------------------
(* The calls for what is below. *)
LEMMA FromFirst ==
  ASSUME NEW s, IsTree(s)
  PROVE  /\ 1 \in 1..Len(s) + 1 /\ NamesTo(s, 1) = {} /\ s \in Seq(TreeNodes)
         /\ NamesFrom(s, 1) = {n.name : n \in ToSet(s)}
<1>1. Len(s) \in Nat /\ s \in Seq(TreeNodes)
  BY DEF IsTree
<1>2. 1 \in 1..Len(s) + 1 /\ NamesTo(s, 1) = {}
  BY <1>1 DEF NamesTo
<1>3. {n.name : n \in ToSet(s)} = NamesTo(s, 1) \cup NamesFrom(s, 1)
  BY <1>2, NamesIn
<1> QED
  BY <1>1, <1>2, <1>3

\* Only one of the trees has a directory at a path, with these nodes.
Alone(t1, t2, q, nodes, modifier) ==
  \/ modifier = "Removed" /\ Contents(t1, q) = nodes /\ Contents(t2, q) = {}
  \/ modifier = "Added" /\ Contents(t2, q) = nodes /\ Contents(t1, q) = {}

LEMMA NewAll ==
  ASSUME NEW t1, NEW t2, NEW q \in DirPaths, NEW s, IsTree(s), NEW m,
         Alone(t1, t2, q, ToSet(s), m)
  PROVE  LET e == All(q, s, 1, m)
         IN e \in DiffCalls(t1, t2) /\ e.path = q /\ Ahead(e) = {n.name : n \in ToSet(s)}
BY FromFirst DEF All, DiffCalls, AllCalls, Ahead, Alone

LEMMA NewPair ==
  ASSUME NEW t1, NEW t2, NEW q \in DirPaths, NEW s1, IsTree(s1), NEW s2, IsTree(s2),
         ToSet(s1) = Contents(t1, q), ToSet(s2) = Contents(t2, q)
  PROVE  LET e == Pair(q, s1, s2, 1, 1)
         IN /\ e \in DiffCalls(t1, t2) /\ e.path = q
            /\ Ahead(e) = {n.name : n \in ToSet(s1)} \cup {n.name : n \in ToSet(s2)}
BY FromFirst DEF Pair, DiffCalls, PairCalls, Ahead, Before

----------------------------------------------------------------------------
(* The summary. *)
LEMMA SubjectIs ==
  ASSUME NEW t1 \in Trees, NEW t2 \in Trees, NEW c \in ToShow(t1, t2), c.modifier \in Modifiers
  PROVE  Subject(t1, t2, c) \in TreeNodes /\ Subject(t1, t2, c).data \in Nat
<1>1. c.path \in Paths(t1) \cup Paths(t2) /\ c.modifier = Became(t1, t2, c.path)
  BY ChangedAre DEF Changed
<1>2. CASE c.modifier = "Removed"
  <2>1. c.path \in Paths(t1)
    BY <1>1, <1>2 DEF Became
  <2> QED
    BY <1>2, <2>1, TreesAre, NodeAtType, SubTree DEF Subject
<1>3. CASE c.modifier # "Removed"
  <2>1. c.path \in Paths(t2)
    BY <1>1, <1>3 DEF Became
  <2> QED
    BY <1>3, <2>1, TreesAre, NodeAtType, SubTree DEF Subject
<1> QED
  BY <1>2, <1>3

LEMMA OneCounted ==
  ASSUME NEW t1 \in Trees, NEW t2 \in Trees, NEW m \in Modifiers,
         out \in Seq(ToShow(t1, t2)), NEW c \in ToShow(t1, t2), out' = Append(out, c)
  PROVE  /\ Total(FilesOf(t1, t2, m)) \in Nat /\ Total(BytesOf(t1, t2, m)) \in Nat
         /\ Total(FilesOf(t1, t2, m)') =
              Total(FilesOf(t1, t2, m)) + IF IsFileOf(t1, t2, m, c) THEN 1 ELSE 0
         /\ Total(BytesOf(t1, t2, m)') =
              Total(BytesOf(t1, t2, m))
                + IF IsFileOf(t1, t2, m, c) THEN Subject(t1, t2, c).data ELSE 0
<1> DEFINE E == ToShow(t1, t2)
           F == [d \in E |-> IF IsFileOf(t1, t2, m, d) THEN 1 ELSE 0]
           B == [d \in E |-> IF IsFileOf(t1, t2, m, d) THEN Subject(t1, t2, d).data ELSE 0]
<1>1. F \in [E -> Nat]
  OBVIOUS
<1>2. B \in [E -> Nat]
  BY SubjectIs DEF IsFileOf
<1>3. out' \in Seq(E) /\ (\A i \in DOMAIN out : out[i] \in E) /\ (\A i \in DOMAIN out' : out'[i] \in E)
  <2>1. out' \in Seq(E)
    BY AppendProperties
  <2> QED
    BY <2>1
<1>4. /\ FilesOf(t1, t2, m) = [i \in DOMAIN out |-> F[out[i]]]
      /\ FilesOf(t1, t2, m)' = [i \in DOMAIN out' |-> F[out'[i]]]
  BY <1>3 DEF FilesOf
<1>5. /\ BytesOf(t1, t2, m) = [i \in DOMAIN out |-> B[out[i]]]
      /\ BytesOf(t1, t2, m)' = [i \in DOMAIN out' |-> B[out'[i]]]
  BY <1>3 DEF BytesOf
<1>6. /\ F[c] = IF IsFileOf(t1, t2, m, c) THEN 1 ELSE 0
      /\ B[c] = IF IsFileOf(t1, t2, m, c) THEN Subject(t1, t2, c).data ELSE 0
      /\ F[c] \in Nat /\ B[c] \in Nat
  BY <1>1, <1>2
<1> HIDE DEF E, F, B
<1>7. c \in E /\ out \in Seq(E)
  BY DEF E
<1>8. FilesOf(t1, t2, m) \in Seq(Nat) /\ FilesOf(t1, t2, m)' = Append(FilesOf(t1, t2, m), F[c])
  BY <1>1, <1>4, <1>7, MapAppend
<1>9. BytesOf(t1, t2, m) \in Seq(Nat) /\ BytesOf(t1, t2, m)' = Append(BytesOf(t1, t2, m), B[c])
  BY <1>2, <1>5, <1>7, MapAppend
<1>10. /\ Total(FilesOf(t1, t2, m)) \in Nat
       /\ Total(FilesOf(t1, t2, m)') = Total(FilesOf(t1, t2, m)) + F[c]
  BY <1>6, <1>8, TotalAppend
<1>11. /\ Total(BytesOf(t1, t2, m)) \in Nat
       /\ Total(BytesOf(t1, t2, m)') = Total(BytesOf(t1, t2, m)) + B[c]
  BY <1>6, <1>9, TotalAppend
<1> QED
  BY <1>6, <1>10, <1>11

LEMMA CountKeeps ==
  ASSUME NEW t1 \in Trees, NEW t2 \in Trees, SummaryState(t1, t2),
         out \in Seq(ToShow(t1, t2)), NEW c \in ToShow(t1, t2), out' = Append(out, c),
         NEW n, NEW bytes \in Nat,
         summary' = IF c.modifier \in Modifiers THEN Counted(c.modifier, n, bytes) ELSE summary,
         c.modifier \in Modifiers => n.kind = Subject(t1, t2, c).kind,
         c.modifier \in {"Added", "Removed"} => bytes = Subject(t1, t2, c).data
  PROVE  SummaryState(t1, t2)'
<1> DEFINE one(m) == m = c.modifier /\ n.kind = "File"
<1>1. summary \in [Modifiers -> [files : Nat, bytes : Nat]]
  BY DEF SummaryState
<1>2. ASSUME NEW m \in Modifiers, one(m)
      PROVE  /\ IsFileOf(t1, t2, m, c)
             /\ summary'[m].files = summary[m].files + 1
             /\ summary'[m].bytes = summary[m].bytes + bytes
  <2>1. summary' = [summary EXCEPT ![m] = [files |-> summary[m].files + 1,
                                           bytes |-> summary[m].bytes + bytes]]
    BY <1>2 DEF Counted
  <2>2. summary'[m] = [files |-> summary[m].files + 1, bytes |-> summary[m].bytes + bytes]
    BY <1>1, <2>1
  <2>3. IsFileOf(t1, t2, m, c)
    BY <1>2 DEF IsFileOf
  <2> QED
    BY <2>2, <2>3
<1>6. ASSUME NEW m \in Modifiers, ~one(m)
      PROVE  ~IsFileOf(t1, t2, m, c) /\ summary'[m] = summary[m]
  <2>1. ~IsFileOf(t1, t2, m, c)
    BY <1>6 DEF IsFileOf
  <2>2. CASE c.modifier \in Modifiers /\ n.kind = "File"
    <3>1. m # c.modifier
      BY <1>6, <2>2
    <3>2. summary' = [summary EXCEPT ![c.modifier] = [files |-> @.files + 1, bytes |-> @.bytes + bytes]]
      BY <2>2 DEF Counted
    <3> QED
      BY <1>1, <2>1, <3>1, <3>2
  <2>3. CASE ~(c.modifier \in Modifiers /\ n.kind = "File")
    <3>1. summary' = summary
      BY <2>3 DEF Counted
    <3> QED
      BY <2>1, <3>1
  <2> QED
    BY <2>2, <2>3
<1>3. summary' \in [Modifiers -> [files : Nat, bytes : Nat]]
  <2>1. ASSUME NEW m \in Modifiers
        PROVE  [files |-> summary[m].files + 1, bytes |-> summary[m].bytes + bytes]
                 \in [files : Nat, bytes : Nat]
    BY <1>1
  <2>2. CASE c.modifier \in Modifiers /\ n.kind = "File"
    BY <1>1, <2>1, <2>2 DEF Counted
  <2>3. CASE ~(c.modifier \in Modifiers /\ n.kind = "File")
    BY <1>1, <2>3 DEF Counted
  <2> QED
    BY <2>2, <2>3
<1>4. ASSUME NEW m \in Modifiers PROVE summary'[m].files = Total(FilesOf(t1, t2, m)')
  <2>1. Total(FilesOf(t1, t2, m)') =
          Total(FilesOf(t1, t2, m)) + IF IsFileOf(t1, t2, m, c) THEN 1 ELSE 0
    BY OneCounted
  <2>2. summary[m].files = Total(FilesOf(t1, t2, m)) /\ summary[m].files \in Nat
    BY <1>1 DEF SummaryState
  <2>3. CASE one(m)
    <3>1. IsFileOf(t1, t2, m, c) /\ summary'[m].files = summary[m].files + 1
      BY <1>2, <2>3
    <3> QED
      BY <2>1, <2>2, <3>1
  <2>4. CASE ~one(m)
    <3>1. ~IsFileOf(t1, t2, m, c) /\ summary'[m].files = summary[m].files
      BY <1>6, <2>4
    <3> QED
      BY <2>1, <2>2, <3>1
  <2> QED
    BY <2>3, <2>4
<1>5. ASSUME NEW m \in {"Added", "Removed"} PROVE summary'[m].bytes = Total(BytesOf(t1, t2, m)')
  <2>0. m \in Modifiers
    BY DEF Modifiers
  <2>1. Total(BytesOf(t1, t2, m)') =
          Total(BytesOf(t1, t2, m)) + IF IsFileOf(t1, t2, m, c) THEN Subject(t1, t2, c).data ELSE 0
    BY <2>0, OneCounted
  <2>2. summary[m].bytes = Total(BytesOf(t1, t2, m)) /\ summary[m].bytes \in Nat
    BY <1>1, <2>0 DEF SummaryState
  <2>3. IsFileOf(t1, t2, m, c) => bytes = Subject(t1, t2, c).data
    BY DEF IsFileOf
  <2>4. CASE one(m)
    <3>1. IsFileOf(t1, t2, m, c) /\ summary'[m].bytes = summary[m].bytes + bytes
      BY <1>2, <2>0, <2>4
    <3> QED
      BY <2>1, <2>2, <2>3, <3>1
  <2>5. CASE ~one(m)
    <3>1. ~IsFileOf(t1, t2, m, c) /\ summary'[m].bytes = summary[m].bytes
      BY <1>6, <2>0, <2>5
    <3> QED
      BY <2>1, <2>2, <3>1
  <2> QED
    BY <2>4, <2>5
<1> QED
  BY <1>3, <1>4, <1>5 DEF SummaryState

----------------------------------------------------------------------------
(* The cursors. *)
LEMMA PairIs ==
  ASSUME NEW t1, NEW t2, NEW c \in PairCalls(t1, t2)
  PROVE  /\ c.of = "pair" /\ c.path \in DirPaths /\ c \in DiffCalls(t1, t2)
         /\ IsTree(c.first) /\ ToSet(c.first) = Contents(t1, c.path) /\ c.i \in 1..Len(c.first) + 1
         /\ IsTree(c.second) /\ ToSet(c.second) = Contents(t2, c.path) /\ c.j \in 1..Len(c.second) + 1
         /\ Before(NamesTo(c.first, c.i), NamesFrom(c.second, c.j))
         /\ Before(NamesTo(c.second, c.j), NamesFrom(c.first, c.i))
         /\ Ahead(c) = NamesFrom(c.first, c.i) \cup NamesFrom(c.second, c.j)
         /\ c.i \in Nat /\ c.j \in Nat /\ Len(c.first) \in Nat /\ Len(c.second) \in Nat
BY DEF PairCalls, DiffCalls, Ahead

\* A call with its cursors at other positions.
At(c, i, j) == [c EXCEPT !.i = i, !.j = j]

LEMMA PairAt ==
  ASSUME NEW t1, NEW t2, NEW c \in PairCalls(t1, t2), NEW i \in Nat, NEW j \in Nat,
         i \in 1..Len(c.first) + 1, j \in 1..Len(c.second) + 1,
         Before(NamesTo(c.first, i), NamesFrom(c.second, j)),
         Before(NamesTo(c.second, j), NamesFrom(c.first, i))
  PROVE  /\ At(c, i, j) \in DiffCalls(t1, t2) /\ At(c, i, j).path = c.path
         /\ Ahead(At(c, i, j)) = NamesFrom(c.first, i) \cup NamesFrom(c.second, j)
<1> DEFINE d == At(c, i, j)
<1>1. /\ d \in [of : {"pair"}, path : DirPaths, first : Seq(TreeNodes), second : Seq(TreeNodes),
                i : Nat, j : Nat]
      /\ d.of = "pair" /\ d.path = c.path /\ d.first = c.first /\ d.second = c.second
      /\ d.i = i /\ d.j = j
  BY DEF PairCalls, At
<1> HIDE DEF d
<1>2. d \in PairCalls(t1, t2)
  BY <1>1, PairIs DEF PairCalls
<1>3. Ahead(d) = NamesFrom(c.first, i) \cup NamesFrom(c.second, j)
  BY <1>1 DEF Ahead
<1> QED
  BY <1>1, <1>2, <1>3 DEF DiffCalls, d

\* From two positions past the name at the first of them.
Onwards(s, k, u, l, i, j) ==
  /\ Before(NamesTo(s, i), NamesFrom(u, j)) /\ Before(NamesTo(u, j), NamesFrom(s, i))
  /\ s[k].name \in NamesFrom(s, k) \cup NamesFrom(u, l)
  /\ NamesFrom(s, i) \cup NamesFrom(u, j) = (NamesFrom(s, k) \cup NamesFrom(u, l)) \ {s[k].name}

\* The node at a cursor, when the other cursor has come to a later name or the end.
LEMMA ComesFirst ==
  ASSUME NEW s, IsTree(s), NEW k \in 1..Len(s), NEW u, IsTree(u), NEW l \in 1..Len(u) + 1,
         Before(NamesTo(s, k), NamesFrom(u, l)), Before(NamesTo(u, l), NamesFrom(s, k)),
         l <= Len(u) => s[k].name < u[l].name
  PROVE  (\A m \in ToSet(u) : m.name # s[k].name) /\ Onwards(s, k, u, l, k + 1, l)
<1> DEFINE x == s[k].name
<1>1. /\ x \in Names /\ x \in Nat /\ k + 1 \in 1..Len(s) + 1
      /\ NamesFrom(s, k) = {x} \cup NamesFrom(s, k + 1)
      /\ NamesTo(s, k + 1) = NamesTo(s, k) \cup {x}
      /\ \A y \in NamesFrom(s, k + 1) : x < y
  BY NamesNext
<1>2. /\ NamesFrom(u, l) \subseteq Nat /\ NamesTo(u, l) \subseteq Nat
      /\ {m.name : m \in ToSet(u)} = NamesTo(u, l) \cup NamesFrom(u, l)
      /\ NamesFrom(s, k + 1) \subseteq Nat
  BY <1>1, NamesIn, TreesAssumption
<1>3. \A y \in NamesFrom(u, l) : x < y
  <2>1. CASE l <= Len(u)
    <3>1. l \in 1..Len(u)
      BY <2>1
    <3>2. u[l].name \in Nat /\ NamesFrom(u, l) = {u[l].name} \cup NamesFrom(u, l + 1)
          /\ \A y \in NamesFrom(u, l + 1) : u[l].name < y
      BY <3>1, NamesNext
    <3>3. x < u[l].name
      BY <2>1
    <3> HIDE DEF x
    <3> QED
      BY <1>1, <1>2, <3>2, <3>3
  <2>2. CASE ~(l <= Len(u))
    BY <2>2, NamesEnd
  <2> QED
    BY <2>1, <2>2
<1>4. \A y \in NamesTo(u, l) : y < x
  BY <1>1 DEF Before
<1> HIDE DEF x
<1>5. \A m \in ToSet(u) : m.name # x
  <2> SUFFICES ASSUME NEW m \in ToSet(u), m.name = x PROVE FALSE
    OBVIOUS
  <2>1. x \in NamesTo(u, l) \cup NamesFrom(u, l)
    BY <1>2
  <2>2. ~(x < x)
    BY <1>1
  <2> QED
    BY <1>3, <1>4, <2>1, <2>2
<1>6. x \notin NamesFrom(u, l) /\ x \notin NamesFrom(s, k + 1)
  <2>1. ~(x < x)
    BY <1>1
  <2> QED
    BY <1>1, <1>3, <2>1
<1>7. Before(NamesTo(s, k + 1), NamesFrom(u, l)) /\ Before(NamesTo(u, l), NamesFrom(s, k + 1))
  BY <1>1, <1>3 DEF Before
<1>8. NamesFrom(s, k + 1) \cup NamesFrom(u, l) = (NamesFrom(s, k) \cup NamesFrom(u, l)) \ {x}
  BY <1>1, <1>6
<1> QED
  BY <1>1, <1>5, <1>7, <1>8 DEF x, Onwards

LEMMA ComeTogether ==
  ASSUME NEW s, IsTree(s), NEW k \in 1..Len(s), NEW u, IsTree(u), NEW l \in 1..Len(u),
         Before(NamesTo(s, k), NamesFrom(u, l)), Before(NamesTo(u, l), NamesFrom(s, k)),
         s[k].name = u[l].name
  PROVE  Onwards(s, k, u, l, k + 1, l + 1)
<1> DEFINE x == s[k].name
<1>1. /\ x \in Nat /\ NamesFrom(s, k) = {x} \cup NamesFrom(s, k + 1)
      /\ NamesTo(s, k + 1) = NamesTo(s, k) \cup {x}
      /\ \A y \in NamesFrom(s, k + 1) : x < y
  BY NamesNext
<1>2. /\ NamesFrom(u, l) = {x} \cup NamesFrom(u, l + 1)
      /\ NamesTo(u, l + 1) = NamesTo(u, l) \cup {x}
      /\ \A y \in NamesFrom(u, l + 1) : x < y
  <2>1. /\ NamesFrom(u, l) = {u[l].name} \cup NamesFrom(u, l + 1)
        /\ NamesTo(u, l + 1) = NamesTo(u, l) \cup {u[l].name}
        /\ \A y \in NamesFrom(u, l + 1) : u[l].name < y
    BY NamesNext
  <2>2. u[l].name = x
    OBVIOUS
  <2> HIDE DEF x
  <2> QED
    BY <2>1, <2>2
<1> HIDE DEF x
<1>3. ~(x < x)
  BY <1>1
<1>4. x \notin NamesFrom(u, l + 1) /\ x \notin NamesFrom(s, k + 1)
  BY <1>1, <1>2, <1>3
<1> QED
  BY <1>1, <1>2, <1>4 DEF Before, x, Onwards

LEMMA AllIs ==
  ASSUME NEW t1, NEW t2, NEW c \in AllCalls(t1, t2)
  PROVE  /\ c.of = "all" /\ c.path \in DirPaths /\ c \in DiffCalls(t1, t2)
         /\ IsTree(c.nodes) /\ c.i \in 1..Len(c.nodes) + 1 /\ c.i \in Nat
         /\ c.modifier \in {"Removed", "Added"}
         /\ c.modifier = "Removed" => ToSet(c.nodes) = Contents(t1, c.path) /\ Contents(t2, c.path) = {}
         /\ c.modifier = "Added" => ToSet(c.nodes) = Contents(t2, c.path) /\ Contents(t1, c.path) = {}
         /\ Ahead(c) = NamesFrom(c.nodes, c.i)
BY DEF AllCalls, DiffCalls, Ahead

LEMMA AllNext ==
  ASSUME NEW t1, NEW t2, NEW c \in AllCalls(t1, t2), c.i <= Len(c.nodes)
  PROVE  LET d == [c EXCEPT !.i = @ + 1]
             x == c.nodes[c.i].name
         IN /\ d \in DiffCalls(t1, t2) /\ d.path = c.path
            /\ x \in Ahead(c) /\ Ahead(d) = Ahead(c) \ {x}
            /\ c.nodes[c.i] \in ToSet(c.nodes)
<1> DEFINE d == [c EXCEPT !.i = @ + 1]
           x == c.nodes[c.i].name
<1>1. c.i \in 1..Len(c.nodes) /\ IsTree(c.nodes) /\ c.i \in Nat
  BY AllIs
<1>2. /\ c.nodes[c.i] \in ToSet(c.nodes) /\ x \in Nat /\ c.i + 1 \in 1..Len(c.nodes) + 1
      /\ NamesFrom(c.nodes, c.i) = {x} \cup NamesFrom(c.nodes, c.i + 1)
      /\ \A y \in NamesFrom(c.nodes, c.i + 1) : x < y
  BY <1>1, NamesNext
<1>3. /\ d \in [of : {"all"}, path : DirPaths, nodes : Seq(TreeNodes), i : Nat,
                modifier : {"Added", "Removed"}]
      /\ d.of = "all" /\ d.path = c.path /\ d.nodes = c.nodes /\ d.i = c.i + 1
      /\ d.modifier = c.modifier
  BY <1>1 DEF AllCalls
<1> HIDE DEF d, x
<1>4. d \in AllCalls(t1, t2)
  BY <1>2, <1>3 DEF AllCalls
<1>5. Ahead(d) = NamesFrom(c.nodes, c.i + 1)
  BY <1>3 DEF Ahead
<1>6. x \notin NamesFrom(c.nodes, c.i + 1)
  <2>1. ~(x < x)
    BY <1>2
  <2> QED
    BY <1>2, <2>1
<1> QED
  <2>1. Ahead(c) = NamesFrom(c.nodes, c.i)
    BY AllIs
  <2>2. x \in Ahead(c) /\ Ahead(d) = Ahead(c) \ {x}
    BY <1>2, <1>5, <1>6, <2>1
  <2> QED
    BY <1>2, <1>3, <1>4, <2>2 DEF DiffCalls, d, x

----------------------------------------------------------------------------
(* What became of a path at which only one snapshot has a node. *)
OnlyThere(t1, t2, path, n, modifier) ==
  \/ modifier = "Removed" /\ n \in Contents(t1, path) /\ \A m \in Contents(t2, path) : m.name # n.name
  \/ modifier = "Added" /\ n \in Contents(t2, path) /\ \A m \in Contents(t1, path) : m.name # n.name

LEMMA OnlyThereIs ==
  ASSUME NEW t1 \in Trees, NEW t2 \in Trees, NEW path \in DirPaths, NEW n, NEW modifier,
         OnlyThere(t1, t2, path, n, modifier)
  PROVE  LET q == Within(path, n)
         IN /\ path \in Seq(Names) /\ q \in DirPaths /\ q = Append(path, n.name) /\ n.name \in Names
            /\ n \in TreeNodes /\ q \in Changed(t1, t2) /\ Became(t1, t2, q) = modifier
            /\ Subject(t1, t2, Change(modifier, q)) = n
            /\ Alone(t1, t2, q, Children(n), modifier)
            /\ \A p \in Changed(t1, t2) :
                 Beyond(p, q) => p \in Downwards(q, {m.name : m \in Children(n)})
<1> DEFINE q == Within(path, n)
<1>1. CASE modifier = "Removed" /\ n \in Contents(t1, path)
           /\ \A m \in Contents(t2, path) : m.name # n.name
  <2>1. /\ IsTree(t1) /\ path \in Seq(Names) /\ n \in TreeNodes /\ n.name \in Names
        /\ q = Append(path, n.name) /\ q \in DirPaths /\ q \in Seq(Names) /\ q \in Paths(t1)
        /\ NodeAt(t1, q) = n /\ Contents(t1, q) = Children(n)
    BY <1>1, NodeHere
  <2>2. q \notin Paths(t2) /\ Contents(t2, q) = {} /\ IsTree(t2)
    BY <1>1, <2>1, NoneHere, TreesAre
  <2> HIDE DEF q
  <2>3. Became(t1, t2, q) = "Removed" /\ q \in Changed(t1, t2)
    BY <2>1, <2>2 DEF Became, Changed
  <2>4. Subject(t1, t2, Change("Removed", q)) = n
    BY <2>1 DEF Subject, Change
  <2>5. ASSUME NEW p \in Changed(t1, t2), Beyond(p, q)
        PROVE  p \in Downwards(q, {m.name : m \in Children(n)})
    <3>1. p \notin Paths(t2)
      BY <2>1, <2>2, <2>5, NextOn
    <3>2. p \in Paths(t1)
      BY <3>1 DEF Changed
    <3>3. p \in Downwards(q, {m.name : m \in Contents(t1, q)})
      BY <2>1, <2>5, <3>2, BelowAre
    <3> QED
      BY <2>1, <3>3
  <2> QED
    BY <1>1, <2>1, <2>2, <2>3, <2>4, <2>5 DEF q, Alone
<1>2. CASE modifier = "Added" /\ n \in Contents(t2, path)
           /\ \A m \in Contents(t1, path) : m.name # n.name
  <2>1. /\ IsTree(t2) /\ path \in Seq(Names) /\ n \in TreeNodes /\ n.name \in Names
        /\ q = Append(path, n.name) /\ q \in DirPaths /\ q \in Seq(Names) /\ q \in Paths(t2)
        /\ NodeAt(t2, q) = n /\ Contents(t2, q) = Children(n)
    BY <1>2, NodeHere
  <2>2. q \notin Paths(t1) /\ Contents(t1, q) = {} /\ IsTree(t1)
    BY <1>2, <2>1, NoneHere, TreesAre
  <2> HIDE DEF q
  <2>3. Became(t1, t2, q) = "Added" /\ q \in Changed(t1, t2)
    BY <2>1, <2>2 DEF Became, Changed
  <2>4. Subject(t1, t2, Change("Added", q)) = n
    BY <2>1 DEF Subject, Change
  <2>5. ASSUME NEW p \in Changed(t1, t2), Beyond(p, q)
        PROVE  p \in Downwards(q, {m.name : m \in Children(n)})
    <3>1. p \notin Paths(t1)
      BY <2>1, <2>2, <2>5, NextOn
    <3>2. p \in Paths(t2)
      BY <3>1 DEF Changed
    <3>3. p \in Downwards(q, {m.name : m \in Contents(t2, q)})
      BY <2>1, <2>5, <3>2, BelowAre
    <3> QED
      BY <2>1, <3>3
  <2> QED
    BY <1>2, <2>1, <2>2, <2>3, <2>4, <2>5 DEF q, Alone
<1> QED
  BY <1>1, <1>2 DEF OnlyThere

\* The call for what is below a node.
HasCall(t1, t2, q, n, modifier) ==
  \E e \in DiffCalls(t1, t2) :
    /\ AllUnder(q, n, modifier) = <<e>> /\ e.path = q
    /\ \A p \in Downwards(q, {m.name : m \in Children(n)}) : p \in Downwards(q, Ahead(e))

LEMMA UnderCall ==
  ASSUME NEW t1, NEW t2, NEW q \in DirPaths, NEW n \in TreeNodes, n.sub # <<>>, NEW modifier,
         Alone(t1, t2, q, Children(n), modifier)
  PROVE  HasCall(t1, t2, q, n, modifier)
<1> DEFINE s == n.sub[1]
           e == All(q, s, 1, modifier)
<1>1. IsTree(s) /\ Children(n) = ToSet(s)
  BY SubTree DEF Children
<1>2. AllUnder(q, n, modifier) = <<e>>
  BY DEF AllUnder
<1> HIDE DEF s
<1>3. /\ All(q, s, 1, modifier) \in DiffCalls(t1, t2) /\ All(q, s, 1, modifier).path = q
      /\ Ahead(All(q, s, 1, modifier)) = {m.name : m \in ToSet(s)}
  <2>1. IsTree(s) /\ Alone(t1, t2, q, ToSet(s), modifier)
    BY <1>1
  <2> QED
    BY <2>1, NewAll
<1> QED
  BY <1>1, <1>2, <1>3 DEF HasCall

\* A node that only one snapshot has is shown, counted, and what is below it is
\* ahead of a call for it.
LEMMA EmitKeeps ==
  ASSUME NEW t1 \in Trees, NEW t2 \in Trees, DiffState(t1, t2), SummaryState(t1, t2), calls # <<>>,
         NEW n, NEW modifier \in {"Added", "Removed"},
         OnlyThere(t1, t2, Call.path, n, modifier), n.name \in Ahead(Call),
         NEW d \in DiffCalls(t1, t2), d.path = Call.path, Ahead(d) = Ahead(Call) \ {n.name},
         Emit(n, Within(Call.path, n), modifier, Append(Callers, d))
  PROVE  DiffState(t1, t2)' /\ SummaryState(t1, t2)'
<1> DEFINE q == Within(Call.path, n)
           r == Append(Callers, d)
           c == Change(modifier, q)
<1>1. Call \in DiffCalls(t1, t2) /\ Callers \in Seq(DiffCalls(t1, t2)) /\ out \in Seq(ToShow(t1, t2))
  BY Tops DEF DiffState, Call, Callers
<1>2. Call.path \in DirPaths
  BY <1>1, CallIs
<1>3. /\ q \in DirPaths /\ q = Append(Call.path, n.name) /\ n.name \in Names
      /\ n \in TreeNodes /\ q \in Changed(t1, t2) /\ Became(t1, t2, q) = modifier
      /\ Subject(t1, t2, c) = n
      /\ Alone(t1, t2, q, Children(n), modifier)
      /\ \A p \in Changed(t1, t2) :
           Beyond(p, q) => p \in Downwards(q, {m.name : m \in Children(n)})
  BY <1>2, OnlyThereIs
<1>4. out' = Append(out, c) /\ summary' = Counted(modifier, n, n.data)
      /\ calls' = r \o AllUnder(q, n, modifier)
  BY DEF Emit
<1>5. r \in Seq(DiffCalls(t1, t2))
  BY <1>1
<1> HIDE DEF q, r
<1>6. \/ calls' = r /\ \A p \in Changed(t1, t2) : ~Beyond(p, q)
      \/ \E e \in DiffCalls(t1, t2) :
           /\ calls' = Append(r, e) /\ e.path = q
           /\ \A p \in Changed(t1, t2) : Beyond(p, q) => p \in Downwards(q, Ahead(e))
  <2>1. CASE n.sub = <<>>
    <3>1. calls' = r
      BY <1>4, <1>5, <2>1 DEF AllUnder
    <3>2. Downwards(q, {m.name : m \in Children(n)}) = {}
      BY <2>1 DEF Children, Downwards
    <3> QED
      BY <1>3, <3>1, <3>2
  <2>2. CASE n.sub # <<>>
    <3>1. PICK e \in DiffCalls(t1, t2) :
            /\ AllUnder(q, n, modifier) = <<e>> /\ e.path = q
            /\ \A p \in Downwards(q, {m.name : m \in Children(n)}) : p \in Downwards(q, Ahead(e))
      <4>1. q \in DirPaths /\ n \in TreeNodes /\ Alone(t1, t2, q, Children(n), modifier)
        BY <1>3
      <4>2. HasCall(t1, t2, q, n, modifier)
        BY ONLY <2>2, <4>1, UnderCall
      <4> QED
        BY <4>2 DEF HasCall
    <3>2. calls' = Append(r, e)
      BY <1>4, <1>5, <3>1, AppendIsConcat
    <3> QED
      BY <1>3, <3>1, <3>2
  <2> QED
    BY <2>1, <2>2
<1>7. DiffState(t1, t2)'
  <2>1. q \in Changed(t1, t2) /\ out' = Append(out, Change(Became(t1, t2, q), q))
    BY <1>3, <1>4
  <2> QED
    BY <1>3, <1>6, <2>1, NameKeeps DEF q, r
<1>8. SummaryState(t1, t2)'
  <2>1. c \in ToShow(t1, t2) /\ c.modifier = modifier /\ c.modifier \in Modifiers
    BY <1>3, ChangedAre DEF Change, Modifiers
  <2>2. n.data \in Nat
    BY <1>3, SubTree
  <2>3. summary' = IF c.modifier \in Modifiers THEN Counted(c.modifier, n, n.data) ELSE summary
    BY <1>4, <2>1
  <2> HIDE DEF c
  <2> QED
    BY <1>1, <1>3, <1>4, <2>1, <2>2, <2>3, CountKeeps
<1> QED
  BY <1>7, <1>8

----------------------------------------------------------------------------
(* A name that both snapshots have at a path. *)
LEMMA BothThere ==
  ASSUME NEW t1 \in Trees, NEW t2 \in Trees, NEW path \in DirPaths,
         NEW n1 \in Contents(t1, path), NEW n2 \in Contents(t2, path), n1.name = n2.name
  PROVE  LET q == Within(path, n1)
         IN /\ path \in Seq(Names) /\ q \in DirPaths /\ q = Append(path, n1.name)
            /\ n1 \in TreeNodes /\ n2 \in TreeNodes /\ n1.name \in Names
            /\ Contents(t1, q) = Children(n1) /\ Contents(t2, q) = Children(n2)
            /\ NodeAt(t2, q) = n2
            /\ n1.kind # n2.kind => Became(t1, t2, q) = "TypeChanged" /\ q \in Changed(t1, t2)
            /\ n1.kind = n2.kind /\ ~IsDir(n1) /\ n1.data # n2.data
                 => Became(t1, t2, q) = "Modified" /\ q \in Changed(t1, t2)
            /\ n1.kind = n2.kind /\ (IsDir(n1) \/ n1.data = n2.data) => q \notin Changed(t1, t2)
            /\ \A p \in Changed(t1, t2) : Beyond(p, q) =>
                 p \in Downwards(q, {m.name : m \in Children(n1)})
                         \cup Downwards(q, {m.name : m \in Children(n2)})
<1> DEFINE q == Within(path, n1)
<1>1. /\ IsTree(t1) /\ path \in Seq(Names) /\ n1 \in TreeNodes /\ n1.name \in Names
      /\ q = Append(path, n1.name) /\ q \in DirPaths /\ q \in Seq(Names) /\ q \in Paths(t1)
      /\ NodeAt(t1, q) = n1 /\ Contents(t1, q) = Children(n1)
  BY NodeHere
<1>2. q = Within(path, n2)
  BY DEF Within
<1>3. /\ IsTree(t2) /\ n2 \in TreeNodes /\ q \in Paths(t2)
      /\ NodeAt(t2, q) = n2 /\ Contents(t2, q) = Children(n2)
  <2> HIDE DEF q
  <2> QED
    BY <1>2, NodeHere
<1> HIDE DEF q
<1>4. Became(t1, t2, q) = IF n1.kind # n2.kind THEN "TypeChanged"
                          ELSE IF ~IsDir(n1) /\ n1.data # n2.data THEN "Modified" ELSE "Same"
  BY <1>1, <1>3 DEF Became
<1>5. q \in Changed(t1, t2) <=> Became(t1, t2, q) # "Same"
  BY <1>1 DEF Changed
<1>6. ASSUME NEW p \in Changed(t1, t2), Beyond(p, q)
      PROVE  p \in Downwards(q, {m.name : m \in Children(n1)})
                    \cup Downwards(q, {m.name : m \in Children(n2)})
  <2>1. CASE p \in Paths(t1)
    <3>1. p \in Downwards(q, {m.name : m \in Contents(t1, q)})
      BY <1>1, <1>6, <2>1, BelowAre
    <3> QED
      BY <1>1, <3>1
  <2>2. CASE p \in Paths(t2)
    <3>1. p \in Downwards(q, {m.name : m \in Contents(t2, q)})
      BY <1>1, <1>3, <1>6, <2>2, BelowAre
    <3> QED
      BY <1>3, <3>1
  <2> QED
    BY <2>1, <2>2 DEF Changed
<1>7. /\ n1.kind # n2.kind => Became(t1, t2, q) = "TypeChanged" /\ q \in Changed(t1, t2)
      /\ n1.kind = n2.kind /\ ~IsDir(n1) /\ n1.data # n2.data
           => Became(t1, t2, q) = "Modified" /\ q \in Changed(t1, t2)
      /\ n1.kind = n2.kind /\ (IsDir(n1) \/ n1.data = n2.data) => q \notin Changed(t1, t2)
  BY <1>4, <1>5
<1> QED
  BY <1>1, <1>3, <1>6, <1>7 DEF q

LEMMA NoneUnder ==
  ASSUME NEW q, NEW n, n.sub = <<>>
  PROVE  Children(n) = {} /\ Downwards(q, {m.name : m \in Children(n)}) = {}
BY DEF Children, Downwards

\* What both cursors are at: where the call has come to next.
Matched(t1, t2, n1, n2, d) ==
  /\ n1 \in Contents(t1, Call.path) /\ n2 \in Contents(t2, Call.path) /\ n1.name = n2.name
  /\ n1.name \in Ahead(Call)
  /\ d \in DiffCalls(t1, t2) /\ d.path = Call.path /\ Ahead(d) = Ahead(Call) \ {n1.name}

LEMMA TypeKeeps ==
  ASSUME NEW t1 \in Trees, NEW t2 \in Trees, DiffState(t1, t2), SummaryState(t1, t2), calls # <<>>,
         NEW n1, NEW n2, NEW d, Matched(t1, t2, n1, n2, d), n1.kind # n2.kind,
         out' = Append(out, Change("TypeChanged", Within(Call.path, n1))),
         calls' = Append(Callers, d) \o Replaced(n1, n2, Within(Call.path, n1)),
         summary' = summary
  PROVE  DiffState(t1, t2)' /\ SummaryState(t1, t2)'
<1> DEFINE q == Within(Call.path, n1)
           r == Append(Callers, d)
           c == Change("TypeChanged", q)
<1>0. /\ n1 \in Contents(t1, Call.path) /\ n2 \in Contents(t2, Call.path) /\ n1.name = n2.name
      /\ n1.name \in Ahead(Call)
      /\ d \in DiffCalls(t1, t2) /\ d.path = Call.path /\ Ahead(d) = Ahead(Call) \ {n1.name}
  BY DEF Matched
<1>1. Call \in DiffCalls(t1, t2) /\ Callers \in Seq(DiffCalls(t1, t2)) /\ out \in Seq(ToShow(t1, t2))
  BY Tops DEF DiffState, Call, Callers
<1>2. /\ t1 \in Trees /\ t2 \in Trees /\ Call.path \in DirPaths
      /\ n1 \in Contents(t1, Call.path) /\ n2 \in Contents(t2, Call.path) /\ n1.name = n2.name
  BY <1>0, <1>1, CallIs
<1>3. /\ q \in DirPaths /\ q = Append(Call.path, n1.name) /\ n1 \in TreeNodes /\ n2 \in TreeNodes
      /\ Contents(t1, q) = Children(n1) /\ Contents(t2, q) = Children(n2)
      /\ Became(t1, t2, q) = "TypeChanged" /\ q \in Changed(t1, t2)
      /\ \A p \in Changed(t1, t2) : Beyond(p, q) =>
           p \in Downwards(q, {m.name : m \in Children(n1)})
                   \cup Downwards(q, {m.name : m \in Children(n2)})
  <2>1. /\ q \in DirPaths /\ q = Append(Call.path, n1.name) /\ n1 \in TreeNodes /\ n2 \in TreeNodes
        /\ Contents(t1, q) = Children(n1) /\ Contents(t2, q) = Children(n2)
    BY ONLY <1>2, BothThere
  <2>2. Became(t1, t2, q) = "TypeChanged" /\ q \in Changed(t1, t2)
    BY <1>2, BothThere
  <2>3. \A p \in Changed(t1, t2) : Beyond(p, q) =>
          p \in Downwards(q, {m.name : m \in Children(n1)})
                  \cup Downwards(q, {m.name : m \in Children(n2)})
    BY ONLY <1>2, BothThere
  <2> HIDE DEF q
  <2> QED
    BY <2>1, <2>2, <2>3
<1>4. r \in Seq(DiffCalls(t1, t2))
  BY <1>0, <1>1
<1>5. n1.sub = <<>> \/ n2.sub = <<>>
  BY <1>3, SubTree
<1> HIDE DEF q, r
<1>6. \/ calls' = r /\ \A p \in Changed(t1, t2) : ~Beyond(p, q)
      \/ \E e \in DiffCalls(t1, t2) :
           /\ calls' = Append(r, e) /\ e.path = q
           /\ \A p \in Changed(t1, t2) : Beyond(p, q) => p \in Downwards(q, Ahead(e))
  <2>0. calls' = r \o (AllUnder(q, n2, "Added") \o AllUnder(q, n1, "Removed"))
    BY DEF Replaced, q, r
  <2>1. CASE n1.sub = <<>> /\ n2.sub = <<>>
    <3>1. AllUnder(q, n2, "Added") = <<>> /\ AllUnder(q, n1, "Removed") = <<>>
      BY <2>1 DEF AllUnder
    <3>2. calls' = r
      BY <1>4, <2>0, <3>1
    <3>3. \A p \in Changed(t1, t2) : ~Beyond(p, q)
      <4>1. Downwards(q, {m.name : m \in Children(n1)}) = {}
            /\ Downwards(q, {m.name : m \in Children(n2)}) = {}
        BY <2>1, NoneUnder
      <4> QED
        BY <1>3, <4>1
    <3> QED
      BY <3>2, <3>3
  <2>2. CASE n1.sub # <<>>
    <3>1. n2.sub = <<>>
      BY <1>5, <2>2
    <3>2. Children(n2) = {} /\ Downwards(q, {m.name : m \in Children(n2)}) = {}
      BY <3>1, NoneUnder
    <3>3. PICK e \in DiffCalls(t1, t2) :
            /\ AllUnder(q, n1, "Removed") = <<e>> /\ e.path = q
            /\ \A p \in Downwards(q, {m.name : m \in Children(n1)}) : p \in Downwards(q, Ahead(e))
      <4>1. Alone(t1, t2, q, Children(n1), "Removed")
        BY <1>3, <3>2 DEF Alone
      <4>2. q \in DirPaths /\ n1 \in TreeNodes
        BY <1>3
      <4>3. HasCall(t1, t2, q, n1, "Removed")
        BY ONLY <2>2, <4>1, <4>2, UnderCall
      <4> QED
        BY <4>3 DEF HasCall
    <3>4. calls' = r \o <<e>>
      <4>1. AllUnder(q, n2, "Added") = <<>>
        BY <3>1 DEF AllUnder
      <4>2. <<>> \o <<e>> = <<e>> /\ <<e>> \o <<>> = <<e>>
        OBVIOUS
      <4> QED
        BY <2>0, <3>3, <4>1, <4>2
    <3>5. calls' = Append(r, e)
      BY <1>4, <3>4, AppendIsConcat
    <3> QED
      BY <1>3, <3>2, <3>3, <3>5
  <2>3. CASE n2.sub # <<>>
    <3>1. n1.sub = <<>>
      BY <1>5, <2>3
    <3>2. Children(n1) = {} /\ Downwards(q, {m.name : m \in Children(n1)}) = {}
      BY <3>1, NoneUnder
    <3>3. PICK e \in DiffCalls(t1, t2) :
            /\ AllUnder(q, n2, "Added") = <<e>> /\ e.path = q
            /\ \A p \in Downwards(q, {m.name : m \in Children(n2)}) : p \in Downwards(q, Ahead(e))
      <4>1. Alone(t1, t2, q, Children(n2), "Added")
        BY <1>3, <3>2 DEF Alone
      <4>2. q \in DirPaths /\ n2 \in TreeNodes
        BY <1>3
      <4>3. HasCall(t1, t2, q, n2, "Added")
        BY ONLY <2>3, <4>1, <4>2, UnderCall
      <4> QED
        BY <4>3 DEF HasCall
    <3>4. calls' = r \o <<e>>
      <4>1. AllUnder(q, n1, "Removed") = <<>>
        BY <3>1 DEF AllUnder
      <4>2. <<>> \o <<e>> = <<e>> /\ <<e>> \o <<>> = <<e>>
        OBVIOUS
      <4> QED
        BY <2>0, <3>3, <4>1, <4>2
    <3>5. calls' = Append(r, e)
      BY <1>4, <3>4, AppendIsConcat
    <3> QED
      BY <1>3, <3>2, <3>3, <3>5
  <2> QED
    BY <2>1, <2>2, <2>3
<1>7. DiffState(t1, t2)'
  <2>1. q \in Changed(t1, t2) /\ out' = Append(out, Change(Became(t1, t2, q), q))
    BY <1>3 DEF q
  <2> QED
    BY <1>0, <1>3, <1>6, <2>1, NameKeeps DEF q, r
<1>8. SummaryState(t1, t2)'
  <2>1. c \in ToShow(t1, t2) /\ c.modifier \notin Modifiers
    BY <1>3, ChangedAre DEF Change, Modifiers
  <2>2. out' = Append(out, c)
    BY DEF q
  <2>3. c.modifier \notin {"Added", "Removed"} /\ 0 \in Nat
    BY DEF Change
  <2>4. summary' = IF c.modifier \in Modifiers THEN Counted(c.modifier, n1, 0) ELSE summary
    BY <2>1
  <2> HIDE DEF c
  <2> QED
    BY <1>1, <2>1, <2>2, <2>3, <2>4, CountKeeps
<1> QED
  BY <1>7, <1>8

LEMMA SummaryStays ==
  ASSUME NEW t1, NEW t2, SummaryState(t1, t2), summary' = summary, out' = out
  PROVE  SummaryState(t1, t2)'
BY DEF SummaryState, FilesOf, BytesOf

LEMMA DirsKeep ==
  ASSUME NEW t1 \in Trees, NEW t2 \in Trees, DiffState(t1, t2), SummaryState(t1, t2), calls # <<>>,
         NEW n1, NEW n2, NEW d, Matched(t1, t2, n1, n2, d), n1.kind = n2.kind, IsDir(n1),
         calls' = IF n1.sub # n2.sub /\ n1.sub # <<>> /\ n2.sub # <<>>
                  THEN Append(Append(Callers, d),
                              Pair(Within(Call.path, n1), n1.sub[1], n2.sub[1], 1, 1))
                  ELSE Append(Callers, d),
         out' = out, summary' = summary
  PROVE  DiffState(t1, t2)' /\ SummaryState(t1, t2)'
<1> DEFINE q == Within(Call.path, n1)
           r == Append(Callers, d)
<1>0. /\ n1 \in Contents(t1, Call.path) /\ n2 \in Contents(t2, Call.path) /\ n1.name = n2.name
      /\ n1.name \in Ahead(Call)
      /\ d \in DiffCalls(t1, t2) /\ d.path = Call.path /\ Ahead(d) = Ahead(Call) \ {n1.name}
  BY DEF Matched
<1>1. Call \in DiffCalls(t1, t2)
  BY Tops DEF DiffState, Call
<1>2. /\ t1 \in Trees /\ t2 \in Trees /\ Call.path \in DirPaths
      /\ n1 \in Contents(t1, Call.path) /\ n2 \in Contents(t2, Call.path) /\ n1.name = n2.name
  BY <1>0, <1>1, CallIs
<1>3. /\ q \in DirPaths /\ q = Append(Call.path, n1.name) /\ n1 \in TreeNodes /\ n2 \in TreeNodes
      /\ Contents(t1, q) = Children(n1) /\ Contents(t2, q) = Children(n2)
  BY ONLY <1>2, BothThere
<1>4. q \notin Changed(t1, t2)
  BY <1>2, BothThere
<1>5. \A p \in Changed(t1, t2) : Beyond(p, q) =>
        p \in Downwards(q, {m.name : m \in Children(n1)})
                \cup Downwards(q, {m.name : m \in Children(n2)})
  BY ONLY <1>2, BothThere
<1>6. n1.sub # <<>> /\ n2.sub # <<>>
  BY <1>3, SubTree DEF IsDir
<1> HIDE DEF q
<1>7. \/ calls' = r /\ \A p \in Changed(t1, t2) : ~Beyond(p, q)
      \/ \E e \in DiffCalls(t1, t2) :
           /\ calls' = Append(r, e) /\ e.path = q
           /\ \A p \in Changed(t1, t2) : Beyond(p, q) => p \in Downwards(q, Ahead(e))
  <2>1. CASE n1.sub = n2.sub
    <3>1. calls' = r
      BY <2>1
    <3>2. Contents(t1, q) = Contents(t2, q)
      BY <1>3, <2>1 DEF Children
    <3>3. \A p \in Changed(t1, t2) : ~Beyond(p, q)
      <4>1. IsTree(t1) /\ IsTree(t2) /\ q \in Seq(Names)
        BY <1>3, TreesAre DEF DirPaths
      <4> QED
        BY <3>2, <4>1, SameBelow
    <3> QED
      BY <3>1, <3>3
  <2>2. CASE n1.sub # n2.sub
    <3> DEFINE s1 == n1.sub[1]
               s2 == n2.sub[1]
               e == Pair(q, s1, s2, 1, 1)
    <3>1. IsTree(s1) /\ IsTree(s2) /\ Children(n1) = ToSet(s1) /\ Children(n2) = ToSet(s2)
      BY <1>3, <1>6, SubTree DEF Children
    <3>2. calls' = Append(r, e)
      BY <1>6, <2>2 DEF q
    <3> HIDE DEF s1, s2
    <3>3. ToSet(s1) = Contents(t1, q) /\ ToSet(s2) = Contents(t2, q)
      BY <1>3, <3>1
    <3>4. /\ e \in DiffCalls(t1, t2) /\ e.path = q
          /\ Ahead(e) = {n.name : n \in ToSet(s1)} \cup {n.name : n \in ToSet(s2)}
      <4>1. IsTree(s1) /\ IsTree(s2) /\ q \in DirPaths
        BY <1>3, <3>1
      <4> QED
        BY ONLY <3>3, <4>1, NewPair
    <3> HIDE DEF e
    <3>5. \A p \in Changed(t1, t2) : Beyond(p, q) => p \in Downwards(q, Ahead(e))
      <4>1. /\ {m.name : m \in Children(n1)} \subseteq Ahead(e)
            /\ {m.name : m \in Children(n2)} \subseteq Ahead(e)
        BY <3>1, <3>4
      <4> QED
        BY <1>5, <4>1, DownwardsMore
    <3> QED
      BY <3>2, <3>4, <3>5
  <2> QED
    BY <2>1, <2>2
<1> HIDE DEF r
<1>8. DiffState(t1, t2)'
  BY <1>0, <1>3, <1>4, <1>7, NameKeeps DEF r
<1> QED
  BY <1>8, SummaryStays

LEMMA DataKeep ==
  ASSUME NEW t1 \in Trees, NEW t2 \in Trees, DiffState(t1, t2), SummaryState(t1, t2), calls # <<>>,
         NEW n1, NEW n2, NEW d, Matched(t1, t2, n1, n2, d), n1.kind = n2.kind, ~IsDir(n1),
         calls' = Append(Callers, d),
         IF n1.data = n2.data THEN out' = out /\ summary' = summary
         ELSE /\ out' = Append(out, Change("Modified", Within(Call.path, n1)))
              /\ summary' = Counted("Modified", n1, 0)
  PROVE  DiffState(t1, t2)' /\ SummaryState(t1, t2)'
<1> DEFINE q == Within(Call.path, n1)
           r == Append(Callers, d)
           c == Change("Modified", q)
<1>0. /\ n1 \in Contents(t1, Call.path) /\ n2 \in Contents(t2, Call.path) /\ n1.name = n2.name
      /\ n1.name \in Ahead(Call)
      /\ d \in DiffCalls(t1, t2) /\ d.path = Call.path /\ Ahead(d) = Ahead(Call) \ {n1.name}
  BY DEF Matched
<1>1. Call \in DiffCalls(t1, t2) /\ out \in Seq(ToShow(t1, t2))
  BY Tops DEF DiffState, Call
<1>2. /\ t1 \in Trees /\ t2 \in Trees /\ Call.path \in DirPaths
      /\ n1 \in Contents(t1, Call.path) /\ n2 \in Contents(t2, Call.path) /\ n1.name = n2.name
  BY <1>0, <1>1, CallIs
<1>3. /\ q = Append(Call.path, n1.name) /\ n1 \in TreeNodes /\ n2 \in TreeNodes /\ NodeAt(t2, q) = n2
  BY ONLY <1>2, BothThere
<1>4. n1.sub = <<>> /\ n2.sub = <<>>
  BY <1>3, SubTree DEF IsDir
<1>5. calls' = r /\ \A p \in Changed(t1, t2) : ~Beyond(p, q)
  <2>1. \A p \in Changed(t1, t2) : Beyond(p, q) =>
          p \in Downwards(q, {m.name : m \in Children(n1)})
                  \cup Downwards(q, {m.name : m \in Children(n2)})
    BY ONLY <1>2, BothThere
  <2>2. Downwards(q, {m.name : m \in Children(n1)}) = {}
    BY <1>4, NoneUnder
  <2>3. Downwards(q, {m.name : m \in Children(n2)}) = {}
    BY <1>4, NoneUnder
  <2> HIDE DEF q
  <2> QED
    BY <2>1, <2>2, <2>3
<1>6. CASE n1.data = n2.data
  <2>1. q \notin Changed(t1, t2)
    BY <1>2, <1>6, BothThere
  <2>2. out' = out /\ summary' = summary
    BY <1>6
  <2> HIDE DEF q, r
  <2>3. DiffState(t1, t2)'
    BY <1>0, <1>3, <1>5, <2>1, <2>2, NameKeeps DEF r
  <2> QED
    BY <2>2, <2>3, SummaryStays
<1>7. CASE n1.data # n2.data
  <2>1. Became(t1, t2, q) = "Modified" /\ q \in Changed(t1, t2)
    BY <1>2, <1>7, BothThere
  <2>2. out' = Append(out, c) /\ summary' = Counted("Modified", n1, 0)
    BY <1>7
  <2> HIDE DEF q, r
  <2>3. DiffState(t1, t2)'
    BY <1>0, <1>3, <1>5, <2>1, <2>2, NameKeeps DEF r
  <2>4. /\ c \in ToShow(t1, t2) /\ c.modifier = "Modified" /\ c.modifier \in Modifiers
        /\ Subject(t1, t2, c) = n2
    BY <1>3, <2>1, ChangedAre DEF Change, Modifiers, Subject
  <2>5. summary' = IF c.modifier \in Modifiers THEN Counted(c.modifier, n1, 0) ELSE summary
    BY <2>2, <2>4
  <2>6. c.modifier \notin {"Added", "Removed"} /\ 0 \in Nat
    BY <2>4
  <2>7. n1.kind = Subject(t1, t2, c).kind
    BY <2>4
  <2> HIDE DEF c
  <2>8. SummaryState(t1, t2)'
    BY <1>1, <2>2, <2>4, <2>5, <2>6, <2>7, CountKeeps
  <2> QED
    BY <2>3, <2>8
<1> QED
  BY <1>6, <1>7

----------------------------------------------------------------------------
(* The steps of a diff. *)
LEMMA AskDiffKeeps ==
  ASSUME NEW t1 \in Trees, NEW t2 \in Trees,
         calls' = IF t1 = t2 THEN <<>> ELSE <<Pair(<<>>, t1, t2, 1, 1)>>,
         out' = <<>>, summary' = NoSummary
  PROVE  DiffState(t1, t2)' /\ SummaryState(t1, t2)'
<1> DEFINE S == DiffCalls(t1, t2)
           P == DiffPaths(t1, t2)
           A == DiffNames(t1, t2)
           Past == DiffPast(t1, t2)
           C == Changed(t1, t2)
           d == Pair(<<>>, t1, t2, 1, 1)
<1>1. /\ IsTree(t1) /\ Contents(t1, <<>>) = ToSet(t1) /\ IsTree(t2) /\ Contents(t2, <<>>) = ToSet(t2)
      /\ <<>> \in Seq(Names) /\ <<>> \in DirPaths
  <2>1. IsTree(t1) /\ IsTree(t2) /\ <<>> \in Seq(Names) /\ Len(<<>>) = 0 /\ MaxLevel \in Nat
    BY TreesAre, TreesAssumption
  <2> QED
    BY <2>1, ContentsEmpty DEF IsTree, DirPaths
<1>2. out' \in Seq(ToShow(t1, t2)) /\ ShownIn(out') = {} /\ Once(out') /\ DOMAIN out' = {}
  BY DEF ShownIn, Once
<1>3. \A p \in C : p \in AllPaths /\ Beyond(p, <<>>)
  BY AllPathsAre, ChangedAre DEF Beyond
<1>4. DiffState(t1, t2)'
  <2>1. CASE t1 = t2
    <3>1. calls' = <<>> /\ calls' \in Seq(S)
      BY <2>1
    <3>2. Chained(calls', P, Past) /\ ToVisit(calls', P, A) = {}
      BY <3>1, NoCalls
    <3>3. C = {}
      BY <1>1, <1>3, <2>1, SameBelow
    <3> HIDE DEF S, P, A, Past, C
    <3>4. ShownIn(out') \cap ToVisit(calls', P, A) = {} /\ C \subseteq ShownIn(out') \cup ToVisit(calls', P, A)
      BY <3>2, <3>3
    <3> QED
      BY <1>2, <3>1, <3>2, <3>4 DEF DiffState, DiffToCome, S, P, A, Past, C
  <2>2. CASE t1 # t2
    <3>1. calls' = <<d>>
      BY <2>2
    <3>2. d \in S /\ d.path = <<>> /\ Ahead(d) = {n.name : n \in ToSet(t1)} \cup {n.name : n \in ToSet(t2)}
      <4>1. ToSet(t1) = Contents(t1, <<>>) /\ ToSet(t2) = Contents(t2, <<>>)
        BY <1>1
      <4> QED
        BY ONLY <1>1, <4>1, NewPair
    <3>3. P[d] = <<>> /\ A[d] = Ahead(d)
      BY <3>2 DEF DiffPaths, DiffNames
    <3>4. \A p \in C : p \in Downwards(<<>>, Ahead(d))
      <4> SUFFICES ASSUME NEW p \in C PROVE p \in Downwards(<<>>, Ahead(d))
        OBVIOUS
      <4>1. CASE p \in Paths(t1)
        <5>1. p \in Downwards(<<>>, {n.name : n \in ToSet(t1)})
          BY <1>1, <1>3, <4>1, BelowAre
        <5>2. {n.name : n \in ToSet(t1)} \subseteq Ahead(d)
          BY <3>2
        <5> QED
          BY <5>1, <5>2, DownwardsMore
      <4>2. CASE p \in Paths(t2)
        <5>1. p \in Downwards(<<>>, {n.name : n \in ToSet(t2)})
          BY <1>1, <1>3, <4>2, BelowAre
        <5>2. {n.name : n \in ToSet(t2)} \subseteq Ahead(d)
          BY <3>2
        <5> QED
          BY <5>1, <5>2, DownwardsMore
      <4> QED
        BY <4>1, <4>2 DEF Changed
    <3> HIDE DEF S, P, A, Past, C, d
    <3>5. /\ calls' \in Seq(S) /\ Chained(calls', P, Past)
          /\ \A p : p \in ToVisit(calls', P, A) <=> p \in Downwards(P[d], A[d])
      <4>1. d \in S
        BY <3>2
      <4> QED
        BY ONLY <3>1, <4>1, FirstCall
    <3>6. C \subseteq ToVisit(calls', P, A)
      BY <3>3, <3>4, <3>5
    <3>7. ShownIn(out') \cap ToVisit(calls', P, A) = {} /\ C \subseteq ShownIn(out') \cup ToVisit(calls', P, A)
      BY <1>2, <3>6
    <3> QED
      BY <1>2, <3>5, <3>7 DEF DiffState, DiffToCome, S, P, A, Past, C
  <2> QED
    BY <2>1, <2>2
<1>5. SummaryState(t1, t2)'
  <2>1. ASSUME NEW m PROVE FilesOf(t1, t2, m)' = <<>> /\ BytesOf(t1, t2, m)' = <<>>
    BY <1>2 DEF FilesOf, BytesOf
  <2> QED
    BY <2>1, TotalEmpty DEF SummaryState, NoSummary, NoFiles, Modifiers
<1> QED
  BY <1>4, <1>5

LEMMA OfCall ==
  ASSUME NEW t1, NEW t2, DiffState(t1, t2), calls # <<>>
  PROVE  /\ Call \in DiffCalls(t1, t2) /\ Callers \in Seq(DiffCalls(t1, t2))
         /\ Call.of = "pair" => Call \in PairCalls(t1, t2)
         /\ Call.of = "all" => Call \in AllCalls(t1, t2)
         /\ Call.of \in {"pair", "all"} /\ Call.path \in DirPaths
<1>1. calls \in Seq(DiffCalls(t1, t2))
  BY DEF DiffState
<1>2. Call \in DiffCalls(t1, t2) /\ Callers \in Seq(DiffCalls(t1, t2))
  BY <1>1, Tops DEF Call, Callers
<1> QED
  BY <1>2, CallIs

LEMMA RemovedKeeps ==
  ASSUME NEW t1 \in Trees, NEW t2 \in Trees, DiffState(t1, t2), SummaryState(t1, t2), DiffRemoved
  PROVE  DiffState(t1, t2)' /\ SummaryState(t1, t2)'
<1> DEFINE c == Call
           n == Node1
           d == At(c, c.i + 1, c.j)
<1>1. calls # <<>> /\ c \in PairCalls(t1, t2)
  BY OfCall DEF DiffRemoved, InPair, Running
<1>2. /\ c.path \in DirPaths
      /\ IsTree(c.first) /\ ToSet(c.first) = Contents(t1, c.path) /\ c.i \in 1..Len(c.first) + 1
      /\ IsTree(c.second) /\ ToSet(c.second) = Contents(t2, c.path) /\ c.j \in 1..Len(c.second) + 1
      /\ Before(NamesTo(c.first, c.i), NamesFrom(c.second, c.j))
      /\ Before(NamesTo(c.second, c.j), NamesFrom(c.first, c.i))
      /\ Ahead(c) = NamesFrom(c.first, c.i) \cup NamesFrom(c.second, c.j)
      /\ c.i \in Nat /\ c.j \in Nat /\ Len(c.first) \in Nat /\ Len(c.second) \in Nat
  BY <1>1, PairIs
<1>3. /\ n = c.first[c.i] /\ c.i \in 1..Len(c.first)
      /\ c.j <= Len(c.second) => c.first[c.i].name < c.second[c.j].name
      /\ Next1 = Append(Callers, [c EXCEPT !.i = @ + 1])
      /\ Emit(n, Within(c.path, n), "Removed", Next1)
  <2>1. /\ More1 /\ (More2 => Node1.name < Node2.name)
        /\ Emit(Node1, Within(Call.path, Node1), "Removed", Next1)
    BY DEF DiffRemoved
  <2> QED
    BY <1>2, <2>1 DEF More1, More2, Node1, Node2, Next1
<1> HIDE DEF c, n
<1>4. n \in ToSet(c.first) /\ c.i + 1 \in 1..Len(c.first) + 1
  BY <1>2, <1>3, NamesNext
<1>5. /\ \A m \in ToSet(c.second) : m.name # n.name
      /\ Before(NamesTo(c.first, c.i + 1), NamesFrom(c.second, c.j))
      /\ Before(NamesTo(c.second, c.j), NamesFrom(c.first, c.i + 1))
      /\ n.name \in NamesFrom(c.first, c.i) \cup NamesFrom(c.second, c.j)
      /\ NamesFrom(c.first, c.i + 1) \cup NamesFrom(c.second, c.j)
           = (NamesFrom(c.first, c.i) \cup NamesFrom(c.second, c.j)) \ {n.name}
  <2>1. /\ IsTree(c.first) /\ c.i \in 1..Len(c.first) /\ IsTree(c.second) /\ c.j \in 1..Len(c.second) + 1
        /\ Before(NamesTo(c.first, c.i), NamesFrom(c.second, c.j))
        /\ Before(NamesTo(c.second, c.j), NamesFrom(c.first, c.i))
        /\ c.j <= Len(c.second) => c.first[c.i].name < c.second[c.j].name
    BY <1>2, <1>3
  <2>2. /\ \A m \in ToSet(c.second) : m.name # c.first[c.i].name
        /\ Onwards(c.first, c.i, c.second, c.j, c.i + 1, c.j)
    BY ONLY <2>1, ComesFirst
  <2> QED
    BY <1>3, <2>2 DEF Onwards
<1>6. /\ d \in DiffCalls(t1, t2) /\ d.path = c.path
      /\ Ahead(d) = NamesFrom(c.first, c.i + 1) \cup NamesFrom(c.second, c.j)
  BY <1>1, <1>2, <1>4, <1>5, PairAt
<1>7. n.name \in Ahead(c) /\ Ahead(d) = Ahead(c) \ {n.name}
  BY <1>2, <1>5, <1>6
<1>8. OnlyThere(t1, t2, c.path, n, "Removed")
  BY <1>2, <1>4, <1>5 DEF OnlyThere
<1>9. Emit(n, Within(c.path, n), "Removed", Append(Callers, d))
  <2>1. [c EXCEPT !.i = @ + 1] = d
    BY <1>1 DEF PairCalls, At
  <2> HIDE DEF d
  <2> QED
    BY <1>3, <2>1
<1> HIDE DEF d
<1> QED
  BY <1>1, <1>6, <1>7, <1>8, <1>9, EmitKeeps DEF c

LEMMA AddedKeeps ==
  ASSUME NEW t1 \in Trees, NEW t2 \in Trees, DiffState(t1, t2), SummaryState(t1, t2), DiffAdded
  PROVE  DiffState(t1, t2)' /\ SummaryState(t1, t2)'
<1> DEFINE c == Call
           n == Node2
           d == At(c, c.i, c.j + 1)
<1>1. calls # <<>> /\ c \in PairCalls(t1, t2)
  BY OfCall DEF DiffAdded, InPair, Running
<1>2. /\ c.path \in DirPaths
      /\ IsTree(c.first) /\ ToSet(c.first) = Contents(t1, c.path) /\ c.i \in 1..Len(c.first) + 1
      /\ IsTree(c.second) /\ ToSet(c.second) = Contents(t2, c.path) /\ c.j \in 1..Len(c.second) + 1
      /\ Before(NamesTo(c.first, c.i), NamesFrom(c.second, c.j))
      /\ Before(NamesTo(c.second, c.j), NamesFrom(c.first, c.i))
      /\ Ahead(c) = NamesFrom(c.first, c.i) \cup NamesFrom(c.second, c.j)
      /\ c.i \in Nat /\ c.j \in Nat /\ Len(c.first) \in Nat /\ Len(c.second) \in Nat
  BY <1>1, PairIs
<1>3. /\ n = c.second[c.j] /\ c.j \in 1..Len(c.second)
      /\ c.i <= Len(c.first) => c.second[c.j].name < c.first[c.i].name
      /\ Next2 = Append(Callers, [c EXCEPT !.j = @ + 1])
      /\ Emit(n, Within(c.path, n), "Added", Next2)
  <2>1. /\ More2 /\ (More1 => Node2.name < Node1.name)
        /\ Emit(Node2, Within(Call.path, Node2), "Added", Next2)
    BY DEF DiffAdded
  <2> QED
    BY <1>2, <2>1 DEF More1, More2, Node1, Node2, Next2
<1> HIDE DEF c, n
<1>4. n \in ToSet(c.second) /\ c.j + 1 \in 1..Len(c.second) + 1
  BY <1>2, <1>3, NamesNext
<1>5. /\ \A m \in ToSet(c.first) : m.name # n.name
      /\ Before(NamesTo(c.second, c.j + 1), NamesFrom(c.first, c.i))
      /\ Before(NamesTo(c.first, c.i), NamesFrom(c.second, c.j + 1))
      /\ n.name \in NamesFrom(c.second, c.j) \cup NamesFrom(c.first, c.i)
      /\ NamesFrom(c.second, c.j + 1) \cup NamesFrom(c.first, c.i)
           = (NamesFrom(c.second, c.j) \cup NamesFrom(c.first, c.i)) \ {n.name}
  <2>1. /\ IsTree(c.second) /\ c.j \in 1..Len(c.second) /\ IsTree(c.first) /\ c.i \in 1..Len(c.first) + 1
        /\ Before(NamesTo(c.second, c.j), NamesFrom(c.first, c.i))
        /\ Before(NamesTo(c.first, c.i), NamesFrom(c.second, c.j))
        /\ c.i <= Len(c.first) => c.second[c.j].name < c.first[c.i].name
    BY <1>2, <1>3
  <2>2. /\ \A m \in ToSet(c.first) : m.name # c.second[c.j].name
        /\ Onwards(c.second, c.j, c.first, c.i, c.j + 1, c.i)
    BY ONLY <2>1, ComesFirst
  <2> QED
    BY <1>3, <2>2 DEF Onwards
<1>6. /\ d \in DiffCalls(t1, t2) /\ d.path = c.path
      /\ Ahead(d) = NamesFrom(c.first, c.i) \cup NamesFrom(c.second, c.j + 1)
  BY <1>1, <1>2, <1>4, <1>5, PairAt
<1>7. n.name \in Ahead(c) /\ Ahead(d) = Ahead(c) \ {n.name}
  BY <1>2, <1>5, <1>6
<1>8. OnlyThere(t1, t2, c.path, n, "Added")
  BY <1>2, <1>4, <1>5 DEF OnlyThere
<1>9. Emit(n, Within(c.path, n), "Added", Append(Callers, d))
  <2>1. [c EXCEPT !.j = @ + 1] = d
    BY <1>1 DEF PairCalls, At
  <2> HIDE DEF d
  <2> QED
    BY <1>3, <2>1
<1> HIDE DEF d
<1> QED
  BY <1>1, <1>6, <1>7, <1>8, <1>9, EmitKeeps DEF c

LEMMA AllKeeps ==
  ASSUME NEW t1 \in Trees, NEW t2 \in Trees, DiffState(t1, t2), SummaryState(t1, t2), CollectAll
  PROVE  DiffState(t1, t2)' /\ SummaryState(t1, t2)'
<1> DEFINE c == Call
           n == c.nodes[c.i]
           d == [c EXCEPT !.i = @ + 1]
<1>1. calls # <<>> /\ c \in AllCalls(t1, t2) /\ c.i <= Len(c.nodes)
  BY OfCall DEF CollectAll, Running
<1>2. Emit(n, Within(c.path, n), c.modifier, Append(Callers, d))
  BY DEF CollectAll, Next1
<1> HIDE DEF c
<1>3. /\ c.path \in DirPaths /\ c.modifier \in {"Removed", "Added"}
      /\ c.modifier = "Removed" => ToSet(c.nodes) = Contents(t1, c.path) /\ Contents(t2, c.path) = {}
      /\ c.modifier = "Added" => ToSet(c.nodes) = Contents(t2, c.path) /\ Contents(t1, c.path) = {}
  BY <1>1, AllIs
<1>4. /\ d \in DiffCalls(t1, t2) /\ d.path = c.path
      /\ n.name \in Ahead(c) /\ Ahead(d) = Ahead(c) \ {n.name} /\ n \in ToSet(c.nodes)
  BY <1>1, AllNext
<1> HIDE DEF n, d
<1>5. OnlyThere(t1, t2, c.path, n, c.modifier)
  BY <1>3, <1>4 DEF OnlyThere
<1> QED
  BY <1>1, <1>2, <1>3, <1>4, <1>5, EmitKeeps DEF c

LEMMA BothMatch ==
  ASSUME NEW t1 \in Trees, NEW t2 \in Trees, DiffState(t1, t2), InBoth
  PROVE  \E d : NextBoth = Append(Callers, d) /\ Matched(t1, t2, Node1, Node2, d)
<1> DEFINE c == Call
           d == At(c, c.i + 1, c.j + 1)
<1>1. calls # <<>> /\ c \in PairCalls(t1, t2)
  BY OfCall DEF InBoth, InPair, Running
<1>2. /\ IsTree(c.first) /\ ToSet(c.first) = Contents(t1, c.path)
      /\ IsTree(c.second) /\ ToSet(c.second) = Contents(t2, c.path)
      /\ Before(NamesTo(c.first, c.i), NamesFrom(c.second, c.j))
      /\ Before(NamesTo(c.second, c.j), NamesFrom(c.first, c.i))
      /\ Ahead(c) = NamesFrom(c.first, c.i) \cup NamesFrom(c.second, c.j)
      /\ c.i \in 1..Len(c.first) + 1 /\ c.j \in 1..Len(c.second) + 1
      /\ Len(c.first) \in Nat /\ Len(c.second) \in Nat
  BY <1>1, PairIs
<1>3. /\ Node1 = c.first[c.i] /\ c.i \in 1..Len(c.first)
      /\ Node2 = c.second[c.j] /\ c.j \in 1..Len(c.second)
      /\ c.first[c.i].name = c.second[c.j].name
      /\ NextBoth = Append(Callers, [c EXCEPT !.i = @ + 1, !.j = @ + 1])
  BY <1>2 DEF InBoth, More1, More2, Node1, Node2, NextBoth
<1> HIDE DEF c
<1>4. /\ c.first[c.i] \in ToSet(c.first) /\ c.i + 1 \in 1..Len(c.first) + 1 /\ c.i + 1 \in Nat
      /\ c.second[c.j] \in ToSet(c.second) /\ c.j + 1 \in 1..Len(c.second) + 1 /\ c.j + 1 \in Nat
  <2>1. c.first[c.i] \in ToSet(c.first) /\ c.i + 1 \in 1..Len(c.first) + 1
    BY <1>2, <1>3, NamesNext
  <2>2. c.second[c.j] \in ToSet(c.second) /\ c.j + 1 \in 1..Len(c.second) + 1
    BY <1>2, <1>3, NamesNext
  <2>3. c.i + 1 \in Nat /\ c.j + 1 \in Nat
    BY <1>2
  <2> QED
    BY <2>1, <2>2, <2>3
<1>5. /\ Before(NamesTo(c.first, c.i + 1), NamesFrom(c.second, c.j + 1))
      /\ Before(NamesTo(c.second, c.j + 1), NamesFrom(c.first, c.i + 1))
      /\ c.first[c.i].name \in NamesFrom(c.first, c.i) \cup NamesFrom(c.second, c.j)
      /\ NamesFrom(c.first, c.i + 1) \cup NamesFrom(c.second, c.j + 1)
           = (NamesFrom(c.first, c.i) \cup NamesFrom(c.second, c.j)) \ {c.first[c.i].name}
  <2>1. /\ IsTree(c.first) /\ c.i \in 1..Len(c.first) /\ IsTree(c.second) /\ c.j \in 1..Len(c.second)
        /\ Before(NamesTo(c.first, c.i), NamesFrom(c.second, c.j))
        /\ Before(NamesTo(c.second, c.j), NamesFrom(c.first, c.i))
        /\ c.first[c.i].name = c.second[c.j].name
    BY <1>2, <1>3
  <2>2. Onwards(c.first, c.i, c.second, c.j, c.i + 1, c.j + 1)
    BY ONLY <2>1, ComeTogether
  <2> QED
    BY <2>2 DEF Onwards
<1>6. /\ d \in DiffCalls(t1, t2) /\ d.path = c.path
      /\ Ahead(d) = NamesFrom(c.first, c.i + 1) \cup NamesFrom(c.second, c.j + 1)
  BY <1>1, <1>4, <1>5, PairAt
<1>7. Node1.name \in Ahead(c) /\ Ahead(d) = Ahead(c) \ {Node1.name}
  BY <1>2, <1>3, <1>5, <1>6
<1>8. NextBoth = Append(Callers, d)
  <2>1. [c EXCEPT !.i = @ + 1, !.j = @ + 1] = d
    BY <1>1 DEF PairCalls, At
  <2> HIDE DEF d
  <2> QED
    BY <1>3, <2>1
<1> HIDE DEF d
<1>9. Matched(t1, t2, Node1, Node2, d)
  BY <1>2, <1>3, <1>4, <1>6, <1>7 DEF Matched, c
<1> QED
  BY <1>8, <1>9

LEMMA BothKeeps ==
  ASSUME NEW t1 \in Trees, NEW t2 \in Trees, DiffState(t1, t2), SummaryState(t1, t2),
         DiffType \/ DiffDirs \/ DiffData
  PROVE  DiffState(t1, t2)' /\ SummaryState(t1, t2)'
<1>1. InBoth /\ calls # <<>>
  BY DEF DiffType, DiffDirs, DiffData, InBoth, InPair, Running
<1> PICK n1, n2 : n1 = Node1 /\ n2 = Node2
  OBVIOUS
<1>2. PICK d : NextBoth = Append(Callers, d) /\ Matched(t1, t2, n1, n2, d)
  BY <1>1, BothMatch
<1>3. CASE DiffType
  <2>1. /\ n1.kind # n2.kind
        /\ out' = Append(out, Change("TypeChanged", Within(Call.path, n1)))
        /\ calls' = Append(Callers, d) \o Replaced(n1, n2, Within(Call.path, n1))
        /\ summary' = summary
    BY <1>2, <1>3 DEF DiffType
  <2> QED
    BY <1>1, <1>2, <2>1, TypeKeeps
<1>4. CASE DiffDirs
  <2>1. /\ n1.kind = n2.kind /\ IsDir(n1)
        /\ calls' = IF n1.sub # n2.sub /\ n1.sub # <<>> /\ n2.sub # <<>>
                    THEN Append(Append(Callers, d),
                                Pair(Within(Call.path, n1), n1.sub[1], n2.sub[1], 1, 1))
                    ELSE Append(Callers, d)
        /\ out' = out /\ summary' = summary
    BY <1>2, <1>4 DEF DiffDirs
  <2> QED
    BY <1>1, <1>2, <2>1, DirsKeep
<1>5. CASE DiffData
  <2>1. /\ n1.kind = n2.kind /\ ~IsDir(n1) /\ calls' = Append(Callers, d)
        /\ IF n1.data = n2.data THEN out' = out /\ summary' = summary
           ELSE /\ out' = Append(out, Change("Modified", Within(Call.path, n1)))
                /\ summary' = Counted("Modified", n1, 0)
    BY <1>2, <1>5 DEF DiffData
  <2> QED
    BY <1>1, <1>2, <2>1, DataKeep
<1> QED
  BY <1>3, <1>4, <1>5

LEMMA DiffReturnKeeps ==
  ASSUME NEW t1 \in Trees, NEW t2 \in Trees, DiffState(t1, t2), SummaryState(t1, t2), DiffReturn
  PROVE  DiffState(t1, t2)' /\ SummaryState(t1, t2)'
<1> DEFINE S == DiffCalls(t1, t2)
           P == DiffPaths(t1, t2)
           A == DiffNames(t1, t2)
           Past == DiffPast(t1, t2)
           C == Changed(t1, t2)
<1>1. calls # <<>> /\ calls' = Front(calls) /\ out' = out /\ summary' = summary
  BY DEF DiffReturn, Running, Callers
<1>2. Ahead(Call) = {}
  <2>1. CASE Call.of = "all"
    <3>1. ~(Call.i <= Len(Call.nodes)) /\ Call \in AllCalls(t1, t2)
      <4>1. Call.i > Len(Call.nodes) /\ Call \in AllCalls(t1, t2)
        BY <1>1, <2>1, OfCall DEF DiffReturn
      <4> QED
        BY <4>1 DEF AllCalls
    <3> QED
      BY <3>1, AllIs, NamesEnd
  <2>2. CASE Call.of = "pair"
    <3>1. ~(Call.i <= Len(Call.first)) /\ ~(Call.j <= Len(Call.second)) /\ Call \in PairCalls(t1, t2)
      BY <1>1, <2>2, OfCall DEF DiffReturn, More1, More2
    <3>2. NamesFrom(Call.first, Call.i) = {} /\ NamesFrom(Call.second, Call.j) = {}
      BY <3>1, PairIs, NamesEnd
    <3> QED
      BY <3>1, <3>2, PairIs
  <2> QED
    BY <1>1, <2>1, <2>2, OfCall
<1>3. /\ calls \in Seq(S) /\ Chained(calls, P, Past) /\ out \in Seq(ToShow(t1, t2)) /\ Once(out)
      /\ ShownIn(out) \cap ToVisit(calls, P, A) = {}
      /\ C \subseteq ShownIn(out) \cup ToVisit(calls, P, A)
  BY DEF DiffState, DiffToCome
<1>4. A[Last(calls)] = {}
  BY <1>1, <1>2, OfCall DEF Call, DiffNames
<1> HIDE DEF S, P, A, Past, C
<1>5. /\ Front(calls) \in Seq(S) /\ Chained(Front(calls), P, Past)
      /\ ToVisit(Front(calls), P, A) \subseteq ToVisit(calls, P, A)
      /\ ToVisit(calls, P, A) \subseteq ToVisit(Front(calls), P, A)
  BY <1>1, <1>3, <1>4, Returned
<1>6. /\ calls' \in Seq(S) /\ Chained(calls', P, Past)
      /\ ShownIn(out') \cap ToVisit(calls', P, A) = {}
      /\ C \subseteq ShownIn(out') \cup ToVisit(calls', P, A)
  BY <1>1, <1>3, <1>5
<1>7. DiffState(t1, t2)'
  BY <1>1, <1>3, <1>6 DEF DiffState, DiffToCome, S, P, A, Past, C
<1> QED
  BY <1>1, <1>7, SummaryStays

LEMMA DiffStep ==
  ASSUME DiffInv, [WalkNext]_walkVars
  PROVE  DiffInv'
<1> SUFFICES ASSUME walk'.op = "diff"
             PROVE  /\ walk'.first \in Trees /\ walk'.second \in Trees
                    /\ DiffState(walk.first, walk.second)' /\ SummaryState(walk.first, walk.second)'
  BY DEF DiffInv
<1> PICK t1, t2 : t1 = walk.first /\ t2 = walk.second
  OBVIOUS
<1>0. ASSUME walk' = walk,
             t1 \in Trees /\ t2 \in Trees /\ DiffState(t1, t2) /\ SummaryState(t1, t2)
               => DiffState(t1, t2)' /\ SummaryState(t1, t2)'
      PROVE  /\ walk'.first \in Trees /\ walk'.second \in Trees
             /\ DiffState(walk.first, walk.second)' /\ SummaryState(walk.first, walk.second)'
  <2>1. t1 \in Trees /\ t2 \in Trees /\ DiffState(t1, t2) /\ SummaryState(t1, t2)
    BY <1>0 DEF DiffInv
  <2>2. DiffState(t1, t2)' /\ SummaryState(t1, t2)'
    BY <1>0, <2>1
  <2>3. walk'.first = t1 /\ walk'.second = t2
    BY <1>0
  <2> QED
    BY <2>1, <2>2, <2>3
<1>1. CASE AskDiff
  <2>1. PICK u1 \in Trees, u2 \in Trees :
          /\ walk' = [op |-> "diff", first |-> u1, second |-> u2]
          /\ calls' = IF u1 = u2 THEN <<>> ELSE <<Pair(<<>>, u1, u2, 1, 1)>>
    BY <1>1 DEF AskDiff
  <2>2. DiffState(u1, u2)' /\ SummaryState(u1, u2)'
    BY <1>1, <2>1, AskDiffKeeps DEF AskDiff
  <2>3. walk'.first = u1 /\ walk'.second = u2
    BY <2>1
  <2> QED
    BY <2>2, <2>3
<1>2. CASE DiffRemoved
  BY <1>0, <1>2, RemovedKeeps DEF DiffRemoved, Emit
<1>3. CASE DiffAdded
  BY <1>0, <1>3, AddedKeeps DEF DiffAdded, Emit
<1>4. CASE DiffType \/ DiffDirs \/ DiffData
  <2>1. walk' = walk
    BY <1>4 DEF DiffType, DiffDirs, DiffData
  <2> QED
    BY <1>0, <1>4, <2>1, BothKeeps
<1>5. CASE CollectAll
  BY <1>0, <1>5, AllKeeps DEF CollectAll, Emit
<1>6. CASE DiffReturn
  <2>1. walk' = walk
    BY <1>6 DEF DiffReturn
  <2> QED
    BY <1>0, <1>6, <2>1, DiffReturnKeeps
<1>7. CASE AskPreview
  BY <1>7 DEF AskPreview
<1>8. CASE PreviewRow \/ PreviewFull \/ PreviewReturn
  BY <1>8 DEF PreviewRow, PreviewFull, PreviewReturn, Running
<1>9. CASE WalkDone
  BY <1>9 DEF WalkDone, NoWalk
<1>10. CASE UNCHANGED walkVars
  <2>1. walk' = walk /\ calls' = calls /\ out' = out /\ summary' = summary
    BY <1>10 DEF walkVars
  <2>2. DiffState(t1, t2) => DiffState(t1, t2)'
    BY <2>1 DEF DiffState, DiffToCome
  <2> QED
    BY <1>0, <2>1, <2>2, SummaryStays
<1> QED
  BY <1>1, <1>2, <1>3, <1>4, <1>5, <1>6, <1>7, <1>8, <1>9, <1>10 DEF WalkNext

LEMMA DiffInvRight == DiffInv => DiffRight
<1> SUFFICES ASSUME DiffInv, walk.op = "diff" PROVE DiffRight
  BY DEF DiffRight
<1> PICK t1, t2 : t1 = walk.first /\ t2 = walk.second
  OBVIOUS
<1>1. DiffState(t1, t2) /\ SummaryState(t1, t2)
  BY DEF DiffInv
<1>2. out \in Seq(ToShow(t1, t2)) /\ ToSet(out) \subseteq ToShow(t1, t2)
  BY <1>1 DEF DiffState, ToSet
<1>3. IsInjective([i \in DOMAIN out |-> out[i].path])
  BY <1>1 DEF DiffState, Once, IsInjective
<1>4. ASSUME calls = <<>> PROVE ToShow(t1, t2) \subseteq ToSet(out)
  <2> SUFFICES ASSUME NEW p \in Changed(t1, t2)
               PROVE  Change(Became(t1, t2, p), p) \in ToSet(out)
    BY DEF ToShow
  <2>1. DiffToCome(t1, t2) = {}
    BY <1>4, NoCalls DEF DiffToCome
  <2>2. PICK i \in DOMAIN out : out[i].path = p
    BY <1>1, <2>1 DEF DiffState, ShownIn
  <2>3. out[i] \in ToShow(t1, t2)
    BY <1>2
  <2>4. out[i] = Change(Became(t1, t2, p), p)
    BY <2>2, <2>3 DEF ToShow, Change
  <2> QED
    BY <2>4 DEF ToSet
<1> QED
  BY <1>1, <1>2, <1>3, <1>4 DEF DiffRight, SummaryState

\* The diff shows once what became of every path that changed, and counts it, for
\* any two trees (diff_trees with collect_all_as and emit_node: DiffRight).
THEOREM ShowsWhatChanged == WalkSpec => []DiffRight
<1>1. WalkInit => DiffInv
  BY DEF WalkInit, DiffInv, NoWalk
<1>2. DiffInv /\ [WalkNext]_walkVars => DiffInv'
  BY DiffStep
<1> QED
  BY <1>1, <1>2, DiffInvRight, PTL DEF WalkSpec

----------------------------------------------------------------------------
(* decode. *)

\* What a name over the characters of C may be decoded into.
Characters(C) == Spaces \cup Formats \cup {Back} \subseteq C
States(C) == [out : Seq(C), escape : BOOLEAN, failed : BOOLEAN]
Begun == Decoding(<<>>, FALSE, FALSE)

LEMMA DecodeStepType ==
  ASSUME NEW C, Characters(C), NEW st \in States(C), NEW c \in C
  PROVE  DecodeStep(st, c) \in States(C)
<1>1. \A s \in Seq(C), x \in C, e, f \in BOOLEAN :
        Decoding(s, e, f) \in States(C) /\ Decoding(Append(s, x), e, f) \in States(C)
  BY DEF Decoding, States
<1>2. st.out \in Seq(C)
  BY DEF States
<1>3. Unescaped(c) # {} => (CHOOSE u \in Unescaped(c) : TRUE) \in C
  <2>1. Unescaped(c) \subseteq C
    BY DEF Unescaped, Characters
  <2> QED
    BY <2>1
<1> QED
  BY <1>1, <1>2, <1>3 DEF DecodeStep

LEMMA DecodedLoop ==
  ASSUME NEW C, Characters(C), NEW s \in Seq(C)
  PROVE  \E w : /\ w[0] = Begun
                /\ \A k \in 1..Len(s) : w[k] = DecodeStep(w[k - 1], s[k])
                /\ Decoded(s) = w[Len(s)]
<1> DEFINE L == Len(s)
           F == [p \in (1..L) \X States(C) |-> DecodeStep(p[2], s[p[1]])]
           IsRun(g) == g = [k \in 0..L |-> IF k = 0 THEN Begun ELSE DecodeStep(g[k - 1], s[k])]
<1>1. L \in Nat /\ \A k \in 1..L : s[k] \in C
  OBVIOUS
<1>2. Begun \in States(C)
  BY DEF Begun, Decoding, States
<1>3. F \in [(1..L) \X States(C) -> States(C)]
  BY <1>1, DecodeStepType
<1>4. PICK w \in [0..L -> States(C)] : IsLoop(w, F, Begun, L)
  <2> HIDE DEF F, L
  <2> QED
    BY <1>1, <1>2, <1>3, SomeLoop
<1>5. w[0] = Begun /\ \A k \in 1..L : w[k] = F[<<k, w[k - 1]>>]
  <2> HIDE DEF F, L
  <2> QED
    BY <1>4 DEF IsLoop
<1>6. \A k \in 1..L : w[k] = DecodeStep(w[k - 1], s[k])
  <2> SUFFICES ASSUME NEW k \in 1..L PROVE w[k] = DecodeStep(w[k - 1], s[k])
    OBVIOUS
  <2>1. k - 1 \in 0..L /\ w[k - 1] \in States(C)
    <3> HIDE DEF F, L
    <3>1. k - 1 \in 0..L
      BY <1>1
    <3> QED
      BY <1>4, <3>1
  <2> QED
    BY <1>5, <2>1
<1>7. IsRun(w)
  <2>1. \A k \in 0..L : w[k] = IF k = 0 THEN Begun ELSE DecodeStep(w[k - 1], s[k])
    <3> HIDE DEF F, L
    <3>1. \A k \in 0..L : k = 0 \/ k \in 1..L
      BY <1>1
    <3> QED
      BY <1>5, <1>6, <3>1
  <2>2. w = [k \in 0..L |-> w[k]]
    BY <1>4
  <2> QED
    BY <2>1, <2>2
<1> DEFINE g == CHOOSE h : IsRun(h)
<1>8. IsRun(g)
  BY <1>7
<1>9. Decoded(s) = g[L]
  BY DEF Decoded, Begun
<1> HIDE DEF g
<1>10. g[0] = Begun /\ \A k \in 1..L : g[k] = DecodeStep(g[k - 1], s[k])
  <2>1. \A k \in 0..L : g[k] = IF k = 0 THEN Begun ELSE DecodeStep(g[k - 1], s[k])
    BY <1>8
  <2> QED
    BY <1>1, <2>1
<1> QED
  BY <1>9, <1>10

LEMMA DecodedEmpty == Decoded(<<>>) = Begun
<1> DEFINE C == Spaces \cup Formats \cup {Back}
<1>1. Characters(C) /\ <<>> \in Seq(C) /\ Len(<<>>) = 0
  BY DEF Characters
<1> QED
  BY <1>1, DecodedLoop

\* decode goes from left to right.
LEMMA DecodedAppend ==
  ASSUME NEW C, Characters(C), NEW s \in Seq(C), NEW c \in C
  PROVE  Decoded(Append(s, c)) = DecodeStep(Decoded(s), c)
<1> DEFINE L == Len(s)
           t == Append(s, c)
<1>1. t \in Seq(C) /\ Len(t) = L + 1 /\ t[L + 1] = c /\ L \in Nat
      /\ \A k \in 1..L : t[k] = s[k]
  BY AppendProperties
<1> HIDE DEF t
<1>2. PICK w : /\ w[0] = Begun
               /\ \A k \in 1..L : w[k] = DecodeStep(w[k - 1], s[k])
               /\ Decoded(s) = w[L]
  BY DecodedLoop
<1>3. PICK v : /\ v[0] = Begun
               /\ \A k \in 1..L + 1 : v[k] = DecodeStep(v[k - 1], t[k])
               /\ Decoded(t) = v[L + 1]
  BY <1>1, DecodedLoop
<1> HIDE DEF L
<1>4. \A k \in 1..L : v[k - 1] = w[k - 1] => v[k] = w[k]
  <2> SUFFICES ASSUME NEW k \in 1..L, v[k - 1] = w[k - 1] PROVE v[k] = w[k]
    OBVIOUS
  <2>1. k \in 1..L + 1
    BY <1>1
  <2> QED
    BY <1>1, <1>2, <1>3, <2>1
<1>5. v[L] = w[L]
  <2>1. L \in Nat /\ v[0] = w[0]
    BY <1>1, <1>2, <1>3
  <2> QED
    BY ONLY <1>4, <2>1, SameLoop
<1>6. L + 1 \in 1..L + 1 /\ (L + 1) - 1 = L
  BY <1>1
<1> QED
  BY <1>1, <1>2, <1>3, <1>5, <1>6 DEF t

LEMMA PlainStep ==
  ASSUME NEW p, NEW c, c # Back
  PROVE  DecodeStep(Decoding(p, FALSE, FALSE), c) = Decoding(Append(p, c), FALSE, FALSE)
<1> DEFINE st == Decoding(p, FALSE, FALSE)
<1>1. st.failed = FALSE /\ st.escape = FALSE /\ st.out = p
  BY DEF Decoding
<1> HIDE DEF st
<1>2. DecodeStep(st, c) = Decoding(Append(p, c), FALSE, FALSE)
  BY <1>1 DEF DecodeStep
<1> QED
  BY <1>2 DEF st

\* A name without escapes decodes to itself.
LEMMA PlainDecodes ==
  ASSUME NEW C, Characters(C), NEW s \in Seq(C), Back \notin ToSet(s)
  PROVE  Decode(s) = {s}
<1> DEFINE L == Len(s)
           G == {k \in 0..L : Decoded(SubSeq(s, 1, k)) = Decoding(SubSeq(s, 1, k), FALSE, FALSE)}
<1>0. L \in Nat
  OBVIOUS
<1>1. 0 \in G
  <2>1. SubSeq(s, 1, 0) = <<>>
    OBVIOUS
  <2>2. Decoded(SubSeq(s, 1, 0)) = Decoding(SubSeq(s, 1, 0), FALSE, FALSE)
    BY <2>1, DecodedEmpty DEF Begun
  <2>3. 0 \in 0..L
    BY <1>0
  <2> QED
    BY <2>2, <2>3
<1>2. ASSUME NEW k \in 0..L, k \in G, k < L PROVE k + 1 \in G
  <2> DEFINE p == SubSeq(s, 1, k)
  <2>1. p \in Seq(C) /\ s[k + 1] \in C /\ s[k + 1] # Back
        /\ SubSeq(s, 1, k + 1) = Append(p, s[k + 1])
    BY <1>2 DEF ToSet
  <2>2. Decoded(p) = Decoding(p, FALSE, FALSE)
    BY <1>2
  <2> HIDE DEF p
  <2>3. Decoded(Append(p, s[k + 1])) = Decoding(Append(p, s[k + 1]), FALSE, FALSE)
    <3>1. Decoded(Append(p, s[k + 1])) = DecodeStep(Decoding(p, FALSE, FALSE), s[k + 1])
      BY <2>1, <2>2, DecodedAppend
    <3> QED
      BY <2>1, <3>1, PlainStep
  <2>4. k + 1 \in 0..L
    BY <1>2
  <2> QED
    BY <2>1, <2>3, <2>4
<1> HIDE DEF G
<1>3. L \in G
  <2>1. \A k \in 0..L : k \in G
    BY <1>0, <1>1, <1>2, IndexInduction
  <2> QED
    BY <1>0, <2>1
<1>4. SubSeq(s, 1, L) = s
  OBVIOUS
<1>5. Decoded(s) = Decoding(s, FALSE, FALSE)
  BY <1>3, <1>4 DEF G
<1> QED
  BY <1>5 DEF Decode, Decoding

----------------------------------------------------------------------------
(* encode, and that decode undoes it. *)

\* FlattenSeq, whose pieces are joined from left to right.
LEMMA FlattenLoop ==
  ASSUME NEW T, NEW N \in Nat \ {0}, NEW p \in [1..N -> Seq(T)]
  PROVE  \E f : /\ f[1] = p[1]
                /\ \A k \in 2..N : f[k] = f[k - 1] \o p[k]
                /\ FlattenSeq(p) = f[N]
<1> DEFINE F == [q \in (1..N) \X Seq(T) |-> q[2] \o p[q[1]]]
           IsFlat(g) == g = [i \in 1..N |-> IF i = 1 THEN p[i] ELSE g[i - 1] \o p[i]]
<1>1. F \in [(1..N) \X Seq(T) -> Seq(T)]
  OBVIOUS
<1>2. PICK w \in [0..N -> Seq(T)] : IsLoop(w, F, <<>>, N)
  <2>1. <<>> \in Seq(T)
    OBVIOUS
  <2> HIDE DEF F
  <2> QED
    BY <1>1, <2>1, SomeLoop
<1>3. w[0] = <<>> /\ \A k \in 1..N : w[k] = F[<<k, w[k - 1]>>]
  <2> HIDE DEF F
  <2> QED
    BY <1>2 DEF IsLoop
<1>4. \A k \in 1..N : k - 1 \in 0..N /\ w[k - 1] \in Seq(T) /\ w[k] = w[k - 1] \o p[k]
  <2> SUFFICES ASSUME NEW k \in 1..N
               PROVE  k - 1 \in 0..N /\ w[k - 1] \in Seq(T) /\ w[k] = w[k - 1] \o p[k]
    OBVIOUS
  <2>1. k - 1 \in 0..N /\ w[k - 1] \in Seq(T)
    BY <1>2
  <2> QED
    BY <1>3, <2>1
<1> HIDE DEF F
<1>5. w[1] = p[1]
  <2>1. 1 \in 1..N /\ p[1] \in Seq(T) /\ 1 - 1 = 0
    OBVIOUS
  <2>2. w[1] = <<>> \o p[1]
    BY <1>3, <1>4, <2>1
  <2> QED
    BY <2>1, <2>2
<1> DEFINE v == [i \in 1..N |-> w[i]]
<1>6. IsFlat(v)
  <2>1. \A i \in 1..N : v[i] = IF i = 1 THEN p[i] ELSE v[i - 1] \o p[i]
    <3> SUFFICES ASSUME NEW i \in 1..N PROVE v[i] = IF i = 1 THEN p[i] ELSE v[i - 1] \o p[i]
      OBVIOUS
    <3>1. CASE i = 1
      BY <1>5, <3>1
    <3>2. CASE i # 1
      <4>1. i - 1 \in 1..N
        BY <3>2
      <4> QED
        BY <1>4, <3>2, <4>1
    <3> QED
      BY <3>1, <3>2
  <2>2. v = [i \in 1..N |-> v[i]]
    OBVIOUS
  <2> HIDE DEF v
  <2> QED
    BY <2>1, <2>2
<1> DEFINE g == CHOOSE h : IsFlat(h)
<1>7. IsFlat(g)
  <2> HIDE DEF v
  <2> QED
    BY <1>6
<1>8. FlattenSeq(p) = g[N]
  <2>1. Len(p) = N /\ N # 0
    OBVIOUS
  <2> QED
    BY <2>1 DEF FlattenSeq
<1> HIDE DEF g
<1>9. g[1] = p[1] /\ \A k \in 2..N : g[k] = g[k - 1] \o p[k]
  <2>1. \A k \in 1..N : g[k] = IF k = 1 THEN p[k] ELSE g[k - 1] \o p[k]
    BY <1>7
  <2>2. 1 \in 1..N /\ \A k \in 2..N : k \in 1..N /\ k # 1
    OBVIOUS
  <2> QED
    BY <2>1, <2>2
<1> QED
  BY <1>8, <1>9

\* Decoding what one character is quoted as gives that character.
LEMMA QuotedDecodes ==
  ASSUME NEW T, Characters(T), NEW s \in Seq(T), NEW x \in T,
         x \in Spaces => Escape[x] \in T,
         NEW done, Decoded(s) = Decoding(done, FALSE, FALSE)
  PROVE  Decoded(s \o Quoted(x)) = Decoding(Append(done, x), FALSE, FALSE)
<1>0. \A st, e : st.failed = FALSE /\ st.escape = TRUE /\ Unescaped(e) = {x}
        => DecodeStep(st, e) = Decoding(Append(st.out, x), FALSE, FALSE)
  BY DEF DecodeStep
<1>1. ASSUME NEW e \in T, Unescaped(e) = {x}
      PROVE  Decoded(s \o <<Back, e>>) = Decoding(Append(done, x), FALSE, FALSE)
  <2>1. Back \in T /\ Append(s, Back) \in Seq(T)
    BY DEF Characters
  <2>2. s \o <<Back, e>> = Append(Append(s, Back), e)
    BY <1>1, <2>1
  <2>3. Decoded(Append(s, Back)) = Decoding(done, TRUE, FALSE)
    <3>1. Decoded(Append(s, Back)) = DecodeStep(Decoding(done, FALSE, FALSE), Back)
      BY <2>1, DecodedAppend
    <3> QED
      BY <3>1 DEF DecodeStep, Decoding
  <2>4. Decoded(Append(Append(s, Back), e)) = DecodeStep(Decoding(done, TRUE, FALSE), e)
    BY <1>1, <2>1, <2>3, DecodedAppend
  <2> DEFINE st == Decoding(done, TRUE, FALSE)
  <2>5. st.failed = FALSE /\ st.escape = TRUE /\ st.out = done
    BY DEF Decoding
  <2> HIDE DEF st
  <2>6. DecodeStep(st, e) = Decoding(Append(done, x), FALSE, FALSE)
    BY <1>0, <1>1, <2>5
  <2> QED
    BY <2>2, <2>4, <2>6 DEF st
<1>2. CASE x = Back
  <2>1. Unescaped(Back) = {x} /\ Quoted(x) = <<Back, Back>>
    BY <1>2 DEF Unescaped, Quoted
  <2> QED
    BY <1>1, <1>2, <2>1
<1>3. CASE x # Back /\ x \in Spaces
  <2>1. Unescaped(Escape[x]) = {x} /\ Quoted(x) = <<Back, Escape[x]>>
    BY <1>3, NamesAssumption DEF Unescaped, Quoted
  <2> QED
    BY <1>1, <1>3, <2>1
<1>4. CASE x # Back /\ x \notin Spaces
  <2>1. Quoted(x) = <<x>> /\ s \o <<x>> = Append(s, x)
    BY <1>4 DEF Quoted
  <2>2. Decoded(Append(s, x)) = DecodeStep(Decoding(done, FALSE, FALSE), x)
    BY DecodedAppend
  <2> QED
    BY <1>4, <2>1, <2>2, PlainStep
<1> QED
  BY <1>2, <1>3, <1>4

\* decode undoes encode, whatever the name: the round trip that from_repo tries
\* succeeds for every name restic quotes as this code would (name.rs).
THEOREM RoundTrip ==
  ASSUME NEW C, Characters(C), NEW c \in Seq(C)
  PROVE  Decode(Encode(c)) = {c}
<1> DEFINE N == Len(c)
           T == C \cup {Escape[x] : x \in Spaces}
           p == [i \in 1..N |-> Quoted(c[i])]
<1>0. N \in Nat /\ DOMAIN c = 1..N /\ Encode(c) = FlattenSeq(p)
  BY DEF Encode
<1>1. CASE N = 0
  <2>1. c = <<>> /\ p = <<>> /\ Len(p) = 0
    BY <1>0, <1>1
  <2>2. Encode(c) = <<>>
    BY <1>0, <2>1 DEF FlattenSeq
  <2> QED
    BY <2>1, <2>2, DecodedEmpty DEF Decode, Begun, Decoding
<1>2. CASE N # 0
  <2>1. Characters(T) /\ C \subseteq T
    BY DEF Characters
  <2>2. ASSUME NEW x \in C PROVE Quoted(x) \in Seq(T) /\ (x \in Spaces => Escape[x] \in T)
    <3>1. Back \in T /\ x \in T /\ (x \in Spaces => Escape[x] \in T)
      BY <2>1 DEF Characters
    <3> HIDE DEF T
    <3> QED
      BY <3>1 DEF Quoted
  <2>3. p \in [1..N -> Seq(T)]
    BY <1>0, <2>2
  <2>4. \A i \in 1..N : p[i] = Quoted(c[i]) /\ c[i] \in C /\ c[i] \in T
    BY <1>0, <2>1
  <2> HIDE DEF p, T, N
  <2>5. PICK f : /\ f[1] = p[1]
                 /\ \A k \in 2..N : f[k] = f[k - 1] \o p[k]
                 /\ FlattenSeq(p) = f[N]
    <3>1. N \in Nat \ {0} /\ Encode(c) = FlattenSeq(p)
      BY <1>0, <1>2
    <3> QED
      BY <2>3, <3>1, FlattenLoop
  <2> DEFINE G == {k \in 0..N : k # 0 => /\ f[k] \in Seq(T)
                                         /\ Decoded(f[k]) = Decoding(SubSeq(c, 1, k), FALSE, FALSE)}
  <2>6. 0 \in G
    BY <1>0
  <2>7. ASSUME NEW k \in 0..N, k \in G, k < N PROVE k + 1 \in G
    <3> DEFINE before == SubSeq(c, 1, k)
               x == c[k + 1]
    <3>1. k + 1 \in 1..N /\ k + 1 \in 0..N /\ x \in C /\ x \in T /\ p[k + 1] = Quoted(x)
      BY <1>0, <2>4, <2>7
    <3>2. SubSeq(c, 1, k + 1) = Append(before, x)
      BY <1>0, <2>7 DEF N
    <3> HIDE DEF x, before
    <3>3. PICK s \in Seq(T) : f[k + 1] = s \o p[k + 1] /\ Decoded(s) = Decoding(before, FALSE, FALSE)
      <4>1. CASE k = 0
        <5>1. f[1] = <<>> \o p[1] /\ <<>> \in Seq(T) /\ 0 + 1 = 1
          BY <1>0, <1>2, <2>3, <2>5
        <5>2. before = <<>>
          BY <1>0, <4>1 DEF before
        <5> QED
          BY <4>1, <5>1, <5>2, DecodedEmpty DEF Begun
      <4>2. CASE k # 0
        <5>1. k + 1 \in 2..N /\ (k + 1) - 1 = k
          BY <1>0, <2>7, <4>2
        <5>2. f[k] \in Seq(T) /\ Decoded(f[k]) = Decoding(before, FALSE, FALSE)
          BY <2>7, <4>2 DEF before, G
        <5> QED
          BY <2>5, <5>1, <5>2
      <4> QED
        BY <4>1, <4>2
    <3>4. Decoded(s \o Quoted(x)) = Decoding(Append(before, x), FALSE, FALSE)
      BY <2>1, <2>2, <3>1, <3>3, QuotedDecodes
    <3>5. s \o Quoted(x) \in Seq(T)
      BY <2>2, <3>1, <3>3
    <3> QED
      BY <3>1, <3>2, <3>3, <3>4, <3>5
  <2> HIDE DEF G
  <2>8. N \in G
    <3>1. \A k \in 0..N : k \in G
      BY <1>0, <2>6, <2>7, IndexInduction
    <3> QED
      BY <1>0, <3>1
  <2>9. SubSeq(c, 1, N) = c
    BY DEF N
  <2>10. Decoded(Encode(c)) = Decoding(c, FALSE, FALSE)
    BY <1>0, <1>2, <2>5, <2>8, <2>9 DEF G
  <2> QED
    BY <2>10 DEF Decode, Decoding
<1> QED
  BY <1>1, <1>2

----------------------------------------------------------------------------
(* from_repo, wire_safe and the match of a component. *)
LEMMA DecodedType ==
  ASSUME NEW C, Characters(C), NEW s \in Seq(C)
  PROVE  Decoded(s) \in States(C)
<1> DEFINE L == Len(s)
<1>1. PICK w : /\ w[0] = Begun
               /\ \A k \in 1..L : w[k] = DecodeStep(w[k - 1], s[k])
               /\ Decoded(s) = w[L]
  BY DecodedLoop
<1>2. L \in Nat /\ \A k \in 1..L : s[k] \in C
  OBVIOUS
<1> HIDE DEF L
<1> DEFINE G == {k \in 0..L : w[k] \in States(C)}
<1>3. 0 \in G
  <2>1. Begun \in States(C)
    BY DEF Begun, Decoding, States
  <2>2. 0 \in 0..L
    BY <1>2
  <2> QED
    BY <1>1, <2>1, <2>2
<1>4. ASSUME NEW k \in 0..L, k \in G, k < L PROVE k + 1 \in G
  <2>1. k + 1 \in 1..L /\ k + 1 \in 0..L /\ (k + 1) - 1 = k /\ w[k] \in States(C)
    BY <1>2, <1>4
  <2>2. w[k + 1] = DecodeStep(w[k], s[k + 1]) /\ s[k + 1] \in C
    BY <1>1, <1>2, <2>1
  <2> QED
    BY <2>1, <2>2, DecodeStepType
<1> HIDE DEF G
<1>5. \A k \in 0..L : k \in G
  BY <1>2, <1>3, <1>4, IndexInduction
<1> QED
  BY <1>1, <1>2, <1>5 DEF G

\* What from_repo gives is a name, stored as it is or quoted.
LEMMA FromRepoStored ==
  ASSUME NEW C, Characters(C), NEW s \in Seq(C)
  PROVE  FromRepo(s) \in Seq(C) /\ (s = FromRepo(s) \/ s = Encode(FromRepo(s)))
<1>1. CASE \E d \in Decode(s) : Encode(d) = s
  <2> DEFINE d == Decoded(s).out
  <2>1. Decode(s) = {d}
    BY <1>1 DEF Decode
  <2>2. d \in Seq(C)
    BY DecodedType DEF States
  <2> HIDE DEF d
  <2>3. FromRepo(s) = d /\ Encode(d) = s
    BY <1>1, <2>1 DEF FromRepo
  <2> QED
    BY <2>2, <2>3
<1>2. CASE ~ \E d \in Decode(s) : Encode(d) = s
  BY <1>2 DEF FromRepo
<1> QED
  BY <1>1, <1>2

\* A name an SMB client can send is what a node it matches is served as.
LEMMA MatchIsServed ==
  ASSUME NEW C, Characters(C), NEW c \in Seq(C), Back \notin ToSet(c),
         NEW n, Named(n, c)
  PROVE  NodeInfo(n).name = c
<1>1. FromRepo(n.name) = c
  <2>1. CASE n.name = Encode(c)
    BY <2>1, RoundTrip DEF FromRepo
  <2>2. CASE n.name = c
    <3>1. Decode(c) = {c}
      BY PlainDecodes
    <3> QED
      BY <2>2, <3>1 DEF FromRepo
  <2> QED
    BY <2>1, <2>2 DEF Named
<1>2. WireSafe(c) = c
  <2>1. \A i \in DOMAIN c : c[i] # Back
    BY DEF ToSet
  <2>2. c = [i \in DOMAIN c |-> c[i]]
    OBVIOUS
  <2> QED
    BY <2>1, <2>2 DEF WireSafe
<1> QED
  BY <1>1, <1>2 DEF NodeInfo

\* What a node is served as has no separator, and matches the node unless a
\* character was replaced.
LEMMA ServedName ==
  ASSUME NEW C, Characters(C), Mark \in C, NEW n, n.name \in Seq(C)
  PROVE  LET q == NodeInfo(n).name
         IN q \in Seq(C) /\ Back \notin ToSet(q) /\ (Mark \notin ToSet(q) => Named(n, q))
<1> DEFINE c == FromRepo(n.name)
           q == WireSafe(c)
<1>0. c \in Seq(C) /\ (n.name = c \/ n.name = Encode(c))
  BY FromRepoStored
<1> HIDE DEF c
<1>1. Len(c) \in Nat /\ DOMAIN c = 1..Len(c) /\ \A i \in DOMAIN c : c[i] \in C
  BY <1>0
<1>2. q = [i \in 1..Len(c) |-> IF c[i] = Back THEN Mark ELSE c[i]]
  BY <1>1 DEF WireSafe
<1>3. q \in Seq(C)
  BY <1>1, <1>2
<1>4. DOMAIN q = 1..Len(c) /\ \A i \in 1..Len(c) : q[i] = IF c[i] = Back THEN Mark ELSE c[i]
  BY <1>2
<1>5. Back \notin ToSet(q)
  <2>1. Back # Mark
    BY NamesAssumption
  <2> HIDE DEF q
  <2> QED
    BY <1>4, <2>1 DEF ToSet
<1>6. ASSUME Mark \notin ToSet(q) PROVE q = c
  <2>1. \A i \in 1..Len(c) : c[i] # Back
    <3> HIDE DEF q
    <3> QED
      BY <1>4, <1>6 DEF ToSet
  <2>2. c = [i \in 1..Len(c) |-> c[i]]
    BY <1>0
  <2> QED
    BY <1>2, <2>1, <2>2
<1>7. NodeInfo(n).name = q
  BY DEF NodeInfo, c
<1> HIDE DEF q
<1> QED
  BY <1>0, <1>3, <1>5, <1>6, <1>7 DEF Named

----------------------------------------------------------------------------
(* lookup. *)
Below(found) ==
  IF found = <<>> \/ found[1].sub = <<>> THEN <<>> ELSE found[1].sub[1]
Found(t) == {<<>>} \cup {<<n>> : n \in Nodes \cup {RootNode(t)}}

LEMMA BelowType ==
  ASSUME NEW t \in Served, NEW found \in Found(t)
  PROVE  Below(found) \in Seq(Nodes)
<1>1. CASE found = <<>>
  BY <1>1 DEF Below
<1>2. CASE \E n \in Nodes : found = <<n>>
  <2>1. PICK n \in Nodes : found = <<n>>
    BY <1>2
  <2>2. found # <<>> /\ found[1] = n
    BY <2>1
  <2>3. n.sub = <<>> \/ n.sub[1] \in Seq(Nodes)
    BY RequestsAssumption
  <2> QED
    BY <2>2, <2>3 DEF Below
<1>3. CASE found = <<RootNode(t)>>
  <2>1. found # <<>> /\ found[1] = RootNode(t)
    BY <1>3
  <2>2. RootNode(t).sub # <<>> /\ RootNode(t).sub[1] = t
    BY DEF RootNode
  <2>3. t \in Seq(Nodes)
    BY RequestsAssumption
  <2> QED
    BY <2>1, <2>2, <2>3 DEF Below
<1> QED
  BY <1>1, <1>2, <1>3 DEF Found

\* One component: a node of the name in the directory, if it has one.
LEMMA StepFinds ==
  ASSUME NEW t \in Served, NEW found \in Found(t), NEW c
  PROVE  \/ /\ LookupStep(found, c) = <<>>
            /\ \A i \in DOMAIN Below(found) : ~Named(Below(found)[i], c)
         \/ \E i \in DOMAIN Below(found) :
              LookupStep(found, c) = <<Below(found)[i]>> /\ Named(Below(found)[i], c)
<1> DEFINE here == Below(found)
           I == {i \in 1..Len(here) : Named(here[i], c)}
           first == SelectInSeq(here, LAMBDA n : Named(n, c))
<1>1. here \in Seq(Nodes)
  BY BelowType
<1>2. LookupStep(found, c) = IF first = 0 THEN <<>> ELSE <<here[first]>>
  BY DEF LookupStep, Below
<1>3. first = IF I # {} THEN Min(I) ELSE 0
  BY DEF SelectInSeq
<1> HIDE DEF here, first
<1>4. Len(here) \in Nat /\ DOMAIN here = 1..Len(here)
  BY <1>1
<1>5. CASE I = {}
  BY <1>2, <1>3, <1>4, <1>5 DEF here
<1>6. CASE I # {}
  <2>1. I \subseteq Nat
    BY <1>4
  <2>2. Min(I) \in I
    <3>1. PICK x \in I : \A y \in I : ~(<<y, x>> \in OpToRel(<, Nat))
      <4> HIDE DEF I
      <4> QED
        BY <1>6, <2>1, NatLessThanWellFounded, WFMin
    <3>2. \A y \in I : x =< y
      <4> SUFFICES ASSUME NEW y \in I PROVE x =< y
        OBVIOUS
      <4>1. x \in Nat /\ y \in Nat
        BY <2>1
      <4>2. ~(y < x)
        BY <3>1, <4>1 DEF OpToRel
      <4> QED
        BY <4>1, <4>2
    <3> HIDE DEF I
    <3> QED
      BY <3>2 DEF Min
  <2>3. Min(I) \in 1..Len(here) /\ Named(here[Min(I)], c)
    BY <2>2
  <2>4. first = Min(I)
    BY <1>3, <1>6
  <2> HIDE DEF I
  <2>5. first # 0 /\ first \in DOMAIN here
    BY <1>4, <2>3, <2>4
  <2> QED
    BY <1>2, <2>3, <2>4, <2>5 DEF here
<1> QED
  BY <1>5, <1>6

LEMMA LookupStepType ==
  ASSUME NEW t \in Served, NEW found \in Found(t), NEW c
  PROVE  LookupStep(found, c) \in {<<>>} \cup {<<n>> : n \in Nodes}
<1>1. Below(found) \in Seq(Nodes)
  BY BelowType
<1>2. \A i \in DOMAIN Below(found) : Below(found)[i] \in Nodes
  BY <1>1
<1> QED
  BY <1>2, StepFinds

LEMMA LookupLoop ==
  ASSUME NEW t \in Served, NEW P, NEW path \in Seq(P)
  PROVE  \E w : /\ w[0] = <<RootNode(t)>>
                /\ \A k \in 0..Len(path) : w[k] \in Found(t)
                /\ \A k \in 1..Len(path) : w[k] = LookupStep(w[k - 1], path[k])
                /\ Lookup(t, path) = w[Len(path)]
<1> DEFINE L == Len(path)
           F == [p \in (1..L) \X Found(t) |-> LookupStep(p[2], path[p[1]])]
           IsRun(g) == g = [k \in 0..L |->
                              IF k = 0 THEN <<RootNode(t)>> ELSE LookupStep(g[k - 1], path[k])]
<1>1. L \in Nat
  OBVIOUS
<1>2. <<RootNode(t)>> \in Found(t)
  BY DEF Found
<1>0. ASSUME NEW f \in Found(t), NEW c PROVE LookupStep(f, c) \in Found(t)
  BY LookupStepType DEF Found
<1>3. F \in [(1..L) \X Found(t) -> Found(t)]
  BY <1>0
<1>4. PICK w \in [0..L -> Found(t)] : IsLoop(w, F, <<RootNode(t)>>, L)
  <2> HIDE DEF F, L
  <2> QED
    BY <1>1, <1>2, <1>3, SomeLoop
<1>5. w[0] = <<RootNode(t)>> /\ \A k \in 1..L : w[k] = F[<<k, w[k - 1]>>]
  <2> HIDE DEF F, L
  <2> QED
    BY <1>4 DEF IsLoop
<1>6. \A k \in 1..L : w[k] = LookupStep(w[k - 1], path[k])
  <2> SUFFICES ASSUME NEW k \in 1..L PROVE w[k] = LookupStep(w[k - 1], path[k])
    OBVIOUS
  <2>1. k - 1 \in 0..L /\ w[k - 1] \in Found(t)
    <3> HIDE DEF F, L
    <3>1. k - 1 \in 0..L
      BY <1>1
    <3> QED
      BY <1>4, <3>1
  <2> QED
    BY <1>5, <2>1
<1> HIDE DEF F
<1>7. IsRun(w)
  <2>1. \A k \in 0..L : w[k] = IF k = 0 THEN <<RootNode(t)>> ELSE LookupStep(w[k - 1], path[k])
    <3> HIDE DEF L
    <3>1. \A k \in 0..L : k = 0 \/ k \in 1..L
      BY <1>1
    <3> QED
      BY <1>5, <1>6, <3>1
  <2>2. w = [k \in 0..L |-> w[k]]
    BY <1>4
  <2> QED
    BY <2>1, <2>2
<1> DEFINE g == CHOOSE h : IsRun(h)
<1>8. IsRun(g)
  BY <1>7
<1>9. Lookup(t, path) = g[L]
  BY DEF Lookup
<1> HIDE DEF g
<1>10. g[0] = <<RootNode(t)>> /\ \A k \in 1..L : g[k] = LookupStep(g[k - 1], path[k])
  <2>1. \A k \in 0..L : g[k] = IF k = 0 THEN <<RootNode(t)>> ELSE LookupStep(g[k - 1], path[k])
    BY <1>8
  <2> QED
    BY <1>1, <2>1
<1> DEFINE G == {k \in 0..L : g[k] \in Found(t)}
<1>11. 0 \in G
  <2>1. 0 \in 0..L
    BY <1>1
  <2> HIDE DEF L
  <2> QED
    BY <1>2, <1>10, <2>1
<1>12. ASSUME NEW k \in 0..L, k \in G, k < L PROVE k + 1 \in G
  <2>1. k + 1 \in 1..L /\ k + 1 \in 0..L /\ (k + 1) - 1 = k /\ g[k] \in Found(t)
    BY <1>1, <1>12
  <2> HIDE DEF L
  <2>2. g[k + 1] = LookupStep(g[k], path[k + 1])
    BY <1>10, <2>1
  <2>3. g[k + 1] \in Found(t)
    BY <1>0, <2>1, <2>2
  <2> QED
    BY <2>1, <2>3
<1> HIDE DEF G
<1>13. \A k \in 0..L : k \in G
  BY <1>1, <1>11, <1>12, IndexInduction
<1> QED
  BY <1>9, <1>10, <1>13 DEF G

LEMMA LookupEmpty ==
  ASSUME NEW t \in Served
  PROVE  Lookup(t, <<>>) = <<RootNode(t)>>
<1>1. <<>> \in Seq({}) /\ Len(<<>>) = 0
  OBVIOUS
<1> QED
  BY <1>1, LookupLoop

LEMMA LookupType ==
  ASSUME NEW t \in Served, NEW P, NEW path \in Seq(P)
  PROVE  Lookup(t, path) \in Found(t)
<1>1. Len(path) \in 0..Len(path)
  OBVIOUS
<1> QED
  BY <1>1, LookupLoop

LEMMA LookupAppend ==
  ASSUME NEW t \in Served, NEW P, NEW path \in Seq(P), NEW c \in P
  PROVE  Lookup(t, Append(path, c)) = LookupStep(Lookup(t, path), c)
<1> DEFINE L == Len(path)
           q == Append(path, c)
<1>1. q \in Seq(P) /\ Len(q) = L + 1 /\ q[L + 1] = c /\ L \in Nat
      /\ \A k \in 1..L : q[k] = path[k]
  BY AppendProperties
<1> HIDE DEF q
<1>2. PICK w : /\ w[0] = <<RootNode(t)>>
               /\ \A k \in 1..L : w[k] = LookupStep(w[k - 1], path[k])
               /\ Lookup(t, path) = w[L]
  BY LookupLoop
<1>3. PICK v : /\ v[0] = <<RootNode(t)>>
               /\ \A k \in 1..L + 1 : v[k] = LookupStep(v[k - 1], q[k])
               /\ Lookup(t, q) = v[L + 1]
  <2>1. PICK v : /\ v[0] = <<RootNode(t)>>
                 /\ \A k \in 1..Len(q) : v[k] = LookupStep(v[k - 1], q[k])
                 /\ Lookup(t, q) = v[Len(q)]
    BY <1>1, LookupLoop
  <2> HIDE DEF L
  <2> QED
    BY <1>1, <2>1
<1> HIDE DEF L
<1>4. \A k \in 1..L : v[k - 1] = w[k - 1] => v[k] = w[k]
  <2> SUFFICES ASSUME NEW k \in 1..L, v[k - 1] = w[k - 1] PROVE v[k] = w[k]
    OBVIOUS
  <2>1. k \in 1..L + 1
    BY <1>1
  <2> QED
    BY <1>1, <1>2, <1>3, <2>1
<1>5. v[L] = w[L]
  <2>1. v[0] = w[0]
    BY <1>2, <1>3
  <2> QED
    BY <1>1, <1>4, <2>1, SameLoop
<1>6. L + 1 \in 1..L + 1 /\ (L + 1) - 1 = L
  BY <1>1
<1> QED
  BY <1>1, <1>2, <1>3, <1>5, <1>6 DEF q

\* What is found below the root is a node that the last component matches.
LEMMA LookupMatches ==
  ASSUME NEW t \in Served, NEW P, NEW path \in Seq(P), path # <<>>, Lookup(t, path) # <<>>
  PROVE  \E n \in Nodes : Lookup(t, path) = <<n>> /\ Named(n, Last(path))
<1> DEFINE L == Len(path)
<1>1. L \in Nat \ {0} /\ L \in 1..L /\ L - 1 \in 0..L
  BY EmptySeq
<1> HIDE DEF L
<1>2. PICK w : /\ \A k \in 0..L : w[k] \in Found(t)
               /\ \A k \in 1..L : w[k] = LookupStep(w[k - 1], path[k])
               /\ Lookup(t, path) = w[L]
  BY LookupLoop DEF L
<1> DEFINE before == w[L - 1]
<1>3. before \in Found(t) /\ Lookup(t, path) = LookupStep(before, path[L])
  BY <1>1, <1>2
<1> HIDE DEF before
<1>4. PICK i \in DOMAIN Below(before) :
        LookupStep(before, path[L]) = <<Below(before)[i]>> /\ Named(Below(before)[i], path[L])
  BY <1>3, StepFinds
<1>5. Below(before)[i] \in Nodes
  BY <1>3, BelowType
<1> QED
  BY <1>3, <1>4, <1>5 DEF Last, L

----------------------------------------------------------------------------
(* Requests and their answers. *)

\* Every character there is: of names, of components and of escapes.
Stored == UNION {ToSet(n.name) : n \in Nodes}
Asked(t) == UNION {ToSet(c) : c \in Requested[t]}
Chars ==
  Spaces \cup Formats \cup {Back, Mark} \cup Stored \cup UNION {Asked(t) : t \in Served}

LEMMA CharsOf ==
  /\ Characters(Chars) /\ Mark \in Chars
  /\ \A n \in Nodes : n.name \in Seq(Chars)
  /\ \A t \in Served : \A c \in Requested[t] : c \in Seq(Chars) /\ Back \notin ToSet(c)
<1>1. Characters(Chars) /\ Mark \in Chars
  BY DEF Characters, Chars
<1>2. ASSUME NEW n \in Nodes PROVE n.name \in Seq(Chars)
  <2>1. ToSet(n.name) \subseteq Chars
    BY DEF Chars, Stored
  <2>2. n.name \in Seq(ToSet(n.name))
    BY RequestsAssumption
  <2> QED
    BY <2>1, <2>2, SeqMonotonic
<1>3. ASSUME NEW t \in Served, NEW c \in Requested[t]
      PROVE  c \in Seq(Chars) /\ Back \notin ToSet(c)
  <2>1. ToSet(c) \subseteq Asked(t)
    BY DEF Asked
  <2>2. Asked(t) \subseteq Chars
    BY DEF Chars
  <2>3. c \in Seq(ToSet(c)) /\ Back \notin ToSet(c)
    BY RequestsAssumption
  <2> QED
    BY <2>1, <2>2, <2>3, SeqMonotonic
<1> QED
  BY <1>1, <1>2, <1>3

\* A request for something inside the directory has its path as its tail.
LEMMA PathOf ==
  ASSUME NEW t \in Served, NEW p \in Requests(t), p # <<>>
  PROVE  /\ Tail(p) \in Seq(Requested[t])
         /\ Len(p) = 1 <=> Tail(p) = <<>>
         /\ Tail(p) # <<>> => Last(p) = Last(Tail(p))
<1>1. PICK d \in DirCases \cup {<<Mark>>}, r \in Inside(t) : p = <<d>> \o r
  BY DEF Requests
<1>2. PICK k \in 0..MaxDepth : r \in [1..k -> Requested[t]]
  BY <1>1 DEF Inside
<1>3. k \in Nat /\ r \in Seq(Requested[t]) /\ Len(r) = k
  <2>1. k \in Nat
    BY RequestsAssumption
  <2> QED
    BY <1>2, <2>1
<1>4. /\ Len(p) = k + 1
      /\ \A i \in 1..k : p[i + 1] = r[i]
      /\ p \in Seq({d} \cup Requested[t])
  <2>1. <<d>> \in Seq({d} \cup Requested[t]) /\ r \in Seq({d} \cup Requested[t]) /\ Len(<<d>>) = 1
    BY <1>3
  <2> QED
    BY <1>1, <1>3, <2>1, ConcatProperties
<1>5. Tail(p) \in Seq({d} \cup Requested[t]) /\ Len(Tail(p)) = k
      /\ \A i \in 1..k : Tail(p)[i] = p[i + 1]
  BY <1>3, <1>4, HeadTailProperties
<1>6. Tail(p) = r
  <2>1. Len(Tail(p)) = Len(r) /\ \A i \in 1..Len(r) : Tail(p)[i] = r[i]
    BY <1>3, <1>4, <1>5
  <2> QED
    BY <1>3, <1>5, <2>1, SeqEqual
<1>7. k = 0 <=> r = <<>>
  BY <1>3
<1>8. r # <<>> => Last(p) = Last(r)
  <2>1. r # <<>> => k \in 1..k
    BY <1>3, <1>7
  <2> QED
    BY <1>3, <1>4, <2>1 DEF Last
<1>9. Len(p) = 1 <=> k = 0
  BY <1>3, <1>4
<1> QED
  BY <1>3, <1>6, <1>7, <1>8, <1>9

LEMMA RowOpens ==
  ASSUME NEW t \in Served, NEW p \in Seq(Requested[t]),
         NEW found, found = Lookup(t, p), NEW i \in DOMAIN Below(found)
  PROVE  LET here == Below(found)
             row == NodeInfo(here[i])
             opened == Lookup(t, Append(p, row.name))
         IN /\ Back \notin ToSet(row.name)
            /\ Mark \notin ToSet(row.name) => opened # <<>>
            /\ opened # <<>> =>
                 /\ NodeInfo(opened[1]).name = row.name
                 /\ \E j \in DOMAIN here : opened = <<here[j]>>
<1> DEFINE here == Below(found)
           q == NodeInfo(here[i]).name
           opened == Lookup(t, Append(p, q))
<1>1. found \in Found(t)
  BY LookupType
<1>2. here \in Seq(Nodes)
  BY <1>1, BelowType
<1> HIDE DEF here
<1>3. here[i] \in Nodes
  BY <1>2 DEF here
<1>4. q \in Seq(Chars) /\ Back \notin ToSet(q) /\ (Mark \notin ToSet(q) => Named(here[i], q))
  <2>1. Characters(Chars) /\ Mark \in Chars /\ here[i].name \in Seq(Chars)
    BY <1>3, CharsOf
  <2> QED
    BY <2>1, ServedName
<1> HIDE DEF q
<1>5. opened = LookupStep(found, q)
  <2> DEFINE P == Requested[t] \cup {q}
  <2>1. p \in Seq(P) /\ q \in P
    BY SeqMonotonic
  <2> HIDE DEF P
  <2> QED
    BY <2>1, LookupAppend
<1> HIDE DEF opened
<1>6. Mark \notin ToSet(q) => opened # <<>>
  <2>1. \/ \A k \in DOMAIN Below(found) : ~Named(Below(found)[k], q)
        \/ \E k \in DOMAIN Below(found) : opened = <<Below(found)[k]>>
    BY <1>1, <1>5, StepFinds
  <2>2. i \in DOMAIN Below(found) /\ here[i] = Below(found)[i]
    BY DEF here
  <2>3. \A x : <<x>> # <<>>
    OBVIOUS
  <2> SUFFICES ASSUME Mark \notin ToSet(q) PROVE opened # <<>>
    OBVIOUS
  <2>4. Named(Below(found)[i], q)
    BY <1>4, <2>2
  <2>5. PICK k \in DOMAIN Below(found) : opened = <<Below(found)[k]>>
    BY <2>1, <2>2, <2>4
  <2> QED
    BY <2>3, <2>5
<1>7. ASSUME opened # <<>>
      PROVE  NodeInfo(opened[1]).name = q /\ \E j \in DOMAIN here : opened = <<here[j]>>
  <2>1. PICK j \in DOMAIN here : opened = <<here[j]>> /\ Named(here[j], q)
    BY <1>1, <1>5, <1>7, StepFinds DEF here
  <2>2. NodeInfo(here[j]).name = q
    BY <1>4, <2>1, CharsOf, MatchIsServed
  <2> QED
    BY <2>1, <2>2
<1> QED
  BY <1>4, <1>6, <1>7 DEF q, opened, here

\* The listing of a directory inside a share, and what its rows open.
LEMMA ListedOpens ==
  ASSUME NEW t \in Served, NEW p \in Requests(t), p # <<>>,
         query = [op |-> "list", tree |-> t, path |-> p],
         answer = NestedList(Dir, DirCases, t, p)
  PROVE  RowsOpen
<1> SUFFICES ASSUME answer.status = "OK" PROVE RowsOpen
  BY DEF RowsOpen
<1> DEFINE inside == Tail(p)
           found == Lookup(t, inside)
           here == found[1].sub[1]
<1>1. answer = List(t, inside)
  BY DEF NestedList, Route, Missing, Err
<1>2. found # <<>> /\ found[1].sub # <<>>
      /\ answer.value = [k \in DOMAIN here |-> NodeInfo(here[k])]
  BY <1>1 DEF List, Ok, Err
<1>3. here = Below(found)
  BY <1>2 DEF Below
<1>4. query.tree = t /\ query.path = p
  OBVIOUS
<1>5. inside \in Seq(Requested[t])
  BY PathOf
<1> DEFINE rows == answer.value
<1>6. DOMAIN rows = DOMAIN here /\ \A k \in DOMAIN here : rows[k] = NodeInfo(here[k])
  BY <1>2
<1> HIDE DEF rows
<1>7. ASSUME NEW i \in DOMAIN rows
      PROVE  LET opened == Lookup(t, Append(inside, rows[i].name))
             IN /\ Back \notin ToSet(rows[i].name)
                /\ Mark \notin ToSet(rows[i].name) => opened # <<>>
                /\ opened # <<>> => NodeInfo(opened[1]).name = rows[i].name
                /\ (opened # <<>> /\ \A j \in DOMAIN rows \ {i} : rows[j].name # rows[i].name)
                     => opened = <<here[i]>>
  <2> DEFINE opened == Lookup(t, Append(inside, rows[i].name))
  <2>1. i \in DOMAIN Below(found) /\ rows[i] = NodeInfo(Below(found)[i])
    BY <1>3, <1>6
  <2>2. /\ Back \notin ToSet(rows[i].name)
        /\ Mark \notin ToSet(rows[i].name) => opened # <<>>
        /\ opened # <<>> =>
             /\ NodeInfo(opened[1]).name = rows[i].name
             /\ \E j \in DOMAIN Below(found) : opened = <<Below(found)[j]>>
    <3> HIDE DEF found, inside
    <3> QED
      BY <1>5, <2>1, RowOpens DEF found
  <2> HIDE DEF opened
  <2>3. ASSUME opened # <<>>, \A j \in DOMAIN rows \ {i} : rows[j].name # rows[i].name
        PROVE  opened = <<here[i]>>
    <3>1. PICK j \in DOMAIN Below(found) : opened = <<Below(found)[j]>>
      BY <2>2, <2>3
    <3>2. NodeInfo(here[j]).name = rows[i].name /\ j \in DOMAIN here
      BY <1>3, <2>2, <2>3, <3>1
    <3>3. j = i
      BY <1>6, <2>3, <3>2
    <3> QED
      BY <1>3, <3>1, <3>3
  <2> QED
    BY <2>2, <2>3 DEF opened
<1> HIDE DEF inside
<1> QED
  BY <1>4, <1>7 DEF RowsOpen, rows, inside

\* What stat, list and open say of what is at a path inside a share.
LEMMA KindsAt ==
  ASSUME NEW t \in Served, NEW p \in Seq(Requested[t]), p # <<>>
  PROVE  LET s == Stat(t, p)
             l == List(t, p)
             o == Open(t, p)
         IN IF s.status # "OK" THEN l.status # "OK" /\ o.status # "OK"
            ELSE IF s.value[1].kind = "Dir"
            THEN l.status = "OK" /\ o.status = "FILE_IS_A_DIRECTORY"
            ELSE l.status = "NOT_A_DIRECTORY" /\ o.status = "OK"
<1>1. CASE Lookup(t, p) = <<>>
  BY <1>1 DEF Stat, List, Open, Ok, Err
<1>2. CASE Lookup(t, p) # <<>>
  <2>1. PICK n \in Nodes : Lookup(t, p) = <<n>>
    BY <1>2, LookupMatches
  <2>2. n.kind = "Dir" <=> n.sub # <<>>
    BY RequestsAssumption
  <2>3. Stat(t, p) = Ok(<<NodeInfo(n)>>)
    BY <2>1 DEF Stat
  <2>4. NodeInfo(n).kind = (IF n.kind = "Dir" THEN "Dir" ELSE "File")
    BY DEF NodeInfo
  <2>5. List(t, p).status = IF n.sub = <<>> THEN "NOT_A_DIRECTORY" ELSE "OK"
    BY <2>1 DEF List, Ok, Err
  <2>6. Open(t, p).status = IF n.kind = "Dir" THEN "FILE_IS_A_DIRECTORY" ELSE "OK"
    BY <2>1 DEF Open, Ok, Err
  <2>7. Stat(t, p).status = "OK" /\ Stat(t, p).value[1] = NodeInfo(n)
    BY <2>3 DEF Ok
  <2> QED
    BY <2>2, <2>4, <2>5, <2>6, <2>7
<1> QED
  BY <1>1, <1>2

LEMMA StatAgrees ==
  ASSUME NEW t \in Served, NEW p \in Requests(t),
         query = [op |-> "stat", tree |-> t, path |-> p],
         answer = NestedStat(Dir, DirCases, t, p)
  PROVE  KindsAgree
<1> DEFINE l == NestedList(Dir, DirCases, t, p)
           o == NestedOpen(Dir, DirCases, t, p)
           route == Route(DirCases, p)
<1>1. route \in {"root", "dir", "inner", "missing"}
  BY DEF Route, Missing
<1>2. IF answer.status # "OK" THEN l.status # "OK" /\ o.status # "OK"
      ELSE IF answer.value[1].kind = "Dir"
      THEN l.status = "OK" /\ o.status = "FILE_IS_A_DIRECTORY"
      ELSE l.status = "NOT_A_DIRECTORY" /\ o.status = "OK"
  <2>1. CASE route = "root"
    BY <2>1 DEF NestedStat, NestedList, NestedOpen, Missing, Ok, Err, SyntheticDir
  <2>2. CASE route = "missing"
    BY <2>2 DEF NestedStat, NestedList, NestedOpen, Missing, Ok, Err
  <2>3. CASE route = "dir"
    <3>1. p # <<>> /\ Len(p) = 1
      BY <2>3 DEF Route, Missing
    <3>2. Tail(p) = <<>>
      BY <3>1, PathOf
    <3>3. l = List(t, <<>>)
      BY <2>3, <3>2 DEF NestedList, Missing
    <3> HIDE DEF l
    <3>4. l.status = "OK"
      <4> DEFINE found == Lookup(t, <<>>)
      <4>1. found = <<RootNode(t)>>
        BY LookupEmpty
      <4>2. RootNode(t).sub = <<t>>
        BY DEF RootNode
      <4> HIDE DEF found
      <4>3. found # <<>> /\ found[1].sub # <<>>
        BY <4>1, <4>2
      <4> QED
        BY <3>3, <4>3 DEF List, Ok, found
    <3> QED
      BY <2>3, <3>4 DEF NestedStat, NestedOpen, Missing, Ok, Err, SyntheticDir
  <2>4. CASE route = "inner"
    <3>1. p # <<>> /\ Len(p) # 1
      BY <2>4 DEF Route, Missing
    <3>2. Tail(p) # <<>> /\ Tail(p) \in Seq(Requested[t])
      BY <3>1, PathOf
    <3>3. answer = Stat(t, Tail(p)) /\ l = List(t, Tail(p)) /\ o = Open(t, Tail(p))
      BY <2>4 DEF NestedStat, NestedList, NestedOpen, Missing
    <3> HIDE DEF l, o
    <3> QED
      BY <3>2, <3>3, KindsAt
  <2> QED
    BY <1>1, <2>1, <2>2, <2>3, <2>4
<1>3. query.op = "stat" /\ query.tree = t /\ query.path = p
  OBVIOUS
<1> HIDE DEF l, o
<1> QED
  BY <1>2, <1>3 DEF KindsAgree, l, o

LEMMA OpenedIsAsked ==
  ASSUME NEW t \in Served, NEW p \in Requests(t),
         query = [op |-> "open", tree |-> t, path |-> p],
         answer = NestedOpen(Dir, DirCases, t, p)
  PROVE  KindsAgree
<1>1. query.op = "open" /\ query.path = p
  OBVIOUS
<1>2. ASSUME answer.status = "OK"
      PROVE  NodeInfo(answer.value[1]).name = Last(p)
  <2>1. Route(DirCases, p) = "inner"
    BY <1>2 DEF NestedOpen, Route, Missing, Err
  <2>2. answer = Open(t, Tail(p)) /\ p # <<>>
    BY <2>1 DEF NestedOpen, Route, Missing
  <2> DEFINE inside == Tail(p)
  <2>3. inside # <<>> /\ Lookup(t, inside) # <<>> /\ answer.value = Lookup(t, inside)
    BY <1>2, <2>2 DEF Open, Ok, Err
  <2>4. inside \in Seq(Requested[t]) /\ Last(p) = Last(inside)
    BY <2>2, <2>3, PathOf
  <2> HIDE DEF inside
  <2>5. PICK n \in Nodes : Lookup(t, inside) = <<n>> /\ Named(n, Last(inside))
    BY <2>3, <2>4, LookupMatches
  <2>6. Last(inside) \in Requested[t]
    <3>1. Len(inside) \in 1..Len(inside)
      BY <2>3, <2>4, EmptySeq
    <3> QED
      BY <2>4, <3>1, ElementOfSeq DEF Last
  <2>7. NodeInfo(n).name = Last(inside)
    BY <2>5, <2>6, CharsOf, MatchIsServed
  <2> QED
    BY <2>3, <2>4, <2>5, <2>7
<1> QED
  BY <1>1, <1>2 DEF KindsAgree

LEMMA ReadIsInside ==
  ASSUME NEW size \in Numbers, NEW offset \in Numbers, NEW len \in Numbers,
         query = [op |-> "read", size |-> size, offset |-> offset, len |-> len],
         answer = ReadAt(size, offset, len)
  PROVE  ReadsInside
<1>1. size \in Nat /\ offset \in Nat /\ len \in Nat /\ UsizeMax \in Nat
  BY RequestsAssumption
<1>2. query.size = size /\ query.offset = offset /\ query.len = len
  OBVIOUS
<1> DEFINE range == {b \in 0..size - 1 : offset <= b /\ b < offset + len}
<1>3. CASE offset >= size
  <2>1. answer.status = "OK" /\ answer.value.from = 0 /\ answer.value.to = 0
    BY <1>3 DEF ReadAt, Ok, NoBytes
  <2>2. range = {} /\ 0..0 - 1 = {}
    BY <1>1, <1>3
  <2> QED
    BY <1>2, <2>1, <2>2 DEF ReadsInside
<1>4. CASE ~(offset >= size) /\ answer.status # "OK"
  BY <1>1, <1>2, <1>4 DEF ReadAt, Ok, Err, ReadsInside
<1>5. CASE ~(offset >= size) /\ answer.status = "OK"
  <2> DEFINE available == IF len < size - offset THEN len ELSE size - offset
  <2>1. answer.value.from = offset /\ answer.value.to = offset + available
    BY <1>5 DEF ReadAt, Ok, Err
  <2>2. offset..offset + available - 1 = range /\ available \in Nat
    BY <1>1, <1>5
  <2> HIDE DEF available, range
  <2>3. answer.value.from .. answer.value.to - 1 = range
    BY <1>1, <2>1, <2>2
  <2> QED
    BY <1>2, <1>5, <2>3 DEF ReadsInside, range
<1> QED
  BY <1>3, <1>4, <1>5

\* The inductive invariant: an answer is what SmbBacking gives for the request.
Answered ==
  \/ query = Nothing
  \/ \E t \in Served : \E p \in Requests(t) :
       \/ /\ query = [op |-> "stat", tree |-> t, path |-> p]
          /\ answer = NestedStat(Dir, DirCases, t, p)
       \/ /\ query = [op |-> "list", tree |-> t, path |-> p]
          /\ answer = NestedList(Dir, DirCases, t, p)
       \/ /\ query = [op |-> "open", tree |-> t, path |-> p]
          /\ answer = NestedOpen(Dir, DirCases, t, p)
  \/ \E size, offset, len \in Numbers :
       /\ query = [op |-> "read", size |-> size, offset |-> offset, len |-> len]
       /\ answer = ReadAt(size, offset, len)

\* Another kind of request makes no difference to a part of ServesTree.
LEMMA OtherRequests ==
  /\ query.op # "list" => RowsOpen
  /\ query.op \notin {"stat", "open"} => KindsAgree
  /\ query.op # "read" => ReadsInside
BY DEF RowsOpen, KindsAgree, ReadsInside

LEMMA AnsweredServes == Answered => ServesTree
<1> SUFFICES ASSUME Answered PROVE ServesTree
  OBVIOUS
<1>1. CASE query = Nothing
  <2>1. query.op = "none"
    BY <1>1 DEF Nothing
  <2> QED
    BY <2>1, OtherRequests DEF ServesTree
<1>2. ASSUME NEW t \in Served, NEW p \in Requests(t),
             query = [op |-> "stat", tree |-> t, path |-> p],
             answer = NestedStat(Dir, DirCases, t, p)
      PROVE  ServesTree
  <2>1. query.op = "stat"
    BY <1>2
  <2>2. KindsAgree
    BY <1>2, StatAgrees
  <2> QED
    BY <2>1, <2>2, OtherRequests DEF ServesTree
<1>3. ASSUME NEW t \in Served, NEW p \in Requests(t),
             query = [op |-> "list", tree |-> t, path |-> p],
             answer = NestedList(Dir, DirCases, t, p)
      PROVE  ServesTree
  <2>1. query.op = "list" /\ query.path = p
    BY <1>3
  <2>2. RowsOpen
    <3>1. CASE p = <<>>
      BY <2>1, <3>1 DEF RowsOpen
    <3>2. CASE p # <<>>
      BY <1>3, <3>2, ListedOpens
    <3> QED
      BY <3>1, <3>2
  <2> QED
    BY <2>1, <2>2, OtherRequests DEF ServesTree
<1>4. ASSUME NEW t \in Served, NEW p \in Requests(t),
             query = [op |-> "open", tree |-> t, path |-> p],
             answer = NestedOpen(Dir, DirCases, t, p)
      PROVE  ServesTree
  <2>1. query.op = "open"
    BY <1>4
  <2>2. KindsAgree
    BY <1>4, OpenedIsAsked
  <2> QED
    BY <2>1, <2>2, OtherRequests DEF ServesTree
<1>5. ASSUME NEW size \in Numbers, NEW offset \in Numbers, NEW len \in Numbers,
             query = [op |-> "read", size |-> size, offset |-> offset, len |-> len],
             answer = ReadAt(size, offset, len)
      PROVE  ServesTree
  <2>1. query.op = "read"
    BY <1>5
  <2>2. ReadsInside
    BY <1>5, ReadIsInside
  <2> QED
    BY <2>1, <2>2, OtherRequests DEF ServesTree
<1> QED
  BY <1>1, <1>2, <1>3, <1>4, <1>5 DEF Answered

\* What a share serves is the snapshot, whatever the trees, the names in them and
\* the requests (ServesTree: RowsOpen, KindsAgree and ReadsInside).
THEOREM ServesTheSnapshot == ShareSpec => []ServesTree
<1>1. Init => Answered
  BY DEF Init, Answered
<1>2. Answered /\ [AskShare]_vars => Answered'
  <2> SUFFICES ASSUME Answered, [AskShare]_vars PROVE Answered'
    OBVIOUS
  <2>1. CASE AskStat
    BY <2>1 DEF AskStat, Answer, Answered
  <2>2. CASE AskList
    BY <2>2 DEF AskList, Answer, Answered
  <2>3. CASE AskOpen
    BY <2>3 DEF AskOpen, Answer, Answered
  <2>4. CASE AskRead
    BY <2>4 DEF AskRead, Answer, Answered
  <2>5. CASE Done
    BY <2>5 DEF Done, Answered
  <2>6. CASE UNCHANGED vars
    BY <2>6 DEF vars, Answered
  <2> QED
    BY <2>1, <2>2, <2>3, <2>4, <2>5, <2>6 DEF AskShare
<1> QED
  BY <1>1, <1>2, AnsweredServes, PTL DEF ShareSpec
----------------------------------------------------------------------------
(* Queries: a step is one of a walk or one of a share, and not of the other. *)

\* Previews and diffs take the steps they take alone, and so do requests.
THEOREM EachItsOwn == Spec => WalkSpec /\ ShareSpec
<1>1. QueryInit => WalkInit /\ Init
  BY DEF QueryInit
<1>2. [QueryNext]_<<walkVars, vars>> => [WalkNext]_walkVars /\ [AskShare]_vars
  BY DEF QueryNext
<1> QED
  BY <1>1, <1>2, PTL DEF Spec, WalkSpec, ShareSpec

\* So a preview shows the first entries, a diff what changed and a share the
\* snapshot, whatever was asked before.
THEOREM QueriesAnswered == Spec => []PreviewRight /\ []DiffRight /\ []ServesTree
BY EachItsOwn, ShowsTheFirst, ShowsWhatChanged, ServesTheSnapshot, PTL
=============================================================================
