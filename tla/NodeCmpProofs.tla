----------------------------- MODULE NodeCmpProofs -----------------------------
(***************************************************************************)
(* What diff prints, for any number of rows, segments and values, any      *)
(* messages on both nodes and any updates by other clients.                *)
(*                                                                         *)
(* The argument follows a row that has differed since diff began (Owed).   *)
(* Whatever content a tree was computed from, the row has its value in it, *)
(* so the digests of its leaf, of its node of level 1 and of the root      *)
(* differ between the two nodes, also when the two trees are read at       *)
(* different times (Telling); so the loops of diff have still to come to   *)
(* the row's segment (Path), until it is read and the row's item printed,  *)
(* which no other row has had (Merged).  The same digests are equal in a   *)
(* segment in which nothing differs (Silent).                              *)
(***************************************************************************)
EXTENDS NodeCmp, KeyspaceProofs

-----------------------------------------------------------------------------
(* The operators of the tree, in terms of the keys.                        *)
LEMMA ViewIs ==
  /\ \A f, s : View!LeafSeq(f, s) =
       [k \in 1..Cardinality(RowsOf(f, T, s)) |-> f[KeyAt(RowsOf(f, T, s), k)]]
  /\ \A f, s : View!Leaf(f, s) = Sha1(View!LeafSeq(f, s))
  /\ \A f, c : View!Inner(f, c) = Sha1([k \in 1..Fan |-> View!Leaf(f, c * Fan + k - 1)])
  /\ \A f : View!Root(f) = Sha1([c \in 1..Fan |-> View!Inner(f, c - 1)])
  /\ \A f : View!Tree(f) =
       [n \in Nodes |->
         IF \E m \in Nodes : m[1] = n[1] /\ Extends(m[2], n[2]) THEN None
         ELSE IF n[1] = 2 THEN View!Leaf(f, n[2])
         ELSE IF n[1] = 1 THEN View!Inner(f, n[2])
         ELSE View!Root(f)]
<1>1. View!Pos = Pos /\ View!Leaves = Leaves /\ View!NLeaf = NLeaf
  BY DEF View!Pos, Pos, View!Leaves, Leaves, View!NLeaf, NLeaf
<1>2. View!Nodes = Nodes
  BY <1>1 DEF View!Nodes, Nodes
<1>3. \A m : View!Sha1(m) = Sha1(m)
  BY DEF View!Sha1, Sha1
<1>4. \A f, t, s : View!RowsOf(f, t, s) = RowsOf(f, t, s)
  BY <1>1 DEF View!RowsOf, RowsOf
<1>5. \A a, b : View!Extends(a, b) <=> Extends(a, b)
  BY <1>1 DEF View!Extends, Extends
<1>6. \A f, s : View!LeafSeq(f, s) =
       [k \in 1..Cardinality(RowsOf(f, T, s)) |-> f[KeyAt(RowsOf(f, T, s), k)]]
  <2> SUFFICES ASSUME NEW f, NEW s
               PROVE  View!LeafSeq(f, s) =
                        [k \in 1..Cardinality(RowsOf(f, T, s)) |-> f[KeyAt(RowsOf(f, T, s), k)]]
    OBVIOUS
  <2>1. PICK R : R = RowsOf(f, T, s)
    OBVIOUS
  <2>2. \A S : View!Cardinality(S) = Cardinality(S)
    BY DEF View!Cardinality, Cardinality
  <2> DEFINE K(k) == CHOOSE p \in R : View!Cardinality({q \in R : q < p}) = k - 1
  <2>3. View!LeafSeq(f, s) = [k \in 1..View!Cardinality(R) |-> f[K(k)]]
    <3>1. View!RowsOf(f, T, s) = R
      BY <1>4, <2>1
    <3> QED
      BY <3>1, SMT DEF View!LeafSeq
  <2>4. ASSUME NEW k PROVE K(k) = KeyAt(R, k)
    BY <2>2 DEF KeyAt
  <2> HIDE DEF K
  <2>5. [k \in 1..View!Cardinality(R) |-> f[K(k)]]
          = [k \in 1..View!Cardinality(R) |-> f[KeyAt(R, k)]]
    BY <2>4
  <2> QED
    BY <2>1, <2>2, <2>3, <2>5
<1>7. \A f, s : View!Leaf(f, s) = Sha1(View!LeafSeq(f, s))
  BY <1>3 DEF View!Leaf
<1>8. \A f, c : View!Inner(f, c) = Sha1([k \in 1..Fan |-> View!Leaf(f, c * Fan + k - 1)])
  BY <1>3 DEF View!Inner
<1>9. \A f : View!Root(f) = Sha1([c \in 1..Fan |-> View!Inner(f, c - 1)])
  BY <1>3 DEF View!Root
<1>10. \A f : View!Tree(f) =
       [n \in Nodes |->
         IF \E m \in Nodes : m[1] = n[1] /\ Extends(m[2], n[2]) THEN None
         ELSE IF n[1] = 2 THEN View!Leaf(f, n[2])
         ELSE IF n[1] = 1 THEN View!Inner(f, n[2])
         ELSE View!Root(f)]
  BY <1>2, <1>5 DEF View!Tree
<1> QED
  BY <1>6, <1>7, <1>8, <1>9, <1>10

(* Different messages have different digests.                              *)
LEMMA Sha1Injective == \A x, y : Sha1(x) = Sha1(y) => x = y
<1> SUFFICES ASSUME NEW x, NEW y, Sha1(x) = Sha1(y) PROVE x = y
  OBVIOUS
<1>1. Sha1(x).sha1 = x /\ Sha1(y).sha1 = y
  BY DEF Sha1
<1> QED
  BY <1>1

(* The digest of a row is in the digest of its leaf and in no other place  *)
(* of it: equal leaves hold equal rows.                                    *)
LEMMA LeafHasRow ==
  ASSUME NEW f \in Content, NEW g \in Content, NEW p \in Pos, Tab[p] = T, f[p] # None,
         View!LeafSeq(f, Seg[p]) = View!LeafSeq(g, Seg[p])
  PROVE  f[p] = g[p]
<1>1. PICK R : R = RowsOf(f, T, Seg[p])
  OBVIOUS
<1>2. PICK S : S = RowsOf(g, T, Seg[p])
  OBVIOUS
<1>3. R \subseteq Pos /\ S \subseteq Pos /\ p \in R
  BY <1>1, <1>2 DEF RowsOf
<1>4. Cardinality(R) \in Nat /\ Cardinality(S) \in Nat
  BY <1>3, KeysFinite
<1>5. PICK x : x = [k \in 1..Cardinality(R) |-> f[KeyAt(R, k)]]
  OBVIOUS
<1>6. x = [k \in 1..Cardinality(S) |-> g[KeyAt(S, k)]]
  BY <1>1, <1>2, <1>5, ViewIs
<1>7. 1..Cardinality(R) = 1..Cardinality(S)
  BY <1>5, <1>6
<1>8. PICK k \in 1..Cardinality(R) : k - 1 = Rank(R, p)
  <2>1. Rank(R, p) \in 0..(Cardinality(R) - 1)
    BY <1>3, RankRange
  <2>2. Rank(R, p) + 1 \in 1..Cardinality(R) /\ (Rank(R, p) + 1) - 1 = Rank(R, p)
    BY <1>4, <2>1
  <2> QED
    BY <2>2
<1>9. x[k] = f[p]
  <2>1. PICK y : y = KeyAt(R, k)
    OBVIOUS
  <2>2. y \in R /\ Rank(R, y) = k - 1
    BY <1>3, <2>1, RankedKey
  <2>3. y = p
    BY <1>3, <1>8, <2>2, RankInjective
  <2> QED
    BY <1>5, <2>1, <2>3
<1>10. PICK y \in S : x[k] = g[y]
  <2>1. PICK y : y = KeyAt(S, k)
    OBVIOUS
  <2>2. y \in S
    BY <1>3, <1>7, <2>1, RankedKey
  <2> QED
    BY <1>6, <1>7, <2>1, <2>2
<1>11. f[p] \in Heads /\ Owner[f[p]] = p
  BY DEF Content, Values
<1>12. y \in Pos /\ Owner[g[y]] = y
  <2>1. y \in Pos /\ g[y] # None
    BY <1>2 DEF RowsOf
  <2> QED
    BY <2>1 DEF Content, Values
<1> QED
  BY <1>9, <1>10, <1>11, <1>12

(* Contents that differ in a row have different digests on the way to it.  *)
LEMMA DigestsDiffer ==
  ASSUME NEW f \in Content, NEW g \in Content, NEW p \in Pos, Tab[p] = T, f[p] # g[p]
  PROVE  /\ View!Leaf(f, Seg[p]) # View!Leaf(g, Seg[p])
         /\ View!Inner(f, Seg[p] \div Fan) # View!Inner(g, Seg[p] \div Fan)
         /\ View!Root(f) # View!Root(g)
<1>1. View!Leaf(f, Seg[p]) # View!Leaf(g, Seg[p])
  <2>1. View!LeafSeq(f, Seg[p]) # View!LeafSeq(g, Seg[p])
    <3>1. CASE f[p] # None
      BY <3>1, LeafHasRow
    <3>2. CASE g[p] # None
      BY <3>2, LeafHasRow
    <3> QED
      BY <3>1, <3>2
  <2> QED
    BY <2>1, ViewIs, Sha1Injective
<1>2. PICK s \in Leaves : s = Seg[p]
  BY KeyAssumption
<1>3. PICK a \in 0..(Fan - 1), b \in 0..(Fan - 1) : a = s \div Fan /\ s = Fan * a + b
  BY LeafSplit
<1>4. PICK k \in 1..Fan : a * Fan + k - 1 = s
  <2>1. b + 1 \in 1..Fan
    BY SizeAssumption
  <2>2. a * Fan + b = s /\ a * Fan \in Int
    BY <1>3, LeafJoin, SizeAssumption
  <2>3. a * Fan + (b + 1) - 1 = s
    BY <2>2
  <2> QED
    BY <2>1, <2>3
<1>5. View!Inner(f, a) # View!Inner(g, a)
  <2>1. PICK u : u = [l \in 1..Fan |-> View!Leaf(f, a * Fan + l - 1)]
    OBVIOUS
  <2>2. PICK v : v = [l \in 1..Fan |-> View!Leaf(g, a * Fan + l - 1)]
    OBVIOUS
  <2>3. u[k] # v[k]
    BY <1>1, <1>2, <1>4, <2>1, <2>2
  <2> QED
    BY <2>1, <2>2, <2>3, ViewIs, Sha1Injective
<1>6. View!Root(f) # View!Root(g)
  <2>1. PICK u : u = [c \in 1..Fan |-> View!Inner(f, c - 1)]
    OBVIOUS
  <2>2. PICK v : v = [c \in 1..Fan |-> View!Inner(g, c - 1)]
    OBVIOUS
  <2>3. a + 1 \in 1..Fan /\ (a + 1) - 1 = a
    BY SizeAssumption
  <2>4. u[a + 1] # v[a + 1]
    BY <1>5, <2>1, <2>2, <2>3
  <2> QED
    BY <2>1, <2>2, <2>4, ViewIs, Sha1Injective
<1> QED
  BY <1>1, <1>2, <1>3, <1>5, <1>6

(* Contents that agree on the rows of a segment have one leaf there.       *)
LEMMA LeavesAgree ==
  ASSUME NEW f, NEW g, NEW s, \A p \in Pos : Tab[p] = T /\ Seg[p] = s => f[p] = g[p]
  PROVE  View!Leaf(f, s) = View!Leaf(g, s)
<1>1. PICK R : R = RowsOf(f, T, s)
  OBVIOUS
<1>2. R = RowsOf(g, T, s) /\ R \subseteq Pos
  BY <1>1 DEF RowsOf
<1>3. ASSUME NEW k \in 1..Cardinality(R)
      PROVE  f[KeyAt(R, k)] = g[KeyAt(R, k)]
  <2>1. PICK y : y = KeyAt(R, k)
    OBVIOUS
  <2>2. y \in R
    BY <1>2, <2>1, RankedKey
  <2>3. f[y] = g[y]
    BY <1>1, <2>2 DEF RowsOf
  <2> QED
    BY <2>1, <2>3
<1>4. View!LeafSeq(f, s) = View!LeafSeq(g, s)
  BY <1>1, <1>2, <1>3, ViewIs
<1> QED
  BY <1>4, ViewIs

-----------------------------------------------------------------------------
(* The digest of a node of the tree of f.                                  *)
NodeOf(f, node) ==
  IF node[1] = 2 THEN View!Leaf(f, node[2])
  ELSE IF node[1] = 1 THEN View!Inner(f, node[2])
  ELSE View!Root(f)

(* A read of a node that no later one has superseded returns its digest.   *)
LEMMA ReadsOne ==
  ASSUME NEW n \in Sides, snap[n] \in Content, NEW node \in Nodes, ~Superseded(node)
  PROVE  DigestReads(n, node) = {NodeOf(snap[n], node)}
<1>1. PICK tree : tree = View!Tree(snap[n])
  OBVIOUS
<1>2. \A m \in Nodes : tree[m] = IF Superseded(m) THEN None ELSE NodeOf(snap[n], m)
  BY <1>1, ViewIs DEF Superseded, NodeOf
<1>3. NodeOf(snap[n], node) # None
  <2>1. \/ node[1] = 2 /\ node[2] \in Leaves
        \/ node[1] = 1 /\ node[2] \in Child
        \/ node[1] = 0
    BY DEF Nodes, Child
  <2>2. 0 \in Leaves /\ 0 \in Child
    <3>1. 0 \in 0..(Fan - 1) /\ Fan * 0 + 0 = 0
      BY SizeAssumption
    <3> QED
      BY <3>1, LeafJoin DEF Child
  <2> QED
    BY <2>1, <2>2, DigestAssumption DEF NodeOf
<1>4. {m \in Nodes : tree[m] # None /\ (m = node \/ NodeTwin(m, node))} = {node}
  <2>1. ASSUME NEW m \in Nodes, tree[m] # None, NodeTwin(m, node)
        PROVE  FALSE
    <3>1. m[1] = node[1] /\ (Extends(m[2], node[2]) \/ Extends(node[2], m[2]))
      BY <2>1 DEF NodeTwin
    <3>2. ~Superseded(m)
      BY <1>2, <2>1
    <3> QED
      BY <3>1, <3>2 DEF Superseded
  <2>2. tree[node] # None
    BY <1>2, <1>3
  <2> QED
    BY <2>1, <2>2
<1>5. tree[node] = NodeOf(snap[n], node)
  BY <1>2
<1> QED
  BY <1>1, <1>4, <1>5 DEF DigestReads

-----------------------------------------------------------------------------
(* The operators of a node's store, in terms of its rows.                  *)
LEMMA StoreIs ==
  ASSUME NEW n \in Sides
  PROVE  /\ \A p \in Pos : \A v : Store(n)!DbPut(p, v) =
              [q \in Pos |-> IF q = p THEN v ELSE IF <<p, q>> \in Twins THEN None ELSE rows[n][q]]
         /\ \A p \in Pos : Store(n)!DbDelete(p) = Store(n)!DbPut(p, None)
         /\ \A t, s : Store(n)!SegmentKeys(t, s) =
              {p \in Pos :
                /\ rows[n][p] # None /\ AtOrAfter(p, t, s)
                /\ \A q \in Pos :
                     rows[n][q] # None /\ AtOrAfter(q, t, s) /\ q <= p => Seg[q] = s}
         /\ \A p : Store(n)!EntryDigests(p) = {d \in Digest : d.head = rows[n][p]}
<1>1. Store(n)!Pos = Pos
  BY DEF Store!Pos, Pos
<1>2. \A p, t, s : Store(n)!AtOrAfter(p, t, s) <=> AtOrAfter(p, t, s)
  BY DEF Store!AtOrAfter, AtOrAfter
<1>3. Store(n)!Digest = Digest
  BY DEF Store!Digest, Digest
<1>4. \A p \in Pos : \A v : Store(n)!DbPut(p, v) =
        [q \in Pos |-> IF q = p THEN v ELSE IF <<p, q>> \in Twins THEN None ELSE rows[n][q]]
  BY <1>1 DEF Store!DbPut
<1>5. \A p \in Pos : Store(n)!DbDelete(p) = Store(n)!DbPut(p, None)
  BY DEF Store!DbDelete
<1>6. \A t, s : Store(n)!SegmentKeys(t, s) =
        {p \in Pos :
          /\ rows[n][p] # None /\ AtOrAfter(p, t, s)
          /\ \A q \in Pos :
               rows[n][q] # None /\ AtOrAfter(q, t, s) /\ q <= p => Seg[q] = s}
  BY <1>1, <1>2 DEF Store!SegmentKeys
<1>7. \A p : Store(n)!EntryDigests(p) = {d \in Digest : d.head = rows[n][p]}
  BY <1>3 DEF Store!EntryDigests
<1> QED
  BY <1>4, <1>5, <1>6, <1>7

(* A read of a level's nodes returns the digest of each node that is not   *)
(* superseded.                                                             *)
LEMMA GetsDigest ==
  ASSUME NEW n \in Sides, snap[n] \in Content, NEW level, NEW first, NEW indexes,
         NEW r \in GetDigest(n, level, first, indexes)
  PROVE  /\ DOMAIN r = indexes
         /\ \A k \in indexes :
              <<level, first + k>> \in Nodes /\ ~Superseded(<<level, first + k>>)
                => r[k] = NodeOf(snap[n], <<level, first + k>>)
<1>1. DOMAIN r = indexes /\ \A k \in indexes : r[k] \in DigestReads(n, <<level, first + k>>)
  BY DEF GetDigest
<1>2. ASSUME NEW k \in indexes, <<level, first + k>> \in Nodes,
             ~Superseded(<<level, first + k>>)
      PROVE  r[k] = NodeOf(snap[n], <<level, first + k>>)
  BY <1>1, <1>2, ReadsOne
<1> QED
  BY <1>1, <1>2

(* What an answer of node n, which has read the segment of p, says of p.   *)
Returns(r, n, p) ==
  /\ Start[p] \in DOMAIN r <=> rows[n][p] # None
  /\ Start[p] \in DOMAIN r =>
       r[Start[p]][1] = p /\ r[Start[p]][2].head = rows[n][p]

(* A read of a segment returns items of rows of the segment, and that of a *)
(* row whose item no other stored row has, with its head.                  *)
LEMMA GetsSegment ==
  ASSUME NEW n \in Sides, NEW s \in Leaves, NEW r \in GetSegment(n, s)
  PROVE  /\ \A k \in DOMAIN r : <<s, k>> \in {Item(p) : p \in Pos}
         /\ \A p \in Pos :
              /\ Tab[p] = T /\ Seg[p] = s
              /\ \A q \in Pos \ {p} : Item(q) = Item(p) => rows[n][q] = None
              => Returns(r, n, p)
<1>1. PICK K : K = Store(n)!SegmentKeys(T, s)
  OBVIOUS
<1>2. PICK items : items = UNION {{p} \X Store(n)!EntryDigests(p) : p \in K}
  OBVIOUS
<1>3. /\ r \in [{Start[p] : p \in K} -> items]
      /\ \A k \in DOMAIN r : Start[r[k][1]] = k
  BY <1>1, <1>2 DEF GetSegment
<1>4. K = {p \in Pos :
             /\ rows[n][p] # None /\ AtOrAfter(p, T, s)
             /\ \A q \in Pos :
                  rows[n][q] # None /\ AtOrAfter(q, T, s) /\ q <= p => Seg[q] = s}
  BY <1>1, StoreIs
<1>5. ASSUME NEW p \in K PROVE p \in Pos /\ Seg[p] = s /\ rows[n][p] # None
  BY <1>4, ReadInSegment
<1>6. DOMAIN r = {Start[p] : p \in K}
  BY <1>3
<1>7. ASSUME NEW k \in DOMAIN r
      PROVE  r[k][1] \in K /\ r[k][2].head = rows[n][r[k][1]] /\ Start[r[k][1]] = k
  <2>1. r[k] \in items /\ Start[r[k][1]] = k
    BY <1>3
  <2>2. PICK q \in K : r[k] \in {q} \X Store(n)!EntryDigests(q)
    BY <1>2, <2>1
  <2>3. r[k][1] = q /\ r[k][2] \in Store(n)!EntryDigests(q)
    BY <2>2
  <2>4. r[k][2].head = rows[n][q]
    BY <2>3, StoreIs
  <2> QED
    BY <2>1, <2>3, <2>4
<1>8. ASSUME NEW k \in DOMAIN r PROVE <<s, k>> \in {Item(p) : p \in Pos}
  <2>1. PICK q \in K : k = Start[q]
    BY <1>6
  <2> QED
    BY <1>5, <2>1 DEF Item
<1>9. ASSUME NEW p \in Pos, Tab[p] = T, Seg[p] = s,
             \A q \in Pos \ {p} : Item(q) = Item(p) => rows[n][q] = None
      PROVE  Returns(r, n, p)
  <2>1. ASSUME rows[n][p] # None PROVE Start[p] \in DOMAIN r
    <3>1. p \in RowsOf(rows[n], T, s)
      BY <1>9, <2>1 DEF RowsOf
    <3>2. p \in K
      BY <1>4, <3>1, ReadComplete, CompareAssumption
    <3> QED
      BY <1>6, <3>2
  <2>2. ASSUME Start[p] \in DOMAIN r
        PROVE  /\ rows[n][p] # None
               /\ r[Start[p]][1] = p /\ r[Start[p]][2].head = rows[n][p]
    <3>1. PICK q : q = r[Start[p]][1]
      OBVIOUS
    <3>2. q \in K /\ r[Start[p]][2].head = rows[n][q] /\ Start[q] = Start[p]
      BY <1>7, <2>2, <3>1
    <3>3. q \in Pos /\ Item(q) = Item(p) /\ rows[n][q] # None
      BY <1>5, <1>9, <3>2 DEF Item
    <3>4. q = p
      BY <1>9, <3>3
    <3> QED
      BY <3>1, <3>2, <3>3, <3>4
  <2> QED
    BY <2>1, <2>2 DEF Returns
<1> QED
  BY <1>8, <1>9

-----------------------------------------------------------------------------
(* A tree that diff has updated knows the rows that are calm.              *)
Synced ==
  \A n \in Sides, p \in calm :
    pc \notin {"idle", "update"} \/ (pc = "update" /\ n < side) => snap[n][p] = rows[n][p]

Up(p) == Seg[p] \div Fan
Down(p) == Seg[p] % Fan

(* A row that diff has still to print.                                     *)
Owed(p) ==
  /\ p \in calm /\ Tab[p] = T /\ Differs(p) /\ Found(Seg[p]) /\ ~Merged(p)
  /\ Item(p) \notin printed

(* The loops have still to come to it.                                     *)
Path ==
  \A p \in Pos : Owed(p) =>
    /\ pc # "done"
    /\ pc = "lv2" => Up(p) \in lv1
    /\ pc = "seg" => Up(p) \in lv1 \/ (i = Up(p) /\ Down(p) \in lv2)

Loops ==
  /\ pc = "idle" => side = 1 /\ printed = {}
  /\ pc \in {"idle", "update", "done"} => answer = <<>>
  /\ side = 2 =>
       /\ pc \in {"update", "lv0", "lv1", "lv2", "seg"}
       /\ pc = "lv0" => DOMAIN answer = {0}
       /\ pc = "lv1" => DOMAIN answer = Child
       /\ pc = "lv2" => i \in lv1 /\ DOMAIN answer = Child
       /\ pc = "seg" =>
            /\ j \in lv2
            /\ \A k \in DOMAIN answer : <<Fan * i + j, k>> \in {Item(p) : p \in Pos}

(* No content with node 2's value of an owed row has the digest that node  *)
(* 1 has answered for it.                                                  *)
Telling ==
  side = 2 =>
    /\ \A p \in Pos, g \in Content : Owed(p) /\ g[p] = rows[2][p] =>
         /\ pc = "lv0" => answer[0] # View!Root(g)
         /\ pc = "lv1" => answer[Up(p)] # View!Inner(g, Up(p))
         /\ pc = "lv2" /\ i = Up(p) => answer[Down(p)] # View!Leaf(g, Seg[p])
    /\ pc = "seg" => \A p \in calm :
         Tab[p] = T /\ Seg[p] = Fan * i + j /\ ~Merged(p) => Returns(answer, 1, p)

(* A segment in which nothing differs, and what diff does not do there.    *)
Quiet(s) ==
  /\ ~Superseded(<<2, s>>)
  /\ \A p \in Pos : Tab[p] = T /\ Seg[p] = s => p \in calm /\ ~Differs(p)

Silent ==
  \A s \in Leaves : Quiet(s) =>
    /\ \A x \in printed : x[1] # s
    /\ pc = "seg" /\ i = s \div Fan => s % Fan \notin lv2
    /\ pc = "lv2" /\ side = 2 /\ i = s \div Fan =>
         \A g \in Content :
           (\A p \in Pos : Tab[p] = T /\ Seg[p] = s => g[p] = rows[1][p])
             => answer[s % Fan] = View!Leaf(g, s)

WalkInv == Synced /\ Path /\ Loops /\ Telling /\ Silent

IInv == TypeOK /\ WalkInv

-----------------------------------------------------------------------------
(* The place of a row among the nodes.                                     *)
LEMMA Place ==
  ASSUME NEW p \in Pos
  PROVE  /\ Seg[p] \in Leaves /\ Up(p) \in Child /\ Down(p) \in Child
         /\ Seg[p] = Fan * Up(p) + Down(p)
         /\ <<2, Seg[p]>> \in Nodes /\ <<1, Up(p)>> \in Nodes
<1>1. Seg[p] \in Leaves
  BY KeyAssumption
<1>2. Up(p) \in Child /\ Down(p) \in Child /\ Seg[p] = Fan * Up(p) + Down(p)
  BY <1>1, LeafSplit DEF Up, Down, Child
<1> QED
  BY <1>1, <1>2 DEF Nodes, Child

(* What the commands of diff read of a calm row's nodes.                   *)
LEMMA Reads ==
  ASSUME IInv, pc \notin {"idle", "update"}, NEW n \in Sides, NEW p \in calm,
         Found(Seg[p])
  PROVE  /\ snap[n] \in Content /\ snap[n][p] = rows[n][p]
         /\ \A r \in GetDigest(n, 0, 0, {0}) : r[0] = View!Root(snap[n])
         /\ \A r \in GetDigest(n, 1, 0, Child) : r[Up(p)] = View!Inner(snap[n], Up(p))
         /\ \A r \in GetDigest(n, 2, Fan * Up(p), Child) :
              r[Down(p)] = View!Leaf(snap[n], Seg[p])
<1>1. snap[n] \in Content /\ snap[n][p] = rows[n][p] /\ p \in Pos
  BY DEF IInv, TypeOK, WalkInv, Synced
<1>2. ASSUME NEW r \in GetDigest(n, 0, 0, {0}) PROVE r[0] = View!Root(snap[n])
  <2>1. <<0, 0 + 0>> \in Nodes /\ ~Superseded(<<0, 0 + 0>>)
    BY DEF Nodes, Superseded, Extends
  <2>2. r[0] = NodeOf(snap[n], <<0, 0 + 0>>)
    BY <1>1, <2>1, GetsDigest
  <2> QED
    BY <2>2 DEF NodeOf
<1>3. Up(p) \in Child /\ <<1, Up(p)>> \in Nodes /\ 0 + Up(p) = Up(p)
  <2>1. Up(p) \in Child /\ <<1, Up(p)>> \in Nodes
    BY <1>1, Place
  <2>2. Up(p) \in Int
    BY <2>1, SizeAssumption DEF Child
  <2> QED
    BY <2>1, <2>2
<1>4. ~Superseded(<<1, Up(p)>>) /\ ~Superseded(<<2, Seg[p]>>)
  BY DEF Found, Up
<1>5. ASSUME NEW r \in GetDigest(n, 1, 0, Child)
      PROVE  r[Up(p)] = View!Inner(snap[n], Up(p))
  <2>1. r[Up(p)] = NodeOf(snap[n], <<1, Up(p)>>)
    BY <1>1, <1>3, <1>4, GetsDigest
  <2> QED
    BY <2>1 DEF NodeOf
<1>6. ASSUME NEW r \in GetDigest(n, 2, Fan * Up(p), Child)
      PROVE  r[Down(p)] = View!Leaf(snap[n], Seg[p])
  <2>1. /\ Down(p) \in Child /\ Seg[p] = Fan * Up(p) + Down(p) /\ <<2, Seg[p]>> \in Nodes
    BY <1>1, Place
  <2>2. r[Down(p)] = NodeOf(snap[n], <<2, Seg[p]>>)
    BY <1>1, <1>4, <2>1, GetsDigest
  <2> QED
    BY <2>2 DEF NodeOf
<1> QED
  BY <1>1, <1>2, <1>5, <1>6

(* What they read of the leaf of a segment in which nothing differs.       *)
LEMMA ReadsQuiet ==
  ASSUME IInv, pc \notin {"idle", "update"}, NEW n \in Sides, NEW s \in Leaves, Quiet(s),
         NEW r \in GetDigest(n, 2, Fan * (s \div Fan), Child)
  PROVE  /\ snap[n] \in Content
         /\ \A p \in Pos : Tab[p] = T /\ Seg[p] = s => snap[n][p] = rows[1][p]
         /\ s % Fan \in Child /\ r[s % Fan] = View!Leaf(snap[n], s)
<1>1. snap[n] \in Content
  BY DEF IInv, TypeOK
<1>2. ASSUME NEW p \in Pos, Tab[p] = T, Seg[p] = s PROVE snap[n][p] = rows[1][p]
  <2>1. p \in calm /\ rows[1][p] = rows[2][p]
    BY <1>2 DEF Quiet, Differs
  <2>2. snap[n][p] = rows[n][p]
    BY <2>1 DEF IInv, WalkInv, Synced
  <2> QED
    BY <2>1, <2>2 DEF Sides
<1>3. s % Fan \in Child /\ s = Fan * (s \div Fan) + (s % Fan)
  BY LeafSplit DEF Child
<1>4. r[s % Fan] = NodeOf(snap[n], <<2, s>>)
  <2>1. <<2, s>> \in Nodes /\ ~Superseded(<<2, s>>)
    BY DEF Nodes, Quiet
  <2> QED
    BY <1>1, <1>3, <2>1, GetsDigest
<1> QED
  BY <1>1, <1>2, <1>3, <1>4 DEF NodeOf

-----------------------------------------------------------------------------
LEMMA ChildIs ==
  /\ Fan \in Nat /\ Fan > 0 /\ 0 \in Child
  /\ \A a, b \in Child : Fan * a + b \in Leaves
BY SizeAssumption, LeafJoin DEF Child

(* A message changes one row of one node, and rows it mistakes for it;     *)
(* none of them is calm any more.                                          *)
LEMMA MessageRows ==
  ASSUME TypeOK, NEW n \in Sides, NEW p \in Pos, NEW v \in Values(p), Message(n, p, v)
  PROVE  /\ rows' \in [Sides -> Content]
         /\ calm' \subseteq calm
         /\ \A q \in calm', m \in Sides : rows'[m][q] = rows[m][q]
<1>1. PICK f : f = rows'[n]
  OBVIOUS
<1>2. rows[n] \in Content /\ rows[n] \in [Pos -> Heads \cup {None}]
  BY DEF TypeOK, Content
<1>3. f = [q \in Pos |-> IF q = p THEN v ELSE IF <<p, q>> \in Twins THEN None ELSE rows[n][q]]
  <2>1. rows' = [rows EXCEPT ![n] =
                   IF v = None THEN Store(n)!DbDelete(p) ELSE Store(n)!DbPut(p, v)]
    BY DEF Message
  <2>2. f = IF v = None THEN Store(n)!DbDelete(p) ELSE Store(n)!DbPut(p, v)
    BY <1>1, <2>1 DEF TypeOK
  <2>3. f = Store(n)!DbPut(p, v)
    BY <2>2, StoreIs
  <2> QED
    BY <2>3, StoreIs
<1>4. rows' = [rows EXCEPT ![n] = f] /\ calm' = calm \ {q \in Pos : f[q] # rows[n][q]}
  BY <1>1 DEF Message, TypeOK
<1>5. f \in Content
  <2>1. v \in Heads \cup {None}
    BY DEF Values
  <2>2. f \in [Pos -> Heads \cup {None}]
    BY <1>2, <1>3, <2>1
  <2>3. \A q \in Pos : rows[n][q] \in Values(q) /\ None \in Values(q)
    BY <1>2 DEF Content, Values
  <2>4. \A q \in Pos : f[q] \in Values(q)
    BY <1>3, <2>3
  <2> QED
    BY <2>2, <2>4 DEF Content
<1>6. rows' \in [Sides -> Content]
  BY <1>4, <1>5 DEF TypeOK
<1>7. calm' \subseteq calm /\ calm \subseteq Pos
  BY <1>4 DEF TypeOK
<1>8. ASSUME NEW q \in calm', NEW m \in Sides PROVE rows'[m][q] = rows[m][q]
  <2>1. q \in Pos /\ f[q] = rows[n][q]
    BY <1>4, <1>7
  <2> QED
    BY <1>4, <2>1 DEF TypeOK
<1> QED
  BY <1>6, <1>7, <1>8

LEMMA TypeStep ==
  ASSUME IInv, [Next]_vars
  PROVE  TypeOK'
<1> TypeOK /\ Loops
  BY DEF IInv, WalkInv
<1> USE DEF TypeOK
<1>1. ASSUME NEW n \in Sides, NEW p \in Pos, NEW v \in Values(p), Message(n, p, v)
      PROVE  TypeOK'
  <2>1. rows' \in [Sides -> Content] /\ calm' \subseteq Pos
    BY <1>1, MessageRows
  <2>2. messages' \in 0..MaxMessages
    BY <1>1, CompareAssumption DEF Message
  <2> QED
    BY <1>1, <2>1, <2>2 DEF Message, locals
<1>2. ASSUME NEW n \in Sides, OtherUpdate(n) PROVE TypeOK'
  BY <1>2 DEF OtherUpdate, locals
<1>3. CASE Begin
  BY <1>3 DEF Begin, nodes, locals
<1>4. CASE Update
  <2>1. snap' \in [Sides -> Content] /\ side' \in Sides
    BY <1>4 DEF Update, Sides
  <2>2. answer' = <<>>
    BY <1>4 DEF Update, locals, Loops
  <2> QED
    BY <1>4, <2>1, <2>2 DEF Update, locals
<1>5. CASE Ask
  BY <1>5 DEF Ask, nodes, Sides
<1>6. CASE Lv0Diff
  BY <1>6 DEF Lv0Diff, nodes, Sides
<1>7. CASE Lv1Diff
  <2>1. lv1' \subseteq Child
    BY <1>7 DEF Lv1Diff, Differ, Loops
  <2> QED
    BY <1>7, <2>1 DEF Lv1Diff, nodes, Sides
<1>8. CASE Lv2Diff
  <2>1. lv2' \subseteq Child
    BY <1>8 DEF Lv2Diff, Differ, Loops
  <2> QED
    BY <1>8, <2>1 DEF Lv2Diff, nodes, Sides
<1>9. CASE SegDiff
  <2>1. PICK r2 \in GetSegment(2, Fan * i + j) :
          \A x \in printed' :
            \/ x \in printed
            \/ \E k \in DOMAIN answer \cup DOMAIN r2 : x = <<Fan * i + j, k>>
    BY <1>9 DEF SegDiff
  <2>2. Fan * i + j \in Leaves
    BY ChildIs
  <2>3. \A k \in DOMAIN r2 : <<Fan * i + j, k>> \in {Item(p) : p \in Pos}
    BY <2>2, GetsSegment DEF Sides
  <2>4. \A k \in DOMAIN answer : <<Fan * i + j, k>> \in {Item(p) : p \in Pos}
    BY <1>9 DEF SegDiff, Loops
  <2>5. printed' \subseteq {Item(p) : p \in Pos}
    BY <2>1, <2>3, <2>4
  <2> QED
    BY <1>9, <2>5 DEF SegDiff, nodes, Sides
<1>10. CASE Ascend
  BY <1>10 DEF Ascend, nodes, locals
<1>11. CASE UNCHANGED vars
  BY <1>11 DEF vars, nodes, locals
<1> QED
  BY <1>1, <1>2, <1>3, <1>4, <1>5, <1>6, <1>7, <1>8, <1>9, <1>10, <1>11 DEF Next

(* Steps that leave diff alone, and the rows that stay calm.               *)
LEMMA Undisturbed ==
  ASSUME IInv, UNCHANGED <<pc, side, locals>>, calm' \subseteq calm,
         \A q \in calm', m \in Sides : rows'[m][q] = rows[m][q]
  PROVE  Path' /\ Loops' /\ Telling' /\ Silent'
<1>1. /\ pc' = pc /\ side' = side /\ answer' = answer /\ lv1' = lv1 /\ lv2' = lv2
      /\ i' = i /\ j' = j /\ printed' = printed
  BY DEF locals
<1>2. \A q \in calm' : rows'[1][q] = rows[1][q] /\ rows'[2][q] = rows[2][q]
  BY DEF Sides
<1>3. ASSUME NEW p, ~Merged(p)' PROVE ~Merged(p)
  <2> SUFFICES ASSUME NEW q \in Pos \ {p}, Item(q) = Item(p)
               PROVE  q \in calm /\ \A n \in Sides : rows[n][q] = None
    BY DEF Merged
  <2>1. q \in calm' /\ \A n \in Sides : rows'[n][q] = None
    BY <1>3 DEF Merged, Item
  <2> QED
    BY <2>1
<1>4. ASSUME NEW p, Owed(p)' PROVE Owed(p) /\ rows'[2][p] = rows[2][p]
  BY <1>1, <1>2, <1>3, <1>4 DEF Owed, Differs, Found, Superseded, Item
<1>5. ASSUME NEW s, Quiet(s)'
      PROVE  Quiet(s) /\ \A p \in Pos : Tab[p] = T /\ Seg[p] = s => rows'[1][p] = rows[1][p]
  BY <1>2, <1>5 DEF Quiet, Differs, Superseded
<1>6. Path'
  <2>1. Path
    BY DEF IInv, WalkInv
  <2> QED
    BY <1>1, <1>4, <2>1 DEF Path, Up, Down
<1>7. Loops'
  <2>1. Loops
    BY DEF IInv, WalkInv
  <2> QED
    BY <1>1, <2>1 DEF Loops
<1>8. Telling'
  <2>1. Telling
    BY DEF IInv, WalkInv
  <2> SUFFICES ASSUME side' = 2 PROVE Telling'
    BY DEF Telling
  <2>2. ASSUME NEW p \in Pos, NEW g \in Content, Owed(p)', g[p] = rows'[2][p]
        PROVE  /\ pc' = "lv0" => answer'[0] # View!Root(g)
               /\ pc' = "lv1" => answer'[Up(p)] # View!Inner(g, Up(p))
               /\ pc' = "lv2" /\ i' = Up(p) => answer'[Down(p)] # View!Leaf(g, Seg[p])
    <3>1. Owed(p) /\ g[p] = rows[2][p]
      BY <1>4, <2>2
    <3> QED
      BY <1>1, <2>1, <3>1 DEF Telling
  <2>3. ASSUME pc' = "seg", NEW p \in calm', Tab[p] = T, Seg[p] = Fan * i' + j', ~Merged(p)'
        PROVE  Returns(answer, 1, p)'
    <3>1. Returns(answer, 1, p)
      BY <1>1, <1>3, <2>1, <2>3 DEF Telling
    <3> QED
      BY <1>1, <1>2, <2>3, <3>1 DEF Returns
  <2> QED
    BY <2>2, <2>3 DEF Telling, Up, Down
<1>9. Silent'
  <2>1. Silent
    BY DEF IInv, WalkInv
  <2> SUFFICES ASSUME NEW s \in Leaves, Quiet(s)'
               PROVE  /\ \A x \in printed' : x[1] # s
                      /\ pc' = "seg" /\ i' = s \div Fan => s % Fan \notin lv2'
                      /\ pc' = "lv2" /\ side' = 2 /\ i' = s \div Fan =>
                           \A g \in Content :
                             (\A p \in Pos : Tab[p] = T /\ Seg[p] = s => g[p] = rows'[1][p])
                               => answer'[s % Fan] = View!Leaf(g, s)
    BY DEF Silent
  <2>2. Quiet(s) /\ \A p \in Pos : Tab[p] = T /\ Seg[p] = s => rows'[1][p] = rows[1][p]
    BY <1>5
  <2>3. ASSUME NEW g \in Content, pc' = "lv2", side' = 2, i' = s \div Fan,
               \A p \in Pos : Tab[p] = T /\ Seg[p] = s => g[p] = rows'[1][p]
        PROVE  answer'[s % Fan] = View!Leaf(g, s)
    <3>1. \A p \in Pos : Tab[p] = T /\ Seg[p] = s => g[p] = rows[1][p]
      BY <2>2, <2>3
    <3> QED
      BY <1>1, <2>1, <2>2, <2>3, <3>1 DEF Silent
  <2>4. /\ \A x \in printed' : x[1] # s
        /\ pc' = "seg" /\ i' = s \div Fan => s % Fan \notin lv2'
    BY <1>1, <2>1, <2>2 DEF Silent
  <2> QED
    BY <2>3, <2>4
<1> QED
  BY <1>6, <1>7, <1>8, <1>9

LEMMA MessageKeeps ==
  ASSUME IInv, NEW n \in Sides, NEW p \in Pos, NEW v \in Values(p), Message(n, p, v)
  PROVE  WalkInv'
<1>1. /\ calm' \subseteq calm
      /\ \A q \in calm', m \in Sides : rows'[m][q] = rows[m][q]
  BY MessageRows DEF IInv
<1>2. UNCHANGED <<snap, pc, side, locals>>
  BY DEF Message
<1>3. Synced'
  BY <1>1, <1>2 DEF IInv, WalkInv, Synced
<1> QED
  BY <1>1, <1>2, <1>3, Undisturbed DEF WalkInv

LEMMA OtherUpdateKeeps ==
  ASSUME IInv, NEW n \in Sides, OtherUpdate(n)
  PROVE  WalkInv'
<1>1. UNCHANGED <<rows, calm, pc, side, locals>> /\ snap' = [snap EXCEPT ![n] = rows[n]]
  BY DEF OtherUpdate
<1>2. Synced'
  BY <1>1 DEF IInv, TypeOK, WalkInv, Synced
<1> QED
  BY <1>1, <1>2, Undisturbed DEF WalkInv

LEMMA BeginKeeps ==
  ASSUME IInv, Begin
  PROVE  WalkInv'
<1>1. /\ pc = "idle" /\ pc' = "update" /\ side' = 1 /\ side = 1 /\ printed' = {}
      /\ answer' = <<>>
  BY DEF Begin, locals, IInv, WalkInv, Loops
<1>2. Synced'
  BY <1>1 DEF Synced, Sides
<1>3. Path'
  BY <1>1 DEF Path
<1>4. Loops'
  BY <1>1 DEF Loops
<1>5. Telling' /\ Silent'
  BY <1>1 DEF Telling, Silent
<1> QED
  BY <1>2, <1>3, <1>4, <1>5 DEF WalkInv

LEMMA UpdateKeeps ==
  ASSUME IInv, Update
  PROVE  WalkInv'
<1>1. /\ pc = "update" /\ answer = <<>> /\ answer' = <<>> /\ pc' \in {"update", "lv0"}
      /\ pc' = "lv0" => side' = 1
      /\ UNCHANGED <<rows, calm, printed>>
  BY DEF Update, locals, IInv, TypeOK, WalkInv, Loops, Sides
<1>2. Synced'
  <2> SUFFICES ASSUME NEW n \in Sides, NEW p \in calm',
                      pc' # "update" \/ n < side'
               PROVE  snap'[n][p] = rows'[n][p]
    BY DEF Synced
  <2>1. CASE n = side
    BY <1>1, <2>1 DEF Update, IInv, TypeOK
  <2>2. CASE n # side
    <3>1. n < side
      BY <2>2 DEF Update, IInv, TypeOK, Sides
    <3>2. snap[n][p] = rows[n][p]
      BY <1>1, <3>1 DEF IInv, WalkInv, Synced
    <3> QED
      BY <1>1, <2>2, <3>2 DEF Update, IInv, TypeOK
  <2> QED
    BY <2>1, <2>2
<1>3. Path'
  BY <1>1 DEF Path
<1>4. Loops'
  BY <1>1 DEF Loops
<1>5. Telling'
  BY <1>1 DEF Telling
<1>6. Silent'
  <2>1. \A s : Quiet(s)' => Quiet(s)
    BY <1>1 DEF Quiet, Differs, Superseded
  <2>2. Silent
    BY DEF IInv, WalkInv
  <2> QED
    BY <1>1, <2>1, <2>2 DEF Silent
<1> QED
  BY <1>2, <1>3, <1>4, <1>5, <1>6 DEF WalkInv

LEMMA AskKeeps ==
  ASSUME IInv, Ask
  PROVE  WalkInv'
<1> TypeOK /\ Synced /\ Path /\ Loops /\ Telling /\ Silent
  BY DEF IInv, WalkInv
<1>1. /\ pc \in {"lv0", "lv1", "lv2", "seg"} /\ side = 1 /\ side' = 2
      /\ UNCHANGED <<rows, snap, pc, lv1, lv2, printed, calm>>
  BY DEF Ask, nodes
<1>2. /\ pc = "lv0" => answer' \in GetDigest(1, 0, 0, {0})
      /\ pc = "lv1" => answer' \in GetDigest(1, 1, 0, Child)
      /\ pc = "lv2" => i' \in lv1 /\ answer' \in GetDigest(1, 2, Fan * i', Child)
      /\ pc = "seg" => i' = i /\ j' \in lv2 /\ answer' \in GetSegment(1, Fan * i' + j')
  BY DEF Ask
<1>3. snap[1] \in Content /\ lv1 \subseteq Child /\ lv2 \subseteq Child /\ i \in Child
  BY DEF TypeOK, Sides
<1>4. \A p : Owed(p)' <=> Owed(p)
  BY <1>1 DEF Owed, Differs, Found, Superseded, Merged, Item
<1>5. \A s : Quiet(s)' <=> Quiet(s)
  BY <1>1 DEF Quiet, Differs, Superseded
<1>6. Synced'
  BY <1>1 DEF Synced
<1>7. Path'
  BY <1>1, <1>2, <1>4 DEF Path, Up, Down
<1>8. pc = "seg" => Fan * i' + j' \in Leaves
  BY <1>2, <1>3, ChildIs
<1>9. Loops'
  <2>1. pc = "lv0" => DOMAIN answer' = {0}
    BY <1>2, <1>3, GetsDigest DEF Sides
  <2>2. pc \in {"lv1", "lv2"} => DOMAIN answer' = Child
    BY <1>2, <1>3, GetsDigest DEF Sides
  <2>3. pc = "seg" => \A k \in DOMAIN answer' : <<Fan * i' + j', k>> \in {Item(p) : p \in Pos}
    BY <1>2, <1>8, GetsSegment DEF Sides
  <2> QED
    BY <1>1, <1>2, <2>1, <2>2, <2>3 DEF Loops
<1>10. Telling'
  <2>1. ASSUME NEW p \in Pos, NEW g \in Content, Owed(p), g[p] = rows[2][p]
        PROVE  /\ pc = "lv0" => answer'[0] # View!Root(g)
               /\ pc = "lv1" => answer'[Up(p)] # View!Inner(g, Up(p))
               /\ pc = "lv2" /\ i' = Up(p) => answer'[Down(p)] # View!Leaf(g, Seg[p])
    <3>1. p \in calm /\ Tab[p] = T /\ Found(Seg[p]) /\ rows[1][p] # rows[2][p]
      BY <2>1 DEF Owed, Differs
    <3>2. /\ snap[1] \in Content /\ snap[1][p] = rows[1][p]
          /\ \A r \in GetDigest(1, 0, 0, {0}) : r[0] = View!Root(snap[1])
          /\ \A r \in GetDigest(1, 1, 0, Child) : r[Up(p)] = View!Inner(snap[1], Up(p))
          /\ \A r \in GetDigest(1, 2, Fan * Up(p), Child) :
               r[Down(p)] = View!Leaf(snap[1], Seg[p])
      BY <1>1, <3>1, Reads DEF Sides
    <3>3. /\ View!Leaf(snap[1], Seg[p]) # View!Leaf(g, Seg[p])
          /\ View!Inner(snap[1], Up(p)) # View!Inner(g, Up(p))
          /\ View!Root(snap[1]) # View!Root(g)
      BY <2>1, <3>1, <3>2, DigestsDiffer DEF Up
    <3> QED
      BY <1>2, <3>2, <3>3
  <2>2. ASSUME pc = "seg", NEW p \in calm, Tab[p] = T, Seg[p] = Fan * i' + j', ~Merged(p)
        PROVE  Returns(answer, 1, p)'
    <3>1. p \in Pos /\ \A q \in Pos \ {p} : Item(q) = Item(p) => rows[1][q] = None
      BY <2>2 DEF TypeOK, Merged, Sides
    <3>2. Returns(answer', 1, p)
      BY <1>2, <1>8, <2>2, <3>1, GetsSegment DEF Sides
    <3> QED
      BY <1>1, <3>2 DEF Returns
  <2>3. \A p : Merged(p)' <=> Merged(p)
    BY <1>1 DEF Merged, Item
  <2>4. ASSUME NEW p \in Pos, NEW g \in Content, Owed(p)', g[p] = rows'[2][p]
        PROVE  /\ pc' = "lv0" => answer'[0] # View!Root(g)
               /\ pc' = "lv1" => answer'[Up(p)] # View!Inner(g, Up(p))
               /\ pc' = "lv2" /\ i' = Up(p) => answer'[Down(p)] # View!Leaf(g, Seg[p])
    BY <1>1, <1>4, <2>1, <2>4
  <2>5. ASSUME pc' = "seg", NEW p \in calm', Tab[p] = T, Seg[p] = Fan * i' + j', ~Merged(p)'
        PROVE  Returns(answer, 1, p)'
    BY <1>1, <2>2, <2>3, <2>5
  <2> QED
    BY <2>4, <2>5 DEF Telling, Up, Down
<1>11. Silent'
  <2> SUFFICES ASSUME NEW s \in Leaves, Quiet(s)
               PROVE  /\ \A x \in printed' : x[1] # s
                      /\ pc' = "seg" /\ i' = s \div Fan => s % Fan \notin lv2'
                      /\ pc' = "lv2" /\ side' = 2 /\ i' = s \div Fan =>
                           \A g \in Content :
                             (\A p \in Pos : Tab[p] = T /\ Seg[p] = s => g[p] = rows'[1][p])
                               => answer'[s % Fan] = View!Leaf(g, s)
    BY <1>5 DEF Silent
  <2>1. ASSUME NEW g \in Content, pc = "lv2", i' = s \div Fan,
               \A p \in Pos : Tab[p] = T /\ Seg[p] = s => g[p] = rows[1][p]
        PROVE  answer'[s % Fan] = View!Leaf(g, s)
    <3>1. answer' \in GetDigest(1, 2, Fan * (s \div Fan), Child)
      BY <1>2, <2>1
    <3>2. /\ \A p \in Pos : Tab[p] = T /\ Seg[p] = s => snap[1][p] = rows[1][p]
          /\ answer'[s % Fan] = View!Leaf(snap[1], s)
      BY <1>1, <3>1, ReadsQuiet DEF Sides
    <3>3. View!Leaf(snap[1], s) = View!Leaf(g, s)
      BY <2>1, <3>2, LeavesAgree
    <3> QED
      BY <3>2, <3>3
  <2>2. \A x \in printed' : x[1] # s
    BY <1>1 DEF Silent
  <2>3. pc' = "seg" /\ i' = s \div Fan => s % Fan \notin lv2'
    BY <1>1, <1>2 DEF Silent
  <2> QED
    BY <1>1, <2>1, <2>2, <2>3
<1> QED
  BY <1>6, <1>7, <1>9, <1>10, <1>11 DEF WalkInv

LEMMA Lv0DiffKeeps ==
  ASSUME IInv, Lv0Diff
  PROVE  WalkInv'
<1> TypeOK /\ Synced /\ Path /\ Loops /\ Telling /\ Silent
  BY DEF IInv, WalkInv
<1>1. /\ pc = "lv0" /\ side = 2 /\ side' = 1 /\ answer' = <<>> /\ pc' \in {"done", "lv1"}
      /\ UNCHANGED <<rows, snap, printed, calm>>
  BY DEF Lv0Diff, nodes
<1>2. \A p : Owed(p)' <=> Owed(p)
  BY <1>1 DEF Owed, Differs, Found, Superseded, Merged, Item
<1>3. \A s : Quiet(s)' <=> Quiet(s)
  BY <1>1 DEF Quiet, Differs, Superseded
<1>4. Synced'
  BY <1>1 DEF Synced
<1>5. Path'
  <2>1. ASSUME NEW p \in Pos, Owed(p) PROVE pc' # "done"
    <3>1. p \in calm /\ Found(Seg[p])
      BY <2>1 DEF Owed
    <3>2. /\ snap[2] \in Content /\ snap[2][p] = rows[2][p]
          /\ \A r \in GetDigest(2, 0, 0, {0}) : r[0] = View!Root(snap[2])
      BY <1>1, <3>1, Reads DEF Sides
    <3>3. answer[0] # View!Root(snap[2])
      BY <1>1, <2>1, <3>2 DEF Telling
    <3> QED
      BY <3>2, <3>3 DEF Lv0Diff
  <2> QED
    BY <1>1, <1>2, <2>1 DEF Path
<1>6. Loops' /\ Telling'
  BY <1>1 DEF Loops, Telling
<1>7. Silent'
  BY <1>1, <1>3 DEF Silent
<1> QED
  BY <1>4, <1>5, <1>6, <1>7 DEF WalkInv

LEMMA Lv1DiffKeeps ==
  ASSUME IInv, Lv1Diff
  PROVE  WalkInv'
<1> TypeOK /\ Synced /\ Path /\ Loops /\ Telling /\ Silent
  BY DEF IInv, WalkInv
<1>1. /\ pc = "lv1" /\ side = 2 /\ side' = 1 /\ answer' = <<>> /\ pc' = "lv2"
      /\ DOMAIN answer = Child
      /\ UNCHANGED <<rows, snap, printed, calm>>
  BY DEF Lv1Diff, nodes, Loops
<1>2. \A p : Owed(p)' <=> Owed(p)
  BY <1>1 DEF Owed, Differs, Found, Superseded, Merged, Item
<1>3. \A s : Quiet(s)' <=> Quiet(s)
  BY <1>1 DEF Quiet, Differs, Superseded
<1>4. Synced'
  BY <1>1 DEF Synced
<1>5. Path'
  <2>1. ASSUME NEW p \in Pos, Owed(p) PROVE Up(p) \in lv1'
    <3>1. p \in calm /\ Found(Seg[p]) /\ Up(p) \in Child
      BY <2>1, Place DEF Owed
    <3>2. /\ snap[2] \in Content /\ snap[2][p] = rows[2][p]
          /\ \A r \in GetDigest(2, 1, 0, Child) : r[Up(p)] = View!Inner(snap[2], Up(p))
      BY <1>1, <3>1, Reads DEF Sides
    <3>3. answer[Up(p)] # View!Inner(snap[2], Up(p))
      BY <1>1, <2>1, <3>2 DEF Telling
    <3> QED
      BY <1>1, <3>1, <3>2, <3>3 DEF Lv1Diff, Differ
  <2> QED
    BY <1>1, <1>2, <2>1 DEF Path, Up
<1>6. Loops' /\ Telling'
  BY <1>1 DEF Loops, Telling
<1>7. Silent'
  BY <1>1, <1>3 DEF Silent
<1> QED
  BY <1>4, <1>5, <1>6, <1>7 DEF WalkInv

LEMMA Lv2DiffKeeps ==
  ASSUME IInv, Lv2Diff
  PROVE  WalkInv'
<1> TypeOK /\ Synced /\ Path /\ Loops /\ Telling /\ Silent
  BY DEF IInv, WalkInv
<1>1. /\ pc = "lv2" /\ side = 2 /\ side' = 1 /\ answer' = <<>> /\ pc' = "seg"
      /\ DOMAIN answer = Child /\ i' = i /\ lv1' = lv1 \ {i}
      /\ UNCHANGED <<rows, snap, printed, calm>>
  BY DEF Lv2Diff, nodes, Loops
<1>2. PICK r2 \in GetDigest(2, 2, Fan * i, Child) : lv2' = {k \in Child : answer[k] # r2[k]}
  BY <1>1 DEF Lv2Diff, Differ
<1>3. \A p : Owed(p)' <=> Owed(p)
  BY <1>1 DEF Owed, Differs, Found, Superseded, Merged, Item
<1>4. \A s : Quiet(s)' <=> Quiet(s)
  BY <1>1 DEF Quiet, Differs, Superseded
<1>5. Synced'
  BY <1>1 DEF Synced
<1>6. Path'
  <2>1. ASSUME NEW p \in Pos, Owed(p), Up(p) = i PROVE Down(p) \in lv2'
    <3>1. p \in calm /\ Found(Seg[p]) /\ Down(p) \in Child
      BY <2>1, Place DEF Owed
    <3>2. /\ snap[2] \in Content /\ snap[2][p] = rows[2][p]
          /\ \A r \in GetDigest(2, 2, Fan * Up(p), Child) :
               r[Down(p)] = View!Leaf(snap[2], Seg[p])
      BY <1>1, <3>1, Reads DEF Sides
    <3>3. answer[Down(p)] # View!Leaf(snap[2], Seg[p])
      BY <1>1, <2>1, <3>2 DEF Telling
    <3>4. r2[Down(p)] = View!Leaf(snap[2], Seg[p])
      BY <1>2, <2>1, <3>2
    <3> QED
      BY <1>2, <3>1, <3>3, <3>4
  <2>2. ASSUME NEW p \in Pos, Owed(p)
        PROVE  Up(p) \in lv1' \/ (i' = Up(p) /\ Down(p) \in lv2')
    BY <1>1, <2>1, <2>2 DEF Path
  <2> QED
    BY <1>1, <1>3, <2>2 DEF Path, Up, Down
<1>7. Loops' /\ Telling'
  BY <1>1 DEF Loops, Telling
<1>8. Silent'
  <2>1. ASSUME NEW s \in Leaves, Quiet(s), i = s \div Fan PROVE s % Fan \notin lv2'
    <3>1. r2 \in GetDigest(2, 2, Fan * (s \div Fan), Child)
      BY <1>2, <2>1
    <3>2. /\ snap[2] \in Content
          /\ \A p \in Pos : Tab[p] = T /\ Seg[p] = s => snap[2][p] = rows[1][p]
          /\ r2[s % Fan] = View!Leaf(snap[2], s)
      BY <1>1, <2>1, <3>1, ReadsQuiet DEF Sides
    <3>3. answer[s % Fan] = View!Leaf(snap[2], s)
      BY <1>1, <2>1, <3>2 DEF Silent
    <3> QED
      BY <1>2, <3>2, <3>3
  <2> QED
    BY <1>1, <1>4, <2>1 DEF Silent
<1> QED
  BY <1>5, <1>6, <1>7, <1>8 DEF WalkInv

LEMMA SegDiffKeeps ==
  ASSUME IInv, SegDiff
  PROVE  WalkInv'
<1> TypeOK /\ Synced /\ Path /\ Loops /\ Telling /\ Silent
  BY DEF IInv, WalkInv
<1>1. /\ pc = "seg" /\ side = 2 /\ side' = 1 /\ answer' = <<>> /\ pc' = "seg"
      /\ i' = i /\ j' = j /\ lv1' = lv1 /\ lv2' = lv2 \ {j} /\ j \in lv2
      /\ UNCHANGED <<rows, snap, calm>>
  BY DEF SegDiff, nodes, Loops
<1>2. PICK r2 \in GetSegment(2, Fan * i + j) :
        /\ printed \subseteq printed'
        /\ \A k \in DOMAIN answer \cup DOMAIN r2 :
             \/ k \notin DOMAIN answer \/ k \notin DOMAIN r2 \/ answer[k] # r2[k]
             => <<Fan * i + j, k>> \in printed'
        /\ \A x \in printed' : x \in printed \/ x[1] = Fan * i + j
  BY DEF SegDiff
<1>3. i \in Child /\ j \in Child /\ Fan * i + j \in Leaves
  BY ChildIs DEF TypeOK
<1>4. ASSUME NEW p \in Pos, Tab[p] = T, Seg[p] = Fan * i + j, ~Merged(p)
      PROVE  Returns(r2, 2, p)
  <2>1. \A q \in Pos \ {p} : Item(q) = Item(p) => rows[2][q] = None
    BY <1>4 DEF Merged, Sides
  <2> QED
    BY <1>2, <1>3, <1>4, <2>1, GetsSegment DEF Sides
<1>5. Synced'
  BY <1>1 DEF Synced
<1>6. Path'
  <2>1. ASSUME NEW p \in Pos, Owed(p), Seg[p] = Fan * i + j PROVE Item(p) \in printed'
    <3>1. p \in calm /\ Tab[p] = T /\ rows[1][p] # rows[2][p] /\ ~Merged(p)
      BY <2>1 DEF Owed, Differs
    <3>2. Returns(answer, 1, p)
      BY <1>1, <2>1, <3>1 DEF Telling
    <3>3. Returns(r2, 2, p)
      BY <1>4, <2>1, <3>1
    <3>4. PICK k : k = Start[p]
      OBVIOUS
    <3>5. k \in DOMAIN answer /\ k \in DOMAIN r2 => answer[k] # r2[k]
      BY <3>1, <3>2, <3>3, <3>4 DEF Returns
    <3>6. k \in DOMAIN answer \/ k \in DOMAIN r2
      BY <3>1, <3>2, <3>3, <3>4 DEF Returns
    <3>7. <<Fan * i + j, k>> \in printed'
      BY <1>2, <3>5, <3>6
    <3> QED
      BY <2>1, <3>4, <3>7 DEF Item
  <2>2. ASSUME NEW p \in Pos, Owed(p), Item(p) \notin printed'
        PROVE  Up(p) \in lv1 \/ (i = Up(p) /\ Down(p) \in lv2')
    <3>1. Up(p) \in lv1 \/ (i = Up(p) /\ Down(p) \in lv2)
      BY <1>1, <2>2 DEF Path
    <3>2. i = Up(p) => Down(p) # j
      BY <2>1, <2>2, Place
    <3> QED
      BY <1>1, <3>1, <3>2
  <2>3. ASSUME NEW p, Owed(p)' PROVE Owed(p) /\ Item(p) \notin printed'
    BY <1>1, <1>2, <2>3 DEF Owed, Differs, Found, Superseded, Merged, Item
  <2> QED
    BY <1>1, <2>2, <2>3 DEF Path, Up, Down
<1>7. Loops' /\ Telling'
  BY <1>1 DEF Loops, Telling
<1>8. Silent'
  <2>1. ASSUME NEW s \in Leaves, Quiet(s)'
        PROVE  /\ \A x \in printed' : x[1] # s
               /\ i = s \div Fan => s % Fan \notin lv2'
    <3>1. Quiet(s)
      BY <1>1, <2>1 DEF Quiet, Differs, Superseded
    <3>2. /\ \A x \in printed : x[1] # s
          /\ i = s \div Fan => s % Fan \notin lv2
      BY <1>1, <3>1 DEF Silent
    <3>3. s # Fan * i + j
      <4>1. SUFFICES ASSUME s = Fan * i + j PROVE FALSE
        OBVIOUS
      <4>2. /\ s \div Fan \in 0..(Fan - 1) /\ s % Fan \in 0..(Fan - 1)
            /\ Fan * i + j = Fan * (s \div Fan) + (s % Fan)
        BY <4>1, LeafSplit
      <4>3. i = s \div Fan /\ j = s % Fan
        BY <1>3, <4>2, LeafUnique DEF Child
      <4> QED
        BY <1>1, <3>2, <4>3
    <3>4. \A x \in printed' : x \in printed \/ x[1] = Fan * i + j
      BY <1>2
    <3> QED
      BY <1>1, <3>2, <3>3, <3>4
  <2> QED
    BY <1>1, <2>1 DEF Silent
<1> QED
  BY <1>5, <1>6, <1>7, <1>8 DEF WalkInv

LEMMA AscendKeeps ==
  ASSUME IInv, Ascend
  PROVE  WalkInv'
<1> TypeOK /\ Synced /\ Path /\ Loops /\ Telling /\ Silent
  BY DEF IInv, WalkInv
<1>1. /\ side = 1 /\ side' = 1 /\ answer' = <<>> /\ answer = <<>>
      /\ \/ pc = "seg" /\ lv2 = {} /\ pc' = "lv2"
         \/ pc = "lv2" /\ lv1 = {} /\ pc' = "done"
      /\ UNCHANGED <<rows, snap, lv1, printed, calm>>
  BY DEF Ascend, nodes, locals, TypeOK
<1>2. \A p : Owed(p)' <=> Owed(p)
  BY <1>1 DEF Owed, Differs, Found, Superseded, Merged, Item
<1>3. \A s : Quiet(s)' <=> Quiet(s)
  BY <1>1 DEF Quiet, Differs, Superseded
<1>4. Synced'
  BY <1>1 DEF Synced
<1>5. Path'
  BY <1>1, <1>2 DEF Path, Up
<1>6. Loops' /\ Telling'
  BY <1>1 DEF Loops, Telling
<1>7. Silent'
  BY <1>1, <1>3 DEF Silent
<1> QED
  BY <1>4, <1>5, <1>6, <1>7 DEF WalkInv

-----------------------------------------------------------------------------
LEMMA IInvInit == Init => IInv
<1> SUFFICES ASSUME Init PROVE IInv
  OBVIOUS
<1>1. snap \in [Sides -> Content]
  <2>1. [p \in Pos |-> None] \in Content
    BY DEF Content, Values
  <2> QED
    BY <2>1 DEF Init
<1>2. TypeOK
  BY <1>1, ChildIs, CompareAssumption DEF Init, TypeOK, Sides
<1>3. WalkInv
  BY DEF Init, WalkInv, Synced, Path, Owed, Loops, Telling, Silent
<1> QED
  BY <1>2, <1>3 DEF IInv

LEMMA IInvStep == IInv /\ [Next]_vars => IInv'
<1> SUFFICES ASSUME IInv, [Next]_vars PROVE WalkInv'
  BY TypeStep DEF IInv
<1>1. ASSUME NEW n \in Sides, NEW p \in Pos, NEW v \in Values(p), Message(n, p, v)
      PROVE  WalkInv'
  BY <1>1, MessageKeeps
<1>2. ASSUME NEW n \in Sides, OtherUpdate(n) PROVE WalkInv'
  BY <1>2, OtherUpdateKeeps
<1>3. CASE Begin
  BY <1>3, BeginKeeps
<1>4. CASE Update
  BY <1>4, UpdateKeeps
<1>5. CASE Ask
  BY <1>5, AskKeeps
<1>6. CASE Lv0Diff
  BY <1>6, Lv0DiffKeeps
<1>7. CASE Lv1Diff
  BY <1>7, Lv1DiffKeeps
<1>8. CASE Lv2Diff
  BY <1>8, Lv2DiffKeeps
<1>9. CASE SegDiff
  BY <1>9, SegDiffKeeps
<1>10. CASE Ascend
  BY <1>10, AscendKeeps
<1>11. CASE UNCHANGED vars
  <2>1. UNCHANGED <<rows, snap, calm, pc, side, locals>>
    BY <1>11 DEF vars, nodes
  <2>2. Synced'
    BY <2>1 DEF IInv, WalkInv, Synced
  <2> QED
    BY <2>1, <2>2, Undisturbed DEF WalkInv
<1> QED
  BY <1>1, <1>2, <1>3, <1>4, <1>5, <1>6, <1>7, <1>8, <1>9, <1>10, <1>11 DEF Next

(* The inductive invariant of a comparison.                                *)
THEOREM WalkInvariant == Spec => []IInv
<1> QED
  BY IInvInit, IInvStep, PTL DEF Spec

(* diff's indexes stay those of children, its answers those of the node it *)
(* has asked.                                                              *)
THEOREM TypeCorrect == Spec => []TypeOK
<1>1. IInv => TypeOK
  BY DEF IInv
<1> QED
  BY <1>1, WalkInvariant, PTL

(* diff prints every row that differed all the time it ran (nodecmp:       *)
(* 121-132), however many rows, segments and values there are, and         *)
(* whatever messages and other clients' updates come between its commands; *)
(* unless a node on the way is superseded (hashtree.cpp:210), or a key of  *)
(* another row is the same up to its first space (nodecmp:56-57).          *)
THEOREM DiffIsComplete == Spec => []DiffComplete
<1>1. IInv => DiffComplete
  <2> SUFFICES ASSUME IInv, pc = "done", NEW p \in calm, Tab[p] = T, Differs(p),
                      Found(Seg[p]), ~Merged(p)
               PROVE  Item(p) \in printed
    BY DEF DiffComplete
  <2>1. p \in Pos /\ Path
    BY DEF IInv, TypeOK, WalkInv
  <2> QED
    BY <2>1 DEF Path, Owed
<1> QED
  BY <1>1, WalkInvariant, PTL

(* It prints nothing of a segment in which the table's rows were equal all *)
(* the time.                                                               *)
THEOREM EqualSegmentsAreSilent == Spec => []EqualSegmentsSilent
<1>1. IInv => EqualSegmentsSilent
  <2> SUFFICES ASSUME IInv, NEW s \in Leaves, Quiet(s) PROVE \A x \in printed : x[1] # s
    BY DEF EqualSegmentsSilent, Quiet
  <2> QED
    BY DEF IInv, WalkInv, Silent
<1> QED
  BY <1>1, WalkInvariant, PTL
================================================================================
