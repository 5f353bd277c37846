------------------------- MODULE MultikeyTreeProofs -------------------------
(***************************************************************************)
(* The tree of nodes, for any keys, any number of nodes and of threads.    *)
(* NodeOf is recursive, along the path.  That the recursion has exactly    *)
(* one solution is proved first, by induction on the length of a path (the *)
(* least counterexample); everything after it uses the equation only.      *)
(***************************************************************************)
EXTENDS MultikeyTree, SequenceTheorems, WellFoundedInduction, TLAPS

-----------------------------------------------------------------------------
NatLess == {p \in Nat \X Nat : p[1] < p[2]}

(* A set of numbers has a least one: the inductions below look at the      *)
(* least counterexample.                                                   *)
LEMMA Least ==
    ASSUME NEW T \in SUBSET Nat, T # {}
    PROVE  \E n \in T : \A m \in T : n <= m
<1>1. NatLess = OpToRel(<, Nat)
  BY DEF NatLess, OpToRel
<1>2. IsWellFoundedOn(NatLess, Nat)
  BY <1>1, NatLessThanWellFounded
<1>3. PICK n \in T : \A y \in T : <<y, n>> \notin NatLess
  BY WFMin, <1>2
<1>4. ASSUME NEW m \in T
      PROVE  n <= m
  <2>1. <<m, n>> \in Nat \X Nat
    OBVIOUS
  <2>. QED BY <1>3, <2>1 DEF NatLess
<1>. QED BY <1>4

-----------------------------------------------------------------------------
(* The paths: the prefixes of keys, as long as their symbols are valid.    *)
Parent(p) == SubSeq(p, 1, Len(p) - 1)

(* A key is a sequence of strings; the walk starts at its empty prefix.    *)
LEMMA KeyIsSequence ==
    ASSUME NEW k \in Keys
    PROVE  k \in Seq(STRING) /\ Len(k) \in Nat /\ SubSeq(k, 1, 0) = <<>> /\ SubSeq(k, 1, Len(k)) = k
BY TreeAssumption, SubSeqFull, SubSeqEmpty

(* What SubSeq is on the first n members.                                  *)
LEMMA Prefix ==
    ASSUME NEW S, NEW k \in Seq(S), NEW n \in 0 .. Len(k)
    PROVE  /\ SubSeq(k, 1, n) \in Seq(S) /\ Len(SubSeq(k, 1, n)) = n
           /\ DOMAIN SubSeq(k, 1, n) = 1 .. n
           /\ \A i \in 1 .. n : SubSeq(k, 1, n)[i] = k[i]
OBVIOUS

(* A prefix of a key is a path when its members are symbols, and the other *)
(* way round.                                                              *)
LEMMA PathIsPrefix ==
    ASSUME NEW k \in Keys, NEW n \in 0 .. Len(k), \A i \in 1 .. n : k[i] \in Symbols
    PROVE  SubSeq(k, 1, n) \in Paths
<1>1. \A i \in DOMAIN SubSeq(k, 1, n) : SubSeq(k, 1, n)[i] \in Symbols
  BY KeyIsSequence, Prefix
<1>2. SubSeq(k, 1, n) \in {SubSeq(k, 1, m) : m \in 0 .. Len(k)}
  OBVIOUS
<1>. QED BY <1>1, <1>2 DEF Paths

LEMMA PathOfKey ==
    ASSUME NEW p \in Paths
    PROVE  /\ p \in Seq(Symbols) /\ p \in Seq(STRING) /\ Len(p) \in Nat
           /\ \E k \in Keys : \E n \in 0 .. Len(k) : p = SubSeq(k, 1, n)
<1>1. PICK k \in Keys : \E n \in 0 .. Len(k) : p = SubSeq(k, 1, n)
  BY DEF Paths
<1>2. PICK n \in 0 .. Len(k) : p = SubSeq(k, 1, n)
  BY <1>1
<1>3. \A i \in DOMAIN p : p[i] \in Symbols
  BY DEF Paths
<1>4. p \in Seq(STRING) /\ Len(p) \in Nat /\ DOMAIN p = 1 .. Len(p)
  BY <1>2, KeyIsSequence, Prefix
<1>5. p \in Seq(Symbols)
  BY <1>3, <1>4
<1>. QED BY <1>1, <1>4, <1>5

(* The path of the root; it needs a key.                                   *)
LEMMA EmptyPath == <<>> \in Paths
<1>1. PICK k \in Keys : TRUE
  BY TreeAssumption
<1>2. SubSeq(k, 1, 0) = <<>> /\ 0 \in 0 .. Len(k) /\ 1 .. 0 = {}
  BY KeyIsSequence
<1>. QED BY <1>2, PathIsPrefix

(* The paths are closed under prefixes; the parent of a path is one        *)
(* shorter.                                                                *)
LEMMA PrefixIsPath ==
    ASSUME NEW p \in Paths, NEW m \in 0 .. Len(p)
    PROVE  SubSeq(p, 1, m) \in Paths
<1>1. PICK k \in Keys : \E n \in 0 .. Len(k) : p = SubSeq(k, 1, n)
  BY PathOfKey
<1>2. PICK n \in 0 .. Len(k) : p = SubSeq(k, 1, n)
  BY <1>1
<1>3. k \in Seq(STRING) /\ Len(p) = n /\ m \in 0 .. Len(k) /\ p \in Seq(STRING)
  BY <1>2, KeyIsSequence, Prefix
<1>4. \A i \in 1 .. m : k[i] \in Symbols
  <2>1. \A i \in 1 .. n : k[i] = p[i] /\ i \in DOMAIN p
    BY <1>2, <1>3, Prefix
  <2>2. \A i \in 1 .. m : i \in 1 .. n
    BY <1>3
  <2>. QED BY <2>1, <2>2 DEF Paths
<1>5. SubSeq(p, 1, m) = SubSeq(k, 1, m)
  BY <1>2, <1>3
<1>. QED BY <1>3, <1>4, <1>5, PathIsPrefix

LEMMA ParentIsPath ==
    ASSUME NEW p \in Paths, p # <<>>
    PROVE  /\ Parent(p) \in Paths /\ Len(p) \in Nat \ {0} /\ Len(Parent(p)) = Len(p) - 1
           /\ p[Len(p)] \in Symbols
<1>1. p \in Seq(Symbols) /\ Len(p) \in Nat \ {0}
  BY PathOfKey
<1>2. Len(p) - 1 \in 0 .. Len(p)
  BY <1>1
<1>3. Parent(p) \in Paths
  BY <1>2, PrefixIsPath DEF Parent
<1>4. Len(Parent(p)) = Len(p) - 1
  BY <1>1, <1>2, Prefix DEF Parent
<1>5. p[Len(p)] \in Symbols
  BY <1>1
<1>. QED BY <1>1, <1>3, <1>4, <1>5

(* A path is its parent and its last symbol.                               *)
LEMMA PathSplits ==
    ASSUME NEW p \in Paths, NEW q \in Paths, p # <<>>, q # <<>>,
           Parent(p) = Parent(q), p[Len(p)] = q[Len(q)]
    PROVE  p = q
<1>1. p \in Seq(Symbols) /\ q \in Seq(Symbols) /\ Len(p) \in Nat \ {0} /\ Len(p) = Len(q)
  BY PathOfKey, ParentIsPath
<1>2. ASSUME NEW i \in 1 .. Len(p)
      PROVE  p[i] = q[i]
  <2>1. CASE i = Len(p)
    BY <1>1, <2>1
  <2>2. CASE i # Len(p)
    <3>1. i \in 1 .. Len(p) - 1 /\ Len(p) - 1 \in 0 .. Len(p)
      BY <1>1, <2>2
    <3>2. Parent(p)[i] = p[i] /\ Parent(q)[i] = q[i]
      BY <1>1, <3>1, Prefix DEF Parent
    <3>. QED BY <3>2
  <2>. QED BY <2>1, <2>2
<1>. QED BY <1>1, <1>2

-----------------------------------------------------------------------------
(* The recursion of NodeOf.  C is what children_nodes_ is in some state.   *)
Node(C, f, p) == IF p = <<>> THEN Root
                 ELSE IF f[Parent(p)] = NULL THEN NULL
                 ELSE C[f[Parent(p)]][p[Len(p)]]

Solves(C, f) == f = [p \in Paths |-> Node(C, f, p)]

(* A function that satisfies the equation for paths up to the length n.    *)
Upto(C, f, n) == \A p \in Paths : Len(p) <= n => f[p] = Node(C, f, p)

(* Two functions that follow the children on the paths of length n agree   *)
(* there.                                                                  *)
LEMMA UptoAgree ==
    ASSUME NEW C, NEW f, NEW g, NEW n \in Nat, Upto(C, f, n), Upto(C, g, n)
    PROVE  \A p \in Paths : Len(p) <= n => f[p] = g[p]
<1> DEFINE Bad == {Len(p) : p \in {q \in Paths : Len(q) <= n /\ f[q] # g[q]}}
<1>1. Bad \in SUBSET Nat
  BY PathOfKey
<1>2. ASSUME Bad # {}
      PROVE  FALSE
  <2>1. PICK m \in Bad : \A x \in Bad : m <= x
    BY <1>1, <1>2, Least
  <2>2. PICK p \in Paths : m = Len(p) /\ Len(p) <= n /\ f[p] # g[p]
    BY <2>1
  <2>3. f[p] = Node(C, f, p) /\ g[p] = Node(C, g, p)
    BY <2>2 DEF Upto
  <2>4. p # <<>> /\ f[Parent(p)] # g[Parent(p)]
    BY <2>2, <2>3 DEF Node
  <2>5. Parent(p) \in Paths /\ Len(Parent(p)) = Len(p) - 1 /\ Len(p) \in Nat
    BY <2>4, ParentIsPath
  <2>6. Len(p) - 1 \in Bad
    <3>1. Len(Parent(p)) <= n
      BY <2>2, <2>5
    <3>2. Len(Parent(p)) \in Bad
      BY <2>4, <2>5, <3>1
    <3>. QED BY <2>5, <3>2
  <2>. QED BY <2>1, <2>2, <2>5, <2>6
<1>. QED BY <1>2

(* There is such a function, whatever the children are.                    *)
LEMMA UptoExists ==
    ASSUME NEW C, NEW n \in Nat
    PROVE  \E f : Upto(C, f, n)
<1> DEFINE Bad == {m \in Nat : ~ \E f : Upto(C, f, m)}
<1>1. ASSUME Bad # {}
      PROVE  FALSE
  <2>1. PICK m \in Bad : \A x \in Bad : m <= x
    BY <1>1, Least
  <2>2. m # 0
    <3>1. \A p \in Paths : Len(p) <= 0 => p = <<>>
      BY PathOfKey
    <3>2. Upto(C, [p \in Paths |-> Root], 0)
      BY <3>1 DEF Upto, Node
    <3>. QED BY <2>1, <3>2
  <2>3. m - 1 \in Nat /\ m - 1 \notin Bad
    BY <2>1, <2>2
  <2>4. PICK f : Upto(C, f, m - 1)
    BY <2>3
  <2> DEFINE g == [p \in Paths |-> Node(C, f, p)]
  <2>5. \A p \in Paths : Len(p) <= m - 1 => g[p] = f[p]
    BY <2>4 DEF Upto
  <2>6. ASSUME NEW p \in Paths, Len(p) <= m
        PROVE  g[p] = Node(C, g, p)
    <3>1. CASE p = <<>>
      BY <3>1 DEF Node
    <3>2. CASE p # <<>>
      <4>1. Parent(p) \in Paths /\ Len(Parent(p)) <= m - 1
        BY <2>1, <2>6, <3>2, ParentIsPath
      <4>2. g[Parent(p)] = f[Parent(p)]
        BY <2>5, <4>1
      <4>3. Node(C, g, p) = Node(C, f, p)
        BY <3>2, <4>2 DEF Node
      <4>. QED BY <4>3
    <3>. QED BY <3>1, <3>2
  <2>7. Upto(C, g, m)
    BY <2>6 DEF Upto
  <2>. QED BY <2>1, <2>7
<1>. QED BY <1>1

(* The equation of NodeOf has exactly one solution, for any children.      *)
LEMMA OneSolution ==
    ASSUME NEW C
    PROVE  \E f : Solves(C, f) /\ \A g : Solves(C, g) => g = f
<1> DEFINE At(n) == CHOOSE f : Upto(C, f, n)
           F == [p \in Paths |-> At(Len(p))[p]]
<1>1. \A n \in Nat : Upto(C, At(n), n)
  BY UptoExists
<1> HIDE DEF At
<1>2. ASSUME NEW p \in Paths
      PROVE  F[p] = Node(C, F, p)
  <2>1. Len(p) \in Nat
    BY PathOfKey
  <2>2. F[p] = Node(C, At(Len(p)), p)
    BY <1>1, <2>1 DEF Upto
  <2>3. CASE p = <<>>
    BY <2>2, <2>3 DEF Node
  <2>4. CASE p # <<>>
    <3>1. Parent(p) \in Paths /\ Len(Parent(p)) = Len(p) - 1 /\ Len(p) - 1 \in Nat
      BY <2>4, ParentIsPath
    <3>2. Upto(C, At(Len(p) - 1), Len(p) - 1)
      BY <1>1, <3>1
    <3>3. Upto(C, At(Len(p)), Len(p) - 1)
      <4>1. Upto(C, At(Len(p)), Len(p))
        BY <1>1, <2>1
      <4>2. \A q \in Paths : Len(q) <= Len(p) - 1 => Len(q) <= Len(p)
        BY <2>1, PathOfKey
      <4>. QED BY <4>1, <4>2 DEF Upto
    <3>4. At(Len(p))[Parent(p)] = At(Len(p) - 1)[Parent(p)]
      BY <3>1, <3>2, <3>3, UptoAgree
    <3>5. F[Parent(p)] = At(Len(p))[Parent(p)]
      BY <3>1, <3>4
    <3>. QED BY <2>2, <2>4, <3>5 DEF Node
  <2>. QED BY <2>3, <2>4
<1>3. Solves(C, F)
  BY <1>2 DEF Solves
<1>4. ASSUME NEW g, Solves(C, g)
      PROVE  g = F
  <2>1. g = [p \in Paths |-> Node(C, g, p)]
    BY <1>4 DEF Solves
  <2>2. \A p \in Paths : g[p] = Node(C, g, p)
    BY <2>1
  <2>3. ASSUME NEW p \in Paths
        PROVE  g[p] = F[p]
    <3>1. Len(p) \in Nat
      BY PathOfKey
    <3>2. Upto(C, g, Len(p)) /\ Upto(C, F, Len(p))
      BY <1>2, <2>2 DEF Upto
    <3>. QED BY <3>1, <3>2, UptoAgree
  <2>. QED BY <2>1, <2>3
<1>. QED BY <1>3, <1>4

(* The equation in a state and in the next one.                            *)
LEMMA NodeOfSolves == Solves(children_nodes_, NodeOf)
<1>1. PICK f : Solves(children_nodes_, f) /\ \A g : Solves(children_nodes_, g) => g = f
  BY OneSolution
<1>2. NodeOf = f
  BY <1>1 DEF NodeOf, Solves, Node, Parent
<1>. QED BY <1>1, <1>2

(* To know NodeOf after a step it is enough to find a solution there.      *)
LEMMA NextNodeOf ==
    ASSUME NEW G, Solves(children_nodes_', G)
    PROVE  NodeOf' = G
<1>1. PICK f : Solves(children_nodes_', f) /\ \A g : Solves(children_nodes_', g) => g = f
  BY OneSolution
<1>2. NodeOf' = f
  BY <1>1 DEF NodeOf, Solves, Node, Parent
<1>. QED BY <1>1, <1>2

(* NodeOf, without its recursion.                                          *)
LEMMA NodeOfEquation ==
    /\ NodeOf \in [Paths -> {NodeOf[p] : p \in Paths}]
    /\ NodeOf[<<>>] = Root
    /\ \A p \in Paths : p # <<>> =>
         NodeOf[p] = IF NodeOf[Parent(p)] = NULL THEN NULL
                     ELSE children_nodes_[NodeOf[Parent(p)]][p[Len(p)]]
<1>1. NodeOf = [p \in Paths |-> Node(children_nodes_, NodeOf, p)]
  BY NodeOfSolves DEF Solves
<1>2. \A p \in Paths : NodeOf[p] = Node(children_nodes_, NodeOf, p)
  BY <1>1
<1>. QED BY <1>1, <1>2, EmptyPath DEF Node

(* A step that leaves the children alone leaves the node of each path.     *)
LEMMA SameChildren ==
    ASSUME UNCHANGED children_nodes_
    PROVE  NodeOf' = NodeOf
BY NodeOfSolves, NextNodeOf

(* A key with a node has a node for each of its prefixes.                  *)
LEMMA PrefixHasNode ==
    ASSUME NEW p \in Paths, NodeOf[p] # NULL, NEW m \in 0 .. Len(p)
    PROVE  NodeOf[SubSeq(p, 1, m)] # NULL
<1> DEFINE Bad == {j \in 0 .. Len(p) : NodeOf[SubSeq(p, 1, Len(p) - j)] = NULL}
<1>1. p \in Seq(Symbols) /\ Len(p) \in Nat /\ SubSeq(p, 1, Len(p)) = p
  BY PathOfKey, SubSeqFull
<1>2. ASSUME Bad # {}
      PROVE  FALSE
  <2>0. Bad \in SUBSET Nat
    BY <1>1
  <2>1. PICK j \in Bad : \A x \in Bad : j <= x
    BY <1>2, <2>0, Least
  <2>2. j \in 1 .. Len(p)
    <3>1. Len(p) - 0 = Len(p)
      BY <1>1
    <3>2. j # 0
      BY <1>1, <2>1, <3>1
    <3>. QED BY <1>1, <2>1, <3>2
  <2> DEFINE n == Len(p) - j + 1
             q == SubSeq(p, 1, n)
  <2>3. n \in 1 .. Len(p) /\ n - 1 = Len(p) - j /\ n = Len(p) - (j - 1)
        /\ j - 1 \in 0 .. Len(p) /\ j - 1 < j
    BY <1>1, <2>2
  <2> HIDE DEF n
  <2>4. j - 1 \notin Bad
    BY <2>1, <2>3
  <2>5. NodeOf[q] # NULL
    BY <2>3, <2>4
  <2>6. q \in Paths /\ Len(q) = n /\ q # <<>>
    <3>1. n \in 0 .. Len(p)
      BY <1>1, <2>3
    <3>2. q \in Paths
      BY <3>1, PrefixIsPath
    <3>3. Len(q) = n
      BY <1>1, <3>1, Prefix
    <3>4. n # 0
      BY <1>1, <2>3
    <3>. QED BY <3>2, <3>3, <3>4
  <2>7. Parent(q) = SubSeq(p, 1, n - 1)
    BY <1>1, <2>3, <2>6 DEF Parent
  <2>8. NodeOf[Parent(q)] = NULL
    BY <2>1, <2>3, <2>7
  <2>. QED BY <2>5, <2>6, <2>8, NodeOfEquation
<1>3. Len(p) - m \in 0 .. Len(p) /\ Len(p) - (Len(p) - m) = m
  BY <1>1
<1>. QED BY <1>2, <1>3

-----------------------------------------------------------------------------
(* The walks.  A thread in a call is at the node of the symbols it has     *)
(* used; what it found at the next symbol under the mutex holds until it   *)
(* releases the mutex, and a child stays once it is there.                 *)
PathOf(t) == SubSeq(key[t], 1, depth[t])

(* The places below the test of the key (multikey_tree.h:71-77), and those *)
(* with the mutex of the node.                                             *)
Inside == {"locked", "creating", "descending"}
Holding == {"locked", "creating"}

(* A walk is at the node of the part of the key it has used, and what it   *)
(* tested under the mutex is still so when it reads the child again        *)
(* without it (multikey_tree.h:72-77): children are added and never taken  *)
(* away while somebody is in the tree.                                     *)
Walking(t) ==
    /\ key[t] \in Keys /\ depth[t] \in 0 .. Len(key[t])
    /\ \A i \in 1 .. depth[t] : key[t][i] \in Symbols
    /\ at[t] = NodeOf[PathOf(t)] /\ at[t] # NULL
    /\ pc[t] \in Inside => ~AtEnd(t) /\ Symbol(t) \in Symbols
    /\ pc[t] = "creating" => call[t] = "edit" /\ children_nodes_[at[t]][Symbol(t)] = NULL
    /\ pc[t] = "descending" => children_nodes_[at[t]][Symbol(t)] # NULL

WalkInv == \A t \in Threads : pc[t] # "idle" => Walking(t)

(* Exactly the threads in the locked section hold a mutex, that of their   *)
(* node.                                                                   *)
MutexInv ==
    \A t \in Threads, n \in Nodes :
        children_nodes_mutex_[n] = t <=> pc[t] \in Holding /\ at[t] = n

(* A path that was there when a reader began is still there.               *)
KnewInv ==
    \A t \in Threads :
        /\ pc[t] # "idle" => result[t] = "none"
        /\ pc[t] # "idle" /\ knew[t] => key[t] \in Paths /\ NodeOf[key[t]] # NULL

(* OneNodePerPath for the proof: the nodes are those of the paths, one     *)
(* each.                                                                   *)
OnePath == /\ heap = {NodeOf[p] : p \in Paths} \ {NULL}
           /\ \A p, q \in Paths : NodeOf[p] = NodeOf[q] /\ NodeOf[p] # NULL => p = q

(* The inductive invariant.                                                *)
TreeInv == TypeOK /\ OnePath /\ WalkInv /\ MutexInv /\ KnewInv /\ ReadersFind

LEMMA InitTree == Init => TreeInv /\ Map!Init
<1> SUFFICES ASSUME Init
             PROVE  TreeInv /\ Map!Init
  OBVIOUS
<1> USE TreeAssumption
<1> DEFINE G == [p \in Paths |-> IF p = <<>> THEN Root ELSE NULL]
<1>1. TypeOK
  BY DEF Init, TypeOK, NoChildren
<1>2. \A p \in Paths : NodeOf[p] = G[p]
  <2>1. ASSUME NEW p \in Paths
        PROVE  G[p] = Node(children_nodes_, G, p)
    <3>1. CASE p = <<>>
      BY <3>1 DEF Node
    <3>2. CASE p # <<>>
      <4>1. Parent(p) \in Paths /\ p[Len(p)] \in Symbols
        BY <3>2, ParentIsPath
      <4>2. children_nodes_[Root][p[Len(p)]] = NULL
        BY <4>1 DEF Init, NoChildren
      <4>. QED BY <3>2, <4>1, <4>2 DEF Node
    <3>. QED BY <3>1, <3>2
  <2>2. Solves(children_nodes_, G)
    BY <2>1 DEF Solves
  <2>. QED BY <2>2, NodeOfSolves, OneSolution
<1>3. OnePath
  BY <1>2, EmptyPath DEF Init, OnePath
<1>4. WalkInv /\ MutexInv /\ KnewInv /\ ReadersFind
  BY DEF Init, WalkInv, MutexInv, KnewInv, ReadersFind, Holding
<1>5. Map!Init
  <2>1. {p \in Paths : NodeOf[p] # NULL} = {<<>>}
    BY <1>2, EmptyPath
  <2>2. \A p \in Paths : NodeOf[p] # NULL => node_data_[NodeOf[p]] = 0
    BY <1>2 DEF Init
  <2>. QED BY <2>1, <2>2 DEF Map!Init
<1>. QED BY <1>1, <1>3, <1>4, <1>5 DEF TreeInv

-----------------------------------------------------------------------------
(* What a walk knows of the path it is on.                                 *)
LEMMA WalkFacts ==
    ASSUME TreeInv, NEW t \in Threads, pc[t] # "idle"
    PROVE  /\ PathOf(t) \in Paths /\ Len(PathOf(t)) = depth[t]
           /\ at[t] = NodeOf[PathOf(t)] /\ at[t] \in heap
           /\ AtEnd(t) => PathOf(t) = key[t]
<1>1. /\ key[t] \in Keys /\ depth[t] \in 0 .. Len(key[t]) /\ at[t] = NodeOf[PathOf(t)] /\ at[t] # NULL
      /\ \A i \in 1 .. depth[t] : key[t][i] \in Symbols
  BY DEF TreeInv, WalkInv, Walking
<1>2. PathOf(t) \in Paths
  BY <1>1, PathIsPrefix DEF PathOf
<1>3. key[t] \in Seq(STRING) /\ SubSeq(key[t], 1, Len(key[t])) = key[t]
  BY <1>1, KeyIsSequence
<1>4. Len(PathOf(t)) = depth[t]
  BY <1>1, <1>3, Prefix DEF PathOf
<1>5. AtEnd(t) => PathOf(t) = key[t]
  BY <1>3 DEF AtEnd, PathOf
<1>. QED BY <1>1, <1>2, <1>4, <1>5 DEF TreeInv, OnePath

(* The path with the next symbol.                                          *)
NextPath(t) == SubSeq(key[t], 1, depth[t] + 1)

(* The path a walk is about to follow, its parent, and its node.           *)
LEMMA NextPathFacts ==
    ASSUME TreeInv, NEW t \in Threads, pc[t] \in Inside
    PROVE  /\ NextPath(t) \in Paths /\ NextPath(t) # <<>>
           /\ Parent(NextPath(t)) = PathOf(t)
           /\ NextPath(t)[Len(NextPath(t))] = Symbol(t) /\ Symbol(t) \in Symbols
           /\ NodeOf[NextPath(t)] = children_nodes_[at[t]][Symbol(t)]
           /\ depth[t] + 1 \in 0 .. Len(key[t])
           /\ \A i \in 1 .. depth[t] + 1 : key[t][i] \in Symbols
<1>1. /\ key[t] \in Keys /\ depth[t] \in 0 .. Len(key[t]) /\ at[t] = NodeOf[PathOf(t)] /\ at[t] # NULL
      /\ \A i \in 1 .. depth[t] : key[t][i] \in Symbols
      /\ depth[t] # Len(key[t]) /\ key[t][depth[t] + 1] \in Symbols
  BY DEF TreeInv, WalkInv, Walking, Inside, AtEnd, Symbol
<1>2. key[t] \in Seq(STRING) /\ Len(key[t]) \in Nat
  BY <1>1, KeyIsSequence
<1>3. /\ depth[t] + 1 \in 0 .. Len(key[t]) /\ depth[t] + 1 - 1 = depth[t] /\ depth[t] + 1 # 0
      /\ depth[t] + 1 \in 1 .. depth[t] + 1
      /\ \A i \in 1 .. depth[t] + 1 : i \in 1 .. depth[t] \/ i = depth[t] + 1
  BY <1>1, <1>2
<1>4. \A i \in 1 .. depth[t] + 1 : key[t][i] \in Symbols
  BY <1>1, <1>3
<1>5. NextPath(t) \in Paths
  BY <1>1, <1>3, <1>4, PathIsPrefix DEF NextPath
<1>6. /\ Len(NextPath(t)) = depth[t] + 1
      /\ \A i \in 1 .. depth[t] + 1 : NextPath(t)[i] = key[t][i]
  BY <1>2, <1>3, Prefix DEF NextPath
<1>7. NextPath(t) # <<>>
  BY <1>3, <1>6
<1>8. Parent(NextPath(t)) = PathOf(t)
  BY <1>1, <1>2, <1>3, <1>6 DEF Parent, NextPath, PathOf
<1>9. NextPath(t)[Len(NextPath(t))] = Symbol(t)
  BY <1>3, <1>6 DEF Symbol
<1>10. NodeOf[NextPath(t)] = children_nodes_[at[t]][Symbol(t)]
  BY <1>1, <1>5, <1>7, <1>8, <1>9, NodeOfEquation
<1>. QED BY <1>1, <1>3, <1>4, <1>5, <1>7, <1>8, <1>9, <1>10 DEF Symbol

(* A node more: the next path has it, and all the other paths what they    *)
(* had.  None of them goes through the new node.                           *)
LEMMA CreatedPaths ==
    ASSUME TreeInv, NEW t \in Threads, pc[t] = "creating", NEW n \in Nodes \ heap,
           children_nodes_' = [children_nodes_ EXCEPT ![n] = NoChildren, ![at[t]][Symbol(t)] = n]
    PROVE  /\ \A q \in Paths : NodeOf'[q] = IF q = NextPath(t) THEN n ELSE NodeOf[q]
           /\ NodeOf[NextPath(t)] = NULL
<1> USE TreeAssumption
<1> DEFINE p == NextPath(t)
           G == [q \in Paths |-> IF q = p THEN n ELSE NodeOf[q]]
<1>1. /\ p \in Paths /\ p # <<>> /\ Parent(p) = PathOf(t) /\ p[Len(p)] = Symbol(t)
      /\ Symbol(t) \in Symbols /\ NodeOf[p] = children_nodes_[at[t]][Symbol(t)]
  BY NextPathFacts DEF Inside
<1>2. PathOf(t) \in Paths /\ at[t] = NodeOf[PathOf(t)] /\ at[t] \in heap
  BY WalkFacts
<1>3. NodeOf[p] = NULL
  BY <1>1 DEF TreeInv, WalkInv, Walking
<1>4. children_nodes_ \in [Nodes -> [Symbols -> Nodes \cup {NULL}]] /\ heap \in SUBSET Nodes
  BY DEF TreeInv, TypeOK
<1>5. at[t] # n /\ n # NULL
  BY <1>2
<1>6. /\ \A s \in Symbols : children_nodes_'[n][s] = NULL
      /\ \A m \in Nodes \ {n} : \A s \in Symbols :
           children_nodes_'[m][s] = IF m = at[t] /\ s = Symbol(t) THEN n ELSE children_nodes_[m][s]
  BY <1>1, <1>2, <1>4, <1>5 DEF NoChildren
<1>7. PathOf(t) # p
  <2>1. Len(p) # Len(PathOf(t))
    BY <1>1, ParentIsPath
  <2>. QED BY <2>1
<1> HIDE DEF p
<1>8. ASSUME NEW q \in Paths
      PROVE  G[q] = Node(children_nodes_', G, q)
  <2>1. CASE q = <<>>
    BY <1>1, <2>1, NodeOfEquation DEF Node
  <2>2. CASE q = p
    <3>1. G[Parent(q)] = at[t]
      BY <1>1, <1>2, <1>7, <2>2
    <3>2. children_nodes_'[at[t]][Symbol(t)] = n
      BY <1>1, <1>2, <1>4, <1>5, <1>6
    <3>. QED BY <1>1, <1>2, <1>4, <2>2, <3>1, <3>2 DEF Node
  <2>3. CASE q # <<>> /\ q # p
    <3>1. /\ Parent(q) \in Paths /\ q[Len(q)] \in Symbols
          /\ G[q] = IF NodeOf[Parent(q)] = NULL THEN NULL
                    ELSE children_nodes_[NodeOf[Parent(q)]][q[Len(q)]]
      BY <2>3, ParentIsPath, NodeOfEquation
    <3>2. CASE Parent(q) = p
      <4>1. G[q] = NULL
        BY <1>3, <3>1, <3>2
      <4>2. G[Parent(q)] = n /\ children_nodes_'[n][q[Len(q)]] = NULL
        BY <1>6, <3>1, <3>2
      <4>. QED BY <2>3, <4>1, <4>2, <1>5 DEF Node
    <3>3. CASE Parent(q) # p /\ NodeOf[Parent(q)] = NULL
      BY <2>3, <3>1, <3>3 DEF Node
    <3>4. CASE Parent(q) # p /\ NodeOf[Parent(q)] # NULL
      <4> DEFINE m == NodeOf[Parent(q)]
      <4>1. m \in heap /\ m \in Nodes \ {n} /\ G[Parent(q)] = m
        BY <1>4, <3>1, <3>4 DEF TreeInv, OnePath
      <4>2. ~(m = at[t] /\ q[Len(q)] = Symbol(t))
        <5>1. ASSUME m = at[t], q[Len(q)] = Symbol(t)
              PROVE  FALSE
          <6>1. Parent(q) = PathOf(t)
            BY <1>2, <3>1, <3>4, <5>1 DEF TreeInv, OnePath
          <6>. QED BY <1>1, <2>3, <5>1, <6>1, PathSplits
        <5>. QED BY <5>1
      <4>3. G[q] = children_nodes_[m][q[Len(q)]]
        BY <3>1, <3>4
      <4>4. m # NULL
        BY <3>4
      <4> HIDE DEF m, G
      <4>5. children_nodes_'[m][q[Len(q)]] = children_nodes_[m][q[Len(q)]]
        <5>1. m \in Nodes \ {n} /\ q[Len(q)] \in Symbols
          BY <3>1, <4>1
        <5>2. children_nodes_'[m][q[Len(q)]] =
                IF m = at[t] /\ q[Len(q)] = Symbol(t) THEN n ELSE children_nodes_[m][q[Len(q)]]
          BY ONLY <1>6, <5>1, Zenon
        <5>. QED BY <4>2, <5>2
      <4>. QED BY <2>3, <4>1, <4>3, <4>4, <4>5 DEF Node
    <3>. QED BY <3>2, <3>3, <3>4
  <2>. QED BY <2>1, <2>2, <2>3
<1>9. NodeOf' = G
  BY <1>8, NextNodeOf DEF Solves
<1>. QED BY <1>3, <1>9 DEF p

(* Without children of the root there is the root only.                    *)
LEMMA ClearedPaths ==
    ASSUME TreeInv, children_nodes_' = [children_nodes_ EXCEPT ![Root] = NoChildren]
    PROVE  \A q \in Paths : NodeOf'[q] = IF q = <<>> THEN Root ELSE NULL
<1> USE TreeAssumption
<1> DEFINE G == [q \in Paths |-> IF q = <<>> THEN Root ELSE NULL]
<1>1. \A s \in Symbols : children_nodes_'[Root][s] = NULL
  BY DEF TreeInv, TypeOK, NoChildren
<1>2. ASSUME NEW q \in Paths
      PROVE  G[q] = Node(children_nodes_', G, q)
  <2>1. CASE q = <<>>
    BY <2>1 DEF Node
  <2>2. CASE q # <<>>
    <3>1. Parent(q) \in Paths /\ q[Len(q)] \in Symbols
      BY <2>2, ParentIsPath
    <3>. QED BY <1>1, <2>2, <3>1 DEF Node
  <2>. QED BY <2>1, <2>2
<1>3. NodeOf' = G
  BY <1>2, NextNodeOf DEF Solves
<1>. QED BY <1>3

-----------------------------------------------------------------------------
(* The steps.                                                              *)
LEMMA StepKeepsType ==
    ASSUME TreeInv, [Next]_vars
    PROVE  TypeOK'
<1> USE TreeAssumption DEF TreeInv, TypeOK, Goto, Release, End, tree, walk
<1>1. ASSUME NEW t \in Threads, NEW k \in Keys, NEW c \in {"edit", "read"}, Call(t, c, k)
      PROVE  TypeOK'
  <2>1. calls' \in [Threads -> 0 .. MaxCalls]
    BY <1>1 DEF Call
  <2>2. knew' \in [Threads -> BOOLEAN]
    BY <1>1, Zenon DEF Call
  <2>. QED BY <1>1, <2>1, <2>2 DEF Call
<1>2. ASSUME NEW t \in Threads, Reject(t) \/ Lock(t) \/ Found(t)
      PROVE  TypeOK'
  <2>1. CASE Reject(t)
    BY <2>1 DEF Reject
  <2>2. CASE Lock(t)
    BY <2>2 DEF Lock
  <2>3. CASE Found(t)
    BY <2>3 DEF Found
  <2>. QED BY <1>2, <2>1, <2>2, <2>3
<1>3. ASSUME NEW t \in Threads, Missing(t)
      PROVE  TypeOK'
  BY <1>3 DEF Missing
<1>4. ASSUME NEW t \in Threads, Create(t)
      PROVE  TypeOK'
  <2>1. PICK n \in Nodes \ heap :
            /\ heap' = heap \cup {n}
            /\ children_nodes_' = [children_nodes_ EXCEPT ![n] = NoChildren, ![at[t]][Symbol(t)] = n]
            /\ node_data_' = [node_data_ EXCEPT ![n] = 0]
    BY <1>4 DEF Create
  <2>2. children_nodes_' \in [Nodes -> [Symbols -> Nodes \cup {NULL}]]
    BY <2>1 DEF NoChildren
  <2>. QED BY <1>4, <2>1, <2>2 DEF Create
<1>5. ASSUME NEW t \in Threads, Descend(t)
      PROVE  TypeOK'
  <2>1. children_nodes_[at[t]][Symbol(t)] \in Nodes
    BY <1>5 DEF Descend, WalkInv, Walking, Inside
  <2>. QED BY <1>5, <2>1 DEF Descend
<1>6. ASSUME NEW t \in Threads, Use(t)
      PROVE  TypeOK'
  BY <1>6 DEF Use
<1>7. ASSUME NEW t \in Threads, Clear(t)
      PROVE  TypeOK'
  <2>1. calls' \in [Threads -> 0 .. MaxCalls]
    BY <1>7 DEF Clear
  <2>2. children_nodes_' \in [Nodes -> [Symbols -> Nodes \cup {NULL}]]
    BY <1>7 DEF Clear, NoChildren
  <2>. QED BY <1>7, <2>1, <2>2 DEF Clear
<1>8. CASE UNCHANGED vars
  BY <1>8 DEF vars
<1>. QED BY ONLY <1>1, <1>2, <1>3, <1>4, <1>5, <1>6, <1>7, <1>8, [Next]_vars DEF Next

(* What a step does to the paths: nothing, one more, or back to the root.  *)
LEMMA PathSteps ==
    ASSUME TreeInv, [Next]_vars
    PROVE  \/ UNCHANGED <<children_nodes_, heap, NodeOf>>
           \/ \E t \in Threads : Create(t)
           \/ \E t \in Threads : Clear(t)
<1>1. \/ UNCHANGED <<children_nodes_, heap>>
      \/ \E t \in Threads : Create(t) \/ Clear(t)
  BY DEF Next, Call, Reject, Lock, Found, Missing, Descend, Use, vars, tree
<1>. QED BY <1>1, SameChildren

(* A creation adds a node at one path that had none                        *)
(* (multikey_tree.h:74-75).                                                *)
LEMMA CreateSteps ==
    ASSUME TreeInv, NEW t \in Threads, Create(t)
    PROVE  \E n \in Nodes \ heap :
             /\ n # NULL /\ heap' = heap \cup {n}
             /\ children_nodes_' = [children_nodes_ EXCEPT ![n] = NoChildren, ![at[t]][Symbol(t)] = n]
             /\ node_data_' = [node_data_ EXCEPT ![n] = 0]
             /\ \A q \in Paths : NodeOf'[q] = IF q = NextPath(t) THEN n ELSE NodeOf[q]
             /\ NodeOf[NextPath(t)] = NULL /\ NextPath(t) \in Paths /\ pc[t] = "creating"
             /\ \A q \in Paths : NodeOf[q] # n
<1>1. PICK n \in Nodes \ heap :
          /\ heap' = heap \cup {n}
          /\ children_nodes_' = [children_nodes_ EXCEPT ![n] = NoChildren, ![at[t]][Symbol(t)] = n]
          /\ node_data_' = [node_data_ EXCEPT ![n] = 0]
  BY DEF Create
<1>2. pc[t] = "creating" /\ n # NULL
  BY TreeAssumption DEF Create
<1>3. /\ \A q \in Paths : NodeOf'[q] = IF q = NextPath(t) THEN n ELSE NodeOf[q]
      /\ NodeOf[NextPath(t)] = NULL
  BY <1>1, <1>2, CreatedPaths
<1>4. NextPath(t) \in Paths
  BY <1>2, NextPathFacts DEF Inside
<1>5. \A q \in Paths : NodeOf[q] # n
  BY <1>2 DEF TreeInv, OnePath
<1>. QED BY <1>1, <1>2, <1>3, <1>4, <1>5

(* Every step keeps each part.                                             *)
LEMMA StepKeepsPaths ==
    ASSUME TreeInv, [Next]_vars
    PROVE  OnePath'
<1>1. CASE UNCHANGED <<heap, NodeOf>>
  BY <1>1 DEF TreeInv, OnePath
<1>2. ASSUME NEW t \in Threads, Create(t)
      PROVE  OnePath'
  <2>1. PICK n \in Nodes \ heap :
             /\ n # NULL /\ heap' = heap \cup {n}
             /\ \A q \in Paths : NodeOf'[q] = IF q = NextPath(t) THEN n ELSE NodeOf[q]
             /\ NodeOf[NextPath(t)] = NULL /\ NextPath(t) \in Paths
             /\ \A q \in Paths : NodeOf[q] # n
    BY <1>2, CreateSteps
  <2>2. heap' = {NodeOf'[p] : p \in Paths} \ {NULL}
    <3>1. {NodeOf'[p] : p \in Paths} \ {NULL} = ({NodeOf[p] : p \in Paths} \ {NULL}) \cup {n}
      BY <2>1
    <3>. QED BY <2>1, <3>1 DEF TreeInv, OnePath
  <2>3. \A p, q \in Paths : NodeOf'[p] = NodeOf'[q] /\ NodeOf'[p] # NULL => p = q
    BY <2>1 DEF TreeInv, OnePath
  <2>. QED BY <2>2, <2>3 DEF OnePath
<1>3. ASSUME NEW t \in Threads, Clear(t)
      PROVE  OnePath'
  <2>1. \A q \in Paths : NodeOf'[q] = IF q = <<>> THEN Root ELSE NULL
    BY <1>3, ClearedPaths DEF Clear
  <2>2. heap' = {Root}
    BY <1>3 DEF Clear
  <2>. QED BY <2>1, <2>2, EmptyPath, TreeAssumption DEF OnePath
<1>. QED BY <1>1, <1>2, <1>3, PathSteps

(* A walk goes on as before when the node it is at, and the child it has   *)
(* found there or not, are what they were.                                 *)
LEMMA WalkStays ==
    ASSUME TreeInv, NEW x \in Threads, pc[x] # "idle",
           pc'[x] = pc[x], call'[x] = call[x], key'[x] = key[x], at'[x] = at[x], depth'[x] = depth[x],
           NodeOf'[PathOf(x)] = NodeOf[PathOf(x)],
           pc[x] = "creating" =>
               children_nodes_'[at[x]][Symbol(x)] = children_nodes_[at[x]][Symbol(x)],
           pc[x] = "descending" =>
               \/ children_nodes_'[at[x]][Symbol(x)] = children_nodes_[at[x]][Symbol(x)]
               \/ children_nodes_'[at[x]][Symbol(x)] # NULL
    PROVE  Walking(x)'
<1>1. Walking(x)
  BY DEF TreeInv, WalkInv
<1>2. PathOf(x)' = PathOf(x) /\ Symbol(x)' = Symbol(x) /\ AtEnd(x)' = AtEnd(x)
  BY DEF PathOf, Symbol, AtEnd
<1>. QED BY <1>1, <1>2 DEF Walking

LEMMA StepKeepsWalk ==
    ASSUME TreeInv, [Next]_vars
    PROVE  WalkInv'
<1> USE TreeAssumption DEF Goto, Release, End, tree, walk
<1>0. TypeOK /\ WalkInv
  BY DEF TreeInv
<1>1. ASSUME UNCHANGED <<children_nodes_>>, NEW x \in Threads, pc[x] # "idle",
             pc'[x] = pc[x], call'[x] = call[x], key'[x] = key[x], at'[x] = at[x], depth'[x] = depth[x]
      PROVE  Walking(x)'
  <2>1. NodeOf' = NodeOf
    BY <1>1, SameChildren
  <2>. QED BY <1>1, <2>1, WalkStays
<1>2. ASSUME UNCHANGED <<children_nodes_>>, NEW t \in Threads, pc'[t] # "idle" => Walking(t)',
             \A x \in Threads \ {t} : /\ pc'[x] = pc[x] /\ call'[x] = call[x] /\ key'[x] = key[x]
                                      /\ at'[x] = at[x] /\ depth'[x] = depth[x]
      PROVE  WalkInv'
  BY <1>1, <1>2 DEF WalkInv
<1>3. ASSUME NEW t \in Threads, NEW k \in Keys, NEW c \in {"edit", "read"}, Call(t, c, k)
      PROVE  WalkInv'
  <2>1. /\ pc'[t] = "walking" /\ key'[t] = k /\ at'[t] = Root /\ depth'[t] = 0
        /\ UNCHANGED children_nodes_
        /\ \A x \in Threads \ {t} : /\ pc'[x] = pc[x] /\ call'[x] = call[x] /\ key'[x] = key[x]
                                    /\ at'[x] = at[x] /\ depth'[x] = depth[x]
    BY <1>0, <1>3 DEF Call, TypeOK
  <2>2. PathOf(t)' = <<>> /\ Len(k) \in Nat
    BY <2>1, KeyIsSequence DEF PathOf
  <2>3. NodeOf'[<<>>] = Root
    BY <2>1, SameChildren, NodeOfEquation
  <2>4. Walking(t)'
    BY <2>1, <2>2, <2>3 DEF Walking, Inside
  <2>. QED BY <1>2, <2>1, <2>4
<1>4. ASSUME NEW t \in Threads, Reject(t) \/ Lock(t) \/ Found(t) \/ Missing(t) \/ Use(t)
      PROVE  WalkInv'
  <2>1. /\ UNCHANGED <<children_nodes_, call, key, at, depth>> /\ pc[t] # "idle"
        /\ \A x \in Threads \ {t} : pc'[x] = pc[x]
    BY <1>0, <1>4 DEF Reject, Lock, Found, Missing, Use, TypeOK
  <2>2. pc'[t] # "idle" => Walking(t)'
    <3>1. Walking(t)
      BY <1>0, <2>1 DEF WalkInv
    <3>2. NodeOf' = NodeOf
      BY <2>1, SameChildren
    <3>3. PathOf(t)' = PathOf(t) /\ Symbol(t)' = Symbol(t) /\ AtEnd(t)' = AtEnd(t)
      BY <2>1 DEF PathOf, Symbol, AtEnd
    <3>4. pc'[t] # "idle" =>
            /\ pc'[t] \in Inside => ~AtEnd(t) /\ Symbol(t) \in Symbols
            /\ pc'[t] = "creating" => call[t] = "edit" /\ children_nodes_[at[t]][Symbol(t)] = NULL
            /\ pc'[t] = "descending" => children_nodes_[at[t]][Symbol(t)] # NULL
      BY <1>0, <1>4, <3>1 DEF Reject, Lock, Found, Missing, Use, TypeOK, Walking, Inside
    <3>. QED BY <2>1, <3>1, <3>2, <3>3, <3>4 DEF Walking
  <2>. QED BY <1>2, <2>1, <2>2
<1>5. ASSUME NEW t \in Threads, Descend(t)
      PROVE  WalkInv'
  <2>1. /\ UNCHANGED <<children_nodes_, call, key>> /\ pc[t] = "descending" /\ pc'[t] = "walking"
        /\ at'[t] = children_nodes_[at[t]][Symbol(t)] /\ depth'[t] = depth[t] + 1
        /\ \A x \in Threads \ {t} : pc'[x] = pc[x] /\ at'[x] = at[x] /\ depth'[x] = depth[x]
    BY <1>0, <1>5 DEF Descend, TypeOK
  <2>2. Walking(t)
    BY <1>0, <2>1 DEF WalkInv
  <2>3. NodeOf' = NodeOf
    BY <2>1, SameChildren
  <2>4. /\ PathOf(t)' = NextPath(t)
        /\ NodeOf[NextPath(t)] = at'[t] /\ at'[t] # NULL
        /\ depth'[t] \in 0 .. Len(key[t])
        /\ \A i \in 1 .. depth'[t] : key[t][i] \in Symbols
    BY <2>1, <2>2, NextPathFacts DEF PathOf, NextPath, Walking, Inside
  <2>5. Walking(t)'
    BY <2>1, <2>2, <2>3, <2>4 DEF Walking, Inside
  <2>. QED BY <1>2, <2>1, <2>5
<1>6. ASSUME NEW t \in Threads, Create(t)
      PROVE  WalkInv'
  <2>1. PICK n \in Nodes \ heap :
             /\ n # NULL
             /\ children_nodes_' = [children_nodes_ EXCEPT ![n] = NoChildren, ![at[t]][Symbol(t)] = n]
             /\ \A q \in Paths : NodeOf'[q] = IF q = NextPath(t) THEN n ELSE NodeOf[q]
             /\ NodeOf[NextPath(t)] = NULL /\ NextPath(t) \in Paths /\ pc[t] = "creating"
    BY <1>6, CreateSteps
  <2>2. /\ UNCHANGED <<call, key, at, depth>> /\ pc'[t] = "descending"
        /\ \A x \in Threads \ {t} : pc'[x] = pc[x]
    BY <1>0, <1>6 DEF Create, TypeOK
  <2>3. ASSUME NEW x \in Threads, pc[x] # "idle"
        PROVE  /\ at[x] \in heap /\ at[x] # n /\ at[x] # NULL
               /\ NodeOf'[PathOf(x)] = NodeOf[PathOf(x)] /\ Walking(x)
    <3>1. PathOf(x) \in Paths /\ at[x] = NodeOf[PathOf(x)] /\ at[x] \in heap
      BY <2>3, WalkFacts
    <3>2. at[x] # NULL /\ Walking(x)
      BY <1>0, <2>3 DEF WalkInv, Walking
    <3>. QED BY <2>1, <3>1, <3>2
  <2>4. /\ at[t] \in heap /\ at[t] # n /\ Symbol(t) \in Symbols /\ at[t] \in Nodes
        /\ children_nodes_'[at[t]][Symbol(t)] = n
    BY <1>0, <2>1, <2>3 DEF Walking, Inside, TypeOK
  <2>5. ASSUME NEW m \in Nodes, m # n, NEW s \in Symbols, ~(m = at[t] /\ s = Symbol(t))
        PROVE  children_nodes_'[m][s] = children_nodes_[m][s]
    BY <1>0, <2>1, <2>4, <2>5 DEF TypeOK
  <2>6. ASSUME NEW x \in Threads \ {t}, pc[x] # "idle"
        PROVE  Walking(x)'
    <3>1. at[x] \in Nodes /\ at[x] # n /\ NodeOf'[PathOf(x)] = NodeOf[PathOf(x)] /\ Walking(x)
      BY <1>0, <2>3, <2>6 DEF TypeOK
    <3>2. pc[x] = "creating" => at[x] # at[t]
      BY <2>1, <2>6, <3>1 DEF TreeInv, MutexInv, Holding
    <3>3. pc[x] = "creating" =>
            children_nodes_'[at[x]][Symbol(x)] = children_nodes_[at[x]][Symbol(x)]
      BY <2>5, <3>1, <3>2 DEF Walking, Inside
    <3>4. pc[x] = "descending" =>
             \/ children_nodes_'[at[x]][Symbol(x)] = children_nodes_[at[x]][Symbol(x)]
             \/ children_nodes_'[at[x]][Symbol(x)] # NULL
      <4>1. CASE at[x] = at[t] /\ Symbol(x) = Symbol(t)
        BY <2>1, <2>4, <4>1
      <4>2. CASE ~(at[x] = at[t] /\ Symbol(x) = Symbol(t))
        BY <2>5, <3>1, <4>2 DEF Walking, Inside
      <4>. QED BY <4>1, <4>2
    <3>. QED BY <2>2, <2>6, <3>1, <3>3, <3>4, WalkStays
  <2>7. Walking(t)'
    <3>1. Walking(t) /\ NodeOf'[PathOf(t)] = NodeOf[PathOf(t)]
      BY <2>1, <2>3
    <3>2. PathOf(t)' = PathOf(t) /\ Symbol(t)' = Symbol(t) /\ AtEnd(t)' = AtEnd(t)
      BY <2>2 DEF PathOf, Symbol, AtEnd
    <3>. QED BY <2>1, <2>2, <2>4, <3>1, <3>2 DEF Walking, Inside
  <2>. QED BY <2>2, <2>6, <2>7 DEF WalkInv
<1>7. ASSUME NEW t \in Threads, Clear(t)
      PROVE  WalkInv'
  BY <1>7 DEF Clear, WalkInv
<1>8. CASE UNCHANGED vars
  BY <1>1, <1>8 DEF vars, WalkInv
<1>. QED BY ONLY <1>3, <1>4, <1>5, <1>6, <1>7, <1>8, [Next]_vars DEF Next

LEMMA StepKeepsMutex ==
    ASSUME TreeInv, [Next]_vars
    PROVE  MutexInv'
<1> USE TreeAssumption DEF Goto, Release, End, tree, walk, Holding
<1>0. TypeOK /\ MutexInv
  BY DEF TreeInv
<1>1. ASSUME NEW t \in Threads, NEW k \in Keys, NEW c \in {"edit", "read"}, Call(t, c, k)
      PROVE  MutexInv'
  BY <1>0, <1>1 DEF Call, TypeOK, MutexInv
<1>2. ASSUME NEW t \in Threads, Reject(t) \/ Use(t) \/ Descend(t)
      PROVE  MutexInv'
  <2>1. /\ UNCHANGED children_nodes_mutex_
        /\ pc[t] \notin Holding /\ pc'[t] \notin Holding
        /\ \A x \in Threads \ {t} : pc'[x] = pc[x] /\ at'[x] = at[x]
    BY <1>0, <1>2 DEF Reject, Use, Descend, TypeOK
  <2>. QED BY <1>0, <2>1 DEF MutexInv
<1>3. ASSUME NEW t \in Threads, Lock(t)
      PROVE  MutexInv'
  BY <1>0, <1>3 DEF Lock, TypeOK, MutexInv
<1>4. ASSUME NEW t \in Threads, pc[t] \in Holding, pc'[t] \notin Holding,
             UNCHANGED at, \A x \in Threads \ {t} : pc'[x] = pc[x], Release(t)
      PROVE  MutexInv'
  BY <1>0, <1>4 DEF TypeOK, MutexInv
<1>5. ASSUME NEW t \in Threads, Found(t) \/ Create(t)
      PROVE  MutexInv'
  <2>1. /\ pc[t] \in Holding /\ pc'[t] \notin Holding /\ UNCHANGED at /\ Release(t)
        /\ \A x \in Threads \ {t} : pc'[x] = pc[x]
    BY <1>0, <1>5 DEF Found, Create, TypeOK
  <2>. QED BY <1>4, <2>1
<1>6. ASSUME NEW t \in Threads, Missing(t)
      PROVE  MutexInv'
  <2>1. CASE call[t] = "read"
    <3>1. /\ pc[t] \in Holding /\ pc'[t] \notin Holding /\ UNCHANGED at /\ Release(t)
          /\ \A x \in Threads \ {t} : pc'[x] = pc[x]
      BY <1>0, <1>6, <2>1 DEF Missing, TypeOK
    <3>. QED BY <1>4, <3>1
  <2>2. CASE call[t] # "read"
    <3>1. /\ UNCHANGED <<children_nodes_mutex_, at>> /\ pc[t] \in Holding /\ pc'[t] \in Holding
          /\ \A x \in Threads \ {t} : pc'[x] = pc[x]
      BY <1>0, <1>6, <2>2 DEF Missing, TypeOK
    <3>. QED BY <1>0, <3>1 DEF MutexInv
  <2>. QED BY <2>1, <2>2
<1>7. ASSUME UNCHANGED <<children_nodes_mutex_, pc, at>>
      PROVE  MutexInv'
  BY <1>0, <1>7 DEF MutexInv
<1>8. ASSUME NEW t \in Threads, Clear(t)
      PROVE  MutexInv'
  BY <1>7, <1>8 DEF Clear
<1>9. CASE UNCHANGED vars
  BY <1>7, <1>9 DEF vars
<1>. QED BY ONLY <1>1, <1>2, <1>3, <1>5, <1>6, <1>8, <1>9, [Next]_vars DEF Next

(* A walk that misses a child is not one whose key had its node.           *)
LEMMA MissingWasUnknown ==
    ASSUME TreeInv, NEW t \in Threads, Missing(t)
    PROVE  ~knew[t]
<1>1. pc[t] = "locked" /\ children_nodes_[at[t]][Symbol(t)] = NULL
  BY DEF Missing
<1>2. NodeOf[NextPath(t)] = NULL /\ depth[t] + 1 \in 0 .. Len(key[t])
  BY <1>1, NextPathFacts DEF Inside
<1>3. ASSUME knew[t]
      PROVE  FALSE
  <2>1. key[t] \in Paths /\ NodeOf[key[t]] # NULL
    BY <1>1, <1>3 DEF TreeInv, KnewInv
  <2>. QED BY <1>2, <2>1, PrefixHasNode DEF NextPath
<1>. QED BY <1>3

LEMMA StepKeepsKnew ==
    ASSUME TreeInv, [Next]_vars
    PROVE  KnewInv' /\ ReadersFind'
<1> USE DEF Goto, End, tree, walk
<1>0. TypeOK /\ KnewInv /\ ReadersFind
  BY DEF TreeInv
<1>1. ASSUME NEW t \in Threads, NEW k \in Keys, NEW c \in {"edit", "read"}, Call(t, c, k)
      PROVE  KnewInv' /\ ReadersFind'
  <2>1. /\ UNCHANGED children_nodes_ /\ result'[t] = "none" /\ key'[t] = k
        /\ \A x \in Threads \ {t} : pc'[x] = pc[x] /\ result'[x] = result[x] /\ key'[x] = key[x]
    BY <1>0, <1>1 DEF Call, TypeOK
  <2>2. /\ knew'[t] <=> k \in Paths /\ NodeOf[k] # NULL
        /\ \A x \in Threads \ {t} : knew'[x] = knew[x]
    BY <1>0, <1>1, Zenon DEF Call, TypeOK
  <2>3. NodeOf' = NodeOf
    BY <2>1, SameChildren
  <2>. QED BY <1>0, <2>1, <2>2, <2>3 DEF KnewInv, ReadersFind
<1>2. ASSUME UNCHANGED <<key, knew>>,
             \A q \in Paths : (pc # [x \in Threads |-> "idle"] /\ NodeOf[q] # NULL) => NodeOf'[q] # NULL,
             NEW t \in Threads, pc[t] # "idle",
             pc'[t] # "idle" => result'[t] = result[t],
             result'[t] = "missing" => ~knew[t],
             \A x \in Threads \ {t} : pc'[x] = pc[x] /\ result'[x] = result[x]
      PROVE  KnewInv' /\ ReadersFind'
  <2>1. \A q \in Paths : NodeOf[q] # NULL => NodeOf'[q] # NULL
    BY <1>2
  <2>. QED BY <1>0, <1>2, <2>1 DEF KnewInv, ReadersFind
<1>3. ASSUME NEW t \in Threads, Reject(t) \/ Lock(t) \/ Found(t) \/ Missing(t) \/ Descend(t) \/ Use(t)
      PROVE  KnewInv' /\ ReadersFind'
  <2>1. /\ UNCHANGED <<children_nodes_, key, knew>> /\ pc[t] # "idle"
        /\ \A x \in Threads \ {t} : pc'[x] = pc[x] /\ result'[x] = result[x]
        /\ pc'[t] # "idle" => result'[t] = result[t]
        /\ result'[t] = "missing" => result[t] = "missing" \/ Missing(t)
    BY <1>0, <1>3 DEF Reject, Lock, Found, Missing, Descend, Use, TypeOK
  <2>2. NodeOf' = NodeOf
    BY <2>1, SameChildren
  <2>3. result'[t] = "missing" => ~knew[t]
    BY <1>0, <2>1, MissingWasUnknown DEF ReadersFind
  <2>. QED BY <1>2, <2>1, <2>2, <2>3
<1>4. ASSUME NEW t \in Threads, Create(t)
      PROVE  KnewInv' /\ ReadersFind'
  <2>1. /\ UNCHANGED <<key, knew, result>> /\ pc[t] # "idle"
        /\ \A x \in Threads \ {t} : pc'[x] = pc[x]
    BY <1>0, <1>4 DEF Create, TypeOK
  <2>2. \A q \in Paths : NodeOf[q] # NULL => NodeOf'[q] # NULL
    BY <1>4, CreateSteps
  <2>3. result'[t] = "missing" => ~knew[t]
    BY <1>0, <2>1 DEF ReadersFind
  <2>. QED BY <1>2, <2>1, <2>2, <2>3
<1>5. ASSUME NEW t \in Threads, Clear(t)
      PROVE  KnewInv' /\ ReadersFind'
  BY <1>0, <1>5 DEF Clear, KnewInv, ReadersFind
<1>6. CASE UNCHANGED vars
  <2>1. NodeOf' = NodeOf
    BY <1>6, SameChildren DEF vars
  <2>. QED BY <1>0, <1>6, <2>1 DEF vars, KnewInv, ReadersFind
<1>. QED BY ONLY <1>1, <1>3, <1>4, <1>5, <1>6, [Next]_vars DEF Next

LEMMA StepKeepsTree == TreeInv /\ [Next]_vars => TreeInv'
BY StepKeepsType, StepKeepsPaths, StepKeepsWalk, StepKeepsMutex, StepKeepsKnew DEF TreeInv

(* Every node that exists is the node of exactly one path, whoever creates *)
(* the same path at the same time (multikey_tree.h, get_for_edit()).       *)
THEOREM NodesHavePaths == Spec => []OneNodePerPath
<1>1. TreeInv => OneNodePerPath
  BY DEF TreeInv, OnePath, OneNodePerPath
<1>. QED BY <1>1, InitTree, StepKeepsTree, PTL DEF Spec

(* A lookup of a key that had its node at the call does not throw          *)
(* (multikey_tree.h, get_for_read()).                                      *)
THEOREM LookupsFind == Spec => []ReadersFind
<1>1. TreeInv => ReadersFind
  BY DEF TreeInv
<1>. QED BY <1>1, InitTree, StepKeepsTree, PTL DEF Spec

-----------------------------------------------------------------------------
(* The map.  Creating a node extends it by a key, an edit at the end of a  *)
(* walk changes the value of the key of the walk, clear() clears it, and   *)
(* no other step is seen.                                                  *)
known == {p \in Paths : NodeOf[p] # NULL}
value == [p \in Paths |-> IF NodeOf[p] = NULL THEN 0 ELSE node_data_[NodeOf[p]]]

(* A creation extends the abstract map, an editor changes a value, clear() *)
(* clears it, and nothing else is seen of the tree.                        *)
LEMMA CreateExtends ==
    ASSUME TreeInv, NEW t \in Threads, Create(t)
    PROVE  \E p \in Paths : Map!Extend(p)
<1>0. PICK p \in Paths : p = NextPath(t)
  BY CreateSteps
<1>1. PICK n \in Nodes \ heap :
           /\ n # NULL /\ node_data_' = [node_data_ EXCEPT ![n] = 0]
           /\ \A q \in Paths : NodeOf'[q] = IF q = p THEN n ELSE NodeOf[q]
           /\ NodeOf[p] = NULL /\ p \in Paths /\ pc[t] = "creating"
           /\ \A q \in Paths : NodeOf[q] # n
  BY <1>0, CreateSteps
<1>2. p \notin known
  BY <1>1 DEF known
<1>3. SubSeq(p, 1, Len(p) - 1) \in known
  <2>1. Parent(p) = PathOf(t)
    BY <1>0, <1>1, NextPathFacts DEF Inside
  <2>2. PathOf(t) \in Paths /\ NodeOf[PathOf(t)] # NULL
    BY <1>1, WalkFacts DEF TreeInv, OnePath
  <2>. QED BY <2>1, <2>2 DEF known, Parent
<1>4. known' = known \cup {p}
  BY <1>1 DEF known
<1>5. ASSUME NEW q \in Paths
      PROVE  (IF NodeOf'[q] = NULL THEN 0 ELSE node_data_'[NodeOf'[q]])
                = (IF NodeOf[q] = NULL THEN 0 ELSE node_data_[NodeOf[q]])
  <2>1. CASE q = p
    BY <1>1, <2>1 DEF TreeInv, TypeOK
  <2>2. CASE q # p
    BY <1>1, <2>2 DEF TreeInv, TypeOK
  <2>. QED BY <2>1, <2>2
<1>6. value' = value
  BY <1>5 DEF value
<1>. QED BY <1>2, <1>3, <1>4, <1>6 DEF Map!Extend, known, value

LEMMA UseChanges ==
    ASSUME TreeInv, NEW t \in Threads, Use(t)
    PROVE  UNCHANGED <<known, value>> \/ \E p \in Paths : Map!Change(p)
<1>1. /\ NodeOf' = NodeOf /\ known' = known
  BY SameChildren DEF Use, known
<1>2. CASE UNCHANGED node_data_
  BY <1>1, <1>2 DEF value
<1>3. CASE node_data_' = [node_data_ EXCEPT ![at[t]] = @ + 1]
  <2>1. PICK p \in Paths : p = key[t] /\ at[t] = NodeOf[p] /\ at[t] # NULL /\ at[t] \in Nodes
    BY WalkFacts DEF Use, TreeInv, WalkInv, Walking, TypeOK
  <2>2. p \in known
    BY <2>1 DEF known
  <2>3. ASSUME NEW q \in Paths
        PROVE  value'[q] = [value EXCEPT ![p] = @ + 1][q]
    <3>1. /\ value[q] = IF NodeOf[q] = NULL THEN 0 ELSE node_data_[NodeOf[q]]
          /\ value'[q] = IF NodeOf[q] = NULL THEN 0 ELSE node_data_'[NodeOf[q]]
      BY <1>1 DEF value
    <3>2. CASE q = p
      BY <1>3, <2>1, <3>1, <3>2 DEF TreeInv, TypeOK, value
    <3>3. CASE q # p
      <4>1. NodeOf[q] # at[t]
        BY <2>1, <3>3 DEF TreeInv, OnePath
      <4>2. NodeOf[q] # NULL => NodeOf[q] \in Nodes
        BY DEF TreeInv, OnePath, TypeOK
      <4>3. value'[q] = value[q]
        BY <1>3, <3>1, <4>1, <4>2 DEF TreeInv, TypeOK
      <4>4. [value EXCEPT ![p] = @ + 1][q] = value[q]
        BY <3>3 DEF value
      <4>. QED BY <4>3, <4>4
    <3>. QED BY <3>2, <3>3
  <2>4. value' = [value EXCEPT ![p] = @ + 1]
    BY <2>3 DEF value
  <2>. QED BY <1>1, <2>2, <2>4 DEF Map!Change, known, value
<1>. QED BY <1>2, <1>3 DEF Use

LEMMA ClearClears ==
    ASSUME TreeInv, NEW t \in Threads, Clear(t)
    PROVE  Map!Clear
<1>1. \A q \in Paths : NodeOf'[q] = IF q = <<>> THEN Root ELSE NULL
  BY ClearedPaths DEF Clear
<1>2. UNCHANGED node_data_
  BY DEF Clear
<1>3. Root # NULL
  BY TreeAssumption
<1>4. known' = {<<>>}
  BY <1>1, <1>3, EmptyPath DEF known
<1>5. ASSUME NEW q \in Paths
      PROVE  value'[q] = IF q = <<>> THEN value[q] ELSE 0
  BY <1>1, <1>2, <1>3, NodeOfEquation DEF value
<1>6. value' = [q \in Paths |-> IF q = <<>> THEN value[q] ELSE 0]
  BY <1>5 DEF value
<1>. QED BY <1>4, <1>6 DEF Map!Clear, known, value

LEMMA StepRefinesMap ==
    ASSUME TreeInv, [Next]_vars
    PROVE  [Map!Next]_(Map!mapvars)
<1>1. ASSUME NEW t \in Threads, Create(t)
      PROVE  Map!Next
  BY <1>1, CreateExtends DEF Map!Next
<1>2. ASSUME NEW t \in Threads, Clear(t)
      PROVE  Map!Next
  BY <1>2, ClearClears DEF Map!Next
<1>3. ASSUME NEW t \in Threads, Use(t)
      PROVE  [Map!Next]_(Map!mapvars)
  BY <1>3, UseChanges DEF Map!Next, Map!mapvars, known, value
<1>4. ASSUME UNCHANGED <<children_nodes_, node_data_>>
      PROVE  UNCHANGED Map!mapvars
  <2>1. NodeOf' = NodeOf
    BY <1>4, SameChildren
  <2>. QED BY <1>4, <2>1 DEF Map!mapvars
<1>5. \/ UNCHANGED <<children_nodes_, node_data_>>
      \/ \E t \in Threads : Create(t) \/ Clear(t) \/ Use(t)
  BY DEF Next, Call, Reject, Lock, Found, Missing, Descend, vars, tree
<1>. QED BY <1>1, <1>2, <1>3, <1>4, <1>5

(* The tree implements the map: lookups extend it one symbol at a time, no *)
(* step but an edit changes a value, and none but clear() removes a key    *)
(* (multikey_tree.h).                                                      *)
THEOREM TreeRefines == Spec => ImplementsMap
<1>1. TreeInv /\ [Next]_vars => [Map!Next]_(Map!mapvars)
  BY StepRefinesMap
<1>. QED BY <1>1, InitTree, StepKeepsTree, PTL DEF Spec, ImplementsMap, Map!Spec
=============================================================================
