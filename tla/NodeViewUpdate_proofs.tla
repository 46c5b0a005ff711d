----------------------- MODULE NodeViewUpdate_proofs -----------------------
(***************************************************************************)
(* What an update of the node view keeps, for every tree of blocks, every  *)
(* set of blocks that the state rejects and every assignment of            *)
(* transactions to blocks.  The first part is about the tree: a chain is   *)
(* determined by its last block, so states and ProgressInfos are treated   *)
(* as blocks and paths between blocks in the second part.                  *)
(***************************************************************************)
EXTENDS NodeViewUpdate, SequenceTheorems, WellFoundedInduction, TLAPS

Nodes == Blocks \cup {Genesis}

-----------------------------------------------------------------------------
(* Chains                                                                  *)

\* The sequence s leads from a child of the genesis block to b.
LeadsTo(s, b) ==
    /\ s # <<>>
    /\ s[Len(s)] = b
    /\ Parent[s[1]] = Genesis
    /\ \A i \in 1..Len(s) : i # 1 => Parent[s[i]] = s[i - 1]

\* Induction along the tree: what holds for a block when it holds for its parent
\* holds for every block.
LEMMA TreeInduction ==
    ASSUME NEW P, \A b \in Blocks : Parent[b] \in P \cup {Genesis} => b \in P
    PROVE  \A b \in Blocks : b \in P
<1> DEFINE S == {b \in Blocks : b \notin P}
<1>. SUFFICES ASSUME S # {} PROVE FALSE
  OBVIOUS
<1>1. S \in SUBSET Blocks
  OBVIOUS
<1>2. PICK b \in S : Parent[b] \notin S
  <2> HIDE DEF S
  <2>. QED  BY <1>1, NodeViewAssumption
<1>3. Parent[b] \in Blocks \cup {Genesis}
  BY <1>2, NodeViewAssumption
<1>. QED  BY <1>2, <1>3

\* The parent of a block is a block or the genesis block.
LEMMA ParentType ==
    ASSUME NEW b \in Blocks
    PROVE  Parent[b] \in Nodes /\ b \in Nodes /\ b # Genesis
BY NodeViewAssumption DEF Nodes

\* A path to the parent, and the block, is a path to the block.
LEMMA ExtendPath ==
    ASSUME NEW b \in Blocks, NEW s \in Seq(Blocks), LeadsTo(s, Parent[b])
    PROVE  LeadsTo(Append(s, b), b)
<1> DEFINE t == Append(s, b)
<1>1. /\ t \in Seq(Blocks) /\ t # <<>> /\ Len(t) = Len(s) + 1 /\ Len(s) \in Nat
      /\ \A i \in 1..Len(s) : t[i] = s[i]
      /\ t[Len(s) + 1] = b
  BY AppendProperties
<1>2. Len(s) # 0
  BY EmptySeq DEF LeadsTo
<1> HIDE DEF t
<1>3. t[Len(t)] = b /\ t[1] = s[1]
  BY <1>1, <1>2
<1>4. ASSUME NEW i \in 1..Len(t), i # 1
      PROVE  Parent[t[i]] = t[i - 1]
  <2>1. CASE i = Len(t)
    BY <1>1, <1>2, <2>1 DEF LeadsTo
  <2>2. CASE i # Len(t)
    <3>1. i \in 1..Len(s) /\ i - 1 \in 1..Len(s)
      BY <1>1, <1>4, <2>2
    <3>. QED  BY <1>1, <1>4, <3>1 DEF LeadsTo
  <2>. QED  BY <2>1, <2>2
<1>. QED  BY <1>1, <1>3, <1>4 DEF LeadsTo, t

\* The path to a child of the genesis block.
LEMMA SinglePath ==
    ASSUME NEW b \in Blocks, Parent[b] = Genesis
    PROVE  <<b>> \in Seq(Blocks) /\ LeadsTo(<<b>>, b)
<1>1. <<b>> \in Seq(Blocks) /\ Len(<<b>>) = 1 /\ <<b>>[1] = b /\ <<b>> # <<>>
  OBVIOUS
<1>. QED  BY <1>1 DEF LeadsTo

\* Without its last element, a path leads to the parent.
LEMMA ShortenPath ==
    ASSUME NEW b \in Blocks, NEW s \in Seq(Blocks), LeadsTo(s, b)
    PROVE  /\ Parent[b] = Genesis => s = <<b>>
           /\ Parent[b] # Genesis =>
                 \E t \in Seq(Blocks) : LeadsTo(t, Parent[b]) /\ s = Append(t, b)
<1>1. PICK t \in Seq(Blocks), e \in Blocks : s = Append(t, e)
  BY SequenceEmptyOrAppend DEF LeadsTo
<1>2. /\ Len(s) = Len(t) + 1 /\ Len(t) \in Nat
      /\ \A i \in 1..Len(t) : s[i] = t[i]
      /\ s[Len(t) + 1] = e
  BY <1>1, AppendProperties
<1>3. e = b
  BY <1>2 DEF LeadsTo
<1>4. CASE Len(t) = 0
  <2>1. t = <<>>
    BY <1>4, EmptySeq
  <2>2. s[1] = b
    BY <1>2, <1>3, <1>4
  <2>3. Parent[b] = Genesis
    BY <2>2 DEF LeadsTo
  <2>4. s = <<b>>
    BY <1>1, <1>3, <2>1
  <2>. QED  BY <2>3, <2>4
<1>5. CASE Len(t) # 0
  <2>1. Len(t) \in 1..Len(t) /\ Len(s) \in 1..Len(s) /\ Len(s) # 1 /\ Len(s) - 1 = Len(t) /\ 1 \in 1..Len(t)
    BY <1>2, <1>5
  <2>2. Parent[b] = t[Len(t)] /\ t[Len(t)] \in Blocks
    BY <1>2, <2>1, ElementOfSeq DEF LeadsTo
  <2>3. t[1] = s[1] /\ t # <<>>
    BY <1>2, <1>5, <2>1
  <2>4. ASSUME NEW i \in 1..Len(t), i # 1
        PROVE  Parent[t[i]] = t[i - 1]
    <3>1. i \in 1..Len(s) /\ i - 1 \in 1..Len(t)
      BY <1>2, <2>4
    <3>. QED  BY <1>2, <2>4, <3>1 DEF LeadsTo
  <2>5. LeadsTo(t, Parent[b])
    BY <2>2, <2>3, <2>4 DEF LeadsTo
  <2>. QED  BY <1>1, <1>3, <2>2, <2>5, ParentType
<1>. QED  BY <1>2, <1>4, <1>5

\* A path leads to every block.
LEMMA PathExists ==
    ASSUME NEW b \in Blocks
    PROVE  \E s \in Seq(Blocks) : LeadsTo(s, b)
<1> DEFINE P == {c \in Blocks : \E s \in Seq(Blocks) : LeadsTo(s, c)}
<1>1. ASSUME NEW c \in Blocks, Parent[c] \in P \cup {Genesis}
      PROVE  c \in P
  <2>1. CASE Parent[c] = Genesis
    BY <2>1, SinglePath
  <2>2. CASE Parent[c] \in P
    <3>1. PICK s \in Seq(Blocks) : LeadsTo(s, Parent[c])
      BY <2>2
    <3>2. Append(s, c) \in Seq(Blocks) /\ LeadsTo(Append(s, c), c)
      BY <3>1, ExtendPath, AppendProperties
    <3>. QED  BY <3>2
  <2>. QED  BY <1>1, <2>1, <2>2
<1>2. \A c \in Blocks : c \in P
  <2> HIDE DEF P
  <2>. QED  BY <1>1, TreeInduction
<1>. QED  BY <1>2

\* And only one.
LEMMA PathUnique ==
    ASSUME NEW b \in Blocks, NEW s \in Seq(Blocks), NEW t \in Seq(Blocks),
           LeadsTo(s, b), LeadsTo(t, b)
    PROVE  s = t
<1> DEFINE P == {c \in Blocks : \A u, v \in Seq(Blocks) : LeadsTo(u, c) /\ LeadsTo(v, c) => u = v}
<1>1. ASSUME NEW c \in Blocks, Parent[c] \in P \cup {Genesis}
      PROVE  c \in P
  <2>. SUFFICES ASSUME NEW u \in Seq(Blocks), NEW v \in Seq(Blocks), LeadsTo(u, c), LeadsTo(v, c)
                PROVE  u = v
    OBVIOUS
  <2>1. CASE Parent[c] = Genesis
    BY <2>1, ShortenPath
  <2>2. CASE Parent[c] \in P /\ Parent[c] # Genesis
    <3>1. PICK u0 \in Seq(Blocks) : LeadsTo(u0, Parent[c]) /\ u = Append(u0, c)
      BY <2>2, ShortenPath
    <3>2. PICK v0 \in Seq(Blocks) : LeadsTo(v0, Parent[c]) /\ v = Append(v0, c)
      BY <2>2, ShortenPath
    <3>. QED  BY <2>2, <3>1, <3>2
  <2>. QED  BY <1>1, <2>1, <2>2
<1>2. \A c \in Blocks : c \in P
  <2> HIDE DEF P
  <2>. QED  BY <1>1, TreeInduction
<1>. QED  BY <1>2

\* The recursive definition of ChainTo has a solution.
LEMMA ChainToEquation ==
    ChainTo = [b \in Blocks \cup {Genesis} |->
                  IF b = Genesis THEN <<>> ELSE Append(ChainTo[Parent[b]], b)]
<1> DEFINE Rec(f) == f = [b \in Blocks \cup {Genesis} |->
                              IF b = Genesis THEN <<>> ELSE Append(f[Parent[b]], b)]
           Path(b) == CHOOSE s \in Seq(Blocks) : LeadsTo(s, b)
           g == [b \in Blocks \cup {Genesis} |-> IF b = Genesis THEN <<>> ELSE Path(b)]
<1>1. ASSUME NEW b \in Blocks
      PROVE  Path(b) \in Seq(Blocks) /\ LeadsTo(Path(b), b)
  BY PathExists
<1> HIDE DEF Path
<1>2. ASSUME NEW b \in Blocks
      PROVE  g[b] = Append(g[Parent[b]], b)
  <2>0. g[b] = Path(b) /\ Parent[b] \in Blocks \cup {Genesis} /\ Genesis \notin Blocks
    BY NodeViewAssumption
  <2>1. CASE Parent[b] = Genesis
    <3>1. g[Parent[b]] = <<>>
      BY <2>1
    <3>2. <<b>> = Append(<<>>, b)
      OBVIOUS
    <3>. QED  BY <1>1, <2>0, <2>1, <3>1, <3>2, SinglePath, PathUnique
  <2>2. CASE Parent[b] # Genesis
    <3>1. Parent[b] \in Blocks /\ g[Parent[b]] = Path(Parent[b])
      BY <2>0, <2>2
    <3>2. Append(Path(Parent[b]), b) \in Seq(Blocks) /\ LeadsTo(Append(Path(Parent[b]), b), b)
      BY <1>1, <3>1, ExtendPath, AppendProperties
    <3>. QED  BY <1>1, <2>0, <3>1, <3>2, PathUnique
  <2>. QED  BY <2>1, <2>2
<1>3. Rec(g)
  <2>1. g[Genesis] = <<>>
    OBVIOUS
  <2>2. g = [b \in Blocks \cup {Genesis} |-> g[b]]
    OBVIOUS
  <2> HIDE DEF g
  <2>3. \A b \in Blocks \cup {Genesis} :
            g[b] = IF b = Genesis THEN <<>> ELSE Append(g[Parent[b]], b)
    BY <1>2, <2>1
  <2>. QED  BY <2>2, <2>3
<1>4. ChainTo = CHOOSE f : Rec(f)
  BY Zenon DEF ChainTo
<1> HIDE DEF Rec
<1>5. Rec(ChainTo)
  <2> HIDE DEF g
  <2>. QED  BY <1>3, <1>4
<1>. QED  BY <1>5 DEF Rec

\* The chain of the genesis block is empty.
LEMMA ChainGenesis == ChainTo[Genesis] = <<>> /\ Height(Genesis) = 0 /\ Genesis \in Nodes
BY ChainToEquation DEF Height, Nodes

\* The equation by which ChainTo is defined.
LEMMA ChainStep ==
    ASSUME NEW b \in Blocks
    PROVE  ChainTo[b] = Append(ChainTo[Parent[b]], b)
<1>1. b \in Blocks \cup {Genesis} /\ b # Genesis
  BY NodeViewAssumption
<1>. QED  BY <1>1, ChainToEquation

\* Chains are sequences of blocks.
LEMMA ChainType == \A x \in Nodes : ChainTo[x] \in Seq(Blocks) /\ Height(x) \in Nat
<1> DEFINE P == {b \in Blocks : ChainTo[b] \in Seq(Blocks)}
<1>1. ASSUME NEW b \in Blocks, Parent[b] \in P \cup {Genesis}
      PROVE  b \in P
  <2>0. <<>> \in Seq(Blocks)
    BY EmptySeq
  <2>1. ChainTo[Parent[b]] \in Seq(Blocks)
    BY <1>1, <2>0, ChainGenesis
  <2>2. Append(ChainTo[Parent[b]], b) \in Seq(Blocks)
    BY <2>1, AppendProperties
  <2>. QED  BY <2>2, ChainStep
<1>2. \A b \in Blocks : b \in P
  <2> HIDE DEF P
  <2>. QED  BY <1>1, TreeInduction
<1>3. \A x \in Nodes : ChainTo[x] \in Seq(Blocks)
  BY <1>2, ChainGenesis, EmptySeq DEF Nodes
<1>. QED  BY <1>3, LenProperties DEF Height

\* A chain, element by element.
LEMMA ChainElements ==
    ASSUME NEW b \in Blocks
    PROVE  /\ Height(b) = Height(Parent[b]) + 1
           /\ ChainTo[b][Height(b)] = b
           /\ \A i \in 1..Height(Parent[b]) : ChainTo[b][i] = ChainTo[Parent[b]][i]
<1> DEFINE s == ChainTo[Parent[b]]
<1>1. s \in Seq(Blocks)
  BY ChainType, ParentType
<1>2. ChainTo[b] = Append(s, b)
  BY ChainStep
<1> HIDE DEF s
<1>3. /\ Len(Append(s, b)) = Len(s) + 1
      /\ \A i \in 1..Len(s) : Append(s, b)[i] = s[i]
      /\ Append(s, b)[Len(s) + 1] = b
  BY <1>1, AppendProperties
<1>4. Height(b) = Len(s) + 1 /\ Height(Parent[b]) = Len(s)
  BY <1>2, <1>3 DEF Height, s
<1>. QED  BY <1>2, <1>3, <1>4 DEF s

\* A state that has applied a chain has its last block as version.
LEMMA VersionOfChain ==
    ASSUME NEW x \in Nodes
    PROVE  VersionOf(ChainTo[x]) = x
<1>1. CASE x = Genesis
  BY <1>1, ChainGenesis DEF VersionOf
<1>2. CASE x # Genesis
  <2>1. x \in Blocks
    BY <1>2 DEF Nodes
  <2>2. Height(x) = Height(Parent[x]) + 1 /\ Height(Parent[x]) \in Nat /\ ChainTo[x][Height(x)] = x
    BY <2>1, ChainElements, ChainType, ParentType
  <2>3. ChainTo[x] # <<>>
    BY <2>2 DEF Height
  <2>. QED  BY <2>2, <2>3 DEF VersionOf, Last, Height
<1>. QED  BY <1>1, <1>2

\* Element i of a chain is the block of height i on it, and its chain is the
\* beginning of that chain.
IsBeginning(y, x, i) ==
    y \in Blocks /\ Height(y) = i /\ \A j \in 1..i : ChainTo[y][j] = ChainTo[x][j]

\* The beginnings of a chain are the chains of its blocks.
LEMMA ChainBeginning ==
    \A x \in Nodes : \A i \in 1..Height(x) : IsBeginning(ChainTo[x][i], x, i)
<1> DEFINE P == {b \in Blocks : \A i \in 1..Height(b) : IsBeginning(ChainTo[b][i], b, i)}
<1>1. ASSUME NEW b \in Blocks, Parent[b] \in P \cup {Genesis}
      PROVE  b \in P
  <2>1. /\ Height(b) = Height(Parent[b]) + 1 /\ Height(Parent[b]) \in Nat
        /\ ChainTo[b][Height(b)] = b
        /\ \A i \in 1..Height(Parent[b]) : ChainTo[b][i] = ChainTo[Parent[b]][i]
    BY ChainElements, ChainType, ParentType
  <2>2. \A i \in 1..Height(Parent[b]) : IsBeginning(ChainTo[Parent[b]][i], Parent[b], i)
    BY <1>1, ChainGenesis
  <2>3. ASSUME NEW i \in 1..Height(b)
        PROVE  IsBeginning(ChainTo[b][i], b, i)
    <3>1. CASE i = Height(b)
      BY <2>1, <3>1 DEF IsBeginning
    <3>2. CASE i # Height(b)
      <4>1. i \in 1..Height(Parent[b])
        BY <2>1, <3>2
      <4>2. \A j \in 1..i : j \in 1..Height(Parent[b])
        BY <2>1, <4>1
      <4>. QED  BY <2>1, <2>2, <4>1, <4>2 DEF IsBeginning
    <3>. QED  BY <3>1, <3>2
  <2>. QED  BY <2>3
<1>2. \A b \in Blocks : b \in P
  <2> HIDE DEF P
  <2>. QED  BY <1>1, TreeInduction
<1>3. \A i \in 1..Height(Genesis) : IsBeginning(ChainTo[Genesis][i], Genesis, i)
  BY ChainGenesis
<1>. QED  BY <1>2, <1>3 DEF Nodes

\* Blocks with equal chains are equal.
LEMMA SameChain ==
    ASSUME NEW x \in Nodes, NEW y \in Nodes, Height(x) = Height(y),
           \A i \in 1..Height(x) : ChainTo[x][i] = ChainTo[y][i]
    PROVE  x = y
<1>1. ChainTo[x] = ChainTo[y]
  BY ChainType, SeqEqual DEF Height
<1>. QED  BY <1>1, VersionOfChain

-----------------------------------------------------------------------------
(* Descent                                                                 *)

\* x descends from m when m is the element of x's chain at m's height.
LEMMA DescendsElement ==
    ASSUME NEW x \in Nodes, NEW m \in Nodes
    PROVE  /\ Descends(x, m) <=> /\ Height(m) <= Height(x)
                                 /\ \A j \in 1..Height(m) : ChainTo[m][j] = ChainTo[x][j]
           /\ Descends(x, m) <=> m = Genesis \/ (Height(m) \in 1..Height(x) /\ ChainTo[x][Height(m)] = m)
<1> DEFINE s == ChainTo[m]
           t == ChainTo[x]
<1>1. s \in Seq(Blocks) /\ t \in Seq(Blocks) /\ Len(s) = Height(m) /\ Len(t) = Height(x)
      /\ Height(m) \in Nat /\ Height(x) \in Nat
  BY ChainType DEF Height
<1> HIDE DEF s, t
<1>2. SubSeq(s, 1, Len(s)) = s
  BY <1>1, SubSeqFull
<1>3. ASSUME Height(m) <= Height(x)
      PROVE  SubSeq(t, 1, Len(s)) = s <=> \A j \in 1..Height(m) : s[j] = t[j]
  <2>1. /\ SubSeq(t, 1, Len(s)) \in Seq(Blocks)
        /\ Len(SubSeq(t, 1, Len(s))) = Len(s)
        /\ \A j \in 1..Len(s) : SubSeq(t, 1, Len(s))[j] = t[j]
    <3>1. \A i \in 1..Len(s) : t[i] \in Blocks
      BY <1>1, <1>3, ElementOfSeq
    <3>2. Len(s) \in Int /\ 1 \in Int /\ Len(s) - 1 + 1 = Len(s) /\ \A j \in 1..Len(s) : 1 + j - 1 = j
      BY <1>1
    <3>3. /\ SubSeq(t, 1, Len(s)) \in Seq(Blocks)
          /\ Len(SubSeq(t, 1, Len(s))) = IF 1 <= Len(s) THEN Len(s) - 1 + 1 ELSE 0
          /\ \A j \in 1..(Len(s) - 1 + 1) : SubSeq(t, 1, Len(s))[j] = t[1 + j - 1]
      BY <3>1, <3>2, SubSeqProperties
    <3>. QED  BY <1>1, <3>2, <3>3
  <2>2. ASSUME \A j \in 1..Height(m) : s[j] = t[j]
        PROVE  SubSeq(t, 1, Len(s)) = s
    BY <1>1, <2>1, <2>2, SeqEqual
  <2>3. ASSUME SubSeq(t, 1, Len(s)) = s
        PROVE  \A j \in 1..Height(m) : s[j] = t[j]
    BY <1>1, <2>1, <2>3
  <2>. QED  BY <2>2, <2>3
<1>4. Descends(x, m) <=> Height(m) <= Height(x) /\ \A j \in 1..Height(m) : s[j] = t[j]
  BY <1>1, <1>2, <1>3 DEF Descends, IsPrefix, s, t
<1>5. ASSUME m # Genesis
      PROVE  Height(m) \in 1..Height(m) /\ s[Height(m)] = m /\ Height(m) >= 1
  BY <1>5, ChainElements, ChainType, ParentType DEF s, Nodes
<1>6. ASSUME m # Genesis, Height(m) <= Height(x), \A j \in 1..Height(m) : s[j] = t[j]
      PROVE  Height(m) \in 1..Height(x) /\ t[Height(m)] = m
  BY <1>1, <1>5, <1>6
<1>7. ASSUME Height(m) \in 1..Height(x), t[Height(m)] = m
      PROVE  Height(m) <= Height(x) /\ \A j \in 1..Height(m) : s[j] = t[j]
  <2>1. IsBeginning(t[Height(m)], x, Height(m))
    BY <1>7, ChainBeginning DEF t
  <2>. QED  BY <1>1, <1>7, <2>1 DEF IsBeginning, s, t
<1>8. Height(Genesis) = 0
  BY ChainGenesis
<1>. QED  BY <1>1, <1>4, <1>6, <1>7, <1>8 DEF s, t

\* Descending is reflexive, and all descend from the genesis block.
LEMMA DescendsFromItself ==
    ASSUME NEW x \in Nodes
    PROVE  Descends(x, x) /\ Descends(x, Genesis)
<1>1. Height(x) \in Nat /\ Genesis \in Nodes
  BY ChainType, ChainGenesis
<1>. QED  BY <1>1, DescendsElement

\* Descending is transitive.
LEMMA DescendsTransitive ==
    ASSUME NEW x \in Nodes, NEW y \in Nodes, NEW z \in Nodes, Descends(x, y), Descends(y, z)
    PROVE  Descends(x, z)
<1>1. Height(x) \in Nat /\ Height(y) \in Nat /\ Height(z) \in Nat
  BY ChainType
<1>2. /\ Height(y) <= Height(x) /\ \A j \in 1..Height(y) : ChainTo[y][j] = ChainTo[x][j]
      /\ Height(z) <= Height(y) /\ \A j \in 1..Height(z) : ChainTo[z][j] = ChainTo[y][j]
  BY DescendsElement
<1>3. Height(z) <= Height(x) /\ \A j \in 1..Height(z) : ChainTo[z][j] = ChainTo[x][j]
  BY <1>1, <1>2
<1>. QED  BY <1>3, DescendsElement

\* Two ancestors of a block descend one from the other; at the same height they
\* are the same.
LEMMA AncestorsInLine ==
    ASSUME NEW x \in Nodes, NEW y \in Nodes, NEW z \in Nodes, Descends(x, y), Descends(x, z),
           Height(z) <= Height(y)
    PROVE  Descends(y, z) /\ (Height(z) = Height(y) => z = y)
<1>1. Height(x) \in Nat /\ Height(y) \in Nat /\ Height(z) \in Nat
  BY ChainType
<1>2. /\ \A j \in 1..Height(y) : ChainTo[y][j] = ChainTo[x][j]
      /\ \A j \in 1..Height(z) : ChainTo[z][j] = ChainTo[x][j]
  BY DescendsElement
<1>3. \A j \in 1..Height(z) : j \in 1..Height(y) /\ ChainTo[z][j] = ChainTo[y][j]
  BY <1>1, <1>2
<1>. QED  BY <1>3, DescendsElement, SameChain

\* A block is one step above its parent.
LEMMA DescendsFromParent ==
    ASSUME NEW b \in Blocks
    PROVE  Descends(b, Parent[b]) /\ Height(b) = Height(Parent[b]) + 1 /\ b \in Nodes /\ Parent[b] \in Nodes
<1>1. /\ Height(b) = Height(Parent[b]) + 1 /\ Height(Parent[b]) \in Nat /\ b \in Nodes /\ Parent[b] \in Nodes
      /\ \A i \in 1..Height(Parent[b]) : ChainTo[b][i] = ChainTo[Parent[b]][i]
  BY ChainElements, ChainType, ParentType
<1>2. Height(Parent[b]) <= Height(b)
  BY <1>1
<1>. QED  BY <1>1, <1>2, DescendsElement

\* A proper descendant descends from its parent on.
LEMMA ProperDescendant ==
    ASSUME NEW x \in Nodes, NEW m \in Nodes, Descends(x, m), x # m
    PROVE  x \in Blocks /\ Height(m) < Height(x) /\ Descends(Parent[x], m)
<1>1. Height(x) \in Nat /\ Height(m) \in Nat /\ Height(m) <= Height(x)
  BY ChainType, DescendsElement
<1>2. Descends(x, x)
  BY DescendsFromItself
<1>3. Height(m) # Height(x)
  BY <1>2, AncestorsInLine, <1>1
<1>4. x \in Blocks
  BY <1>1, <1>3, ChainGenesis DEF Nodes
<1>5. Parent[x] \in Nodes /\ Descends(x, Parent[x]) /\ Height(x) = Height(Parent[x]) + 1 /\ Height(Parent[x]) \in Nat
  BY <1>4, DescendsFromParent, ChainType
<1>6. Height(m) <= Height(Parent[x])
  BY <1>1, <1>3, <1>5
<1>. QED  BY <1>1, <1>3, <1>4, <1>5, <1>6, AncestorsInLine

\* A chain has the blocks that its last block descends from.
LEMMA InChain ==
    ASSUME NEW x \in Nodes, NEW y
    PROVE  y \in ToSet(ChainTo[x]) <=> y \in Blocks /\ Descends(x, y)
<1>1. ChainTo[x] \in Seq(Blocks) /\ Height(x) \in Nat /\ DOMAIN ChainTo[x] = 1..Height(x)
  BY ChainType, LenProperties DEF Height
<1>2. ASSUME y \in ToSet(ChainTo[x])
      PROVE  y \in Blocks /\ Descends(x, y)
  <2>1. PICK i \in 1..Height(x) : y = ChainTo[x][i]
    BY <1>1, <1>2 DEF ToSet
  <2>2. y \in Blocks /\ Height(y) = i /\ y \in Nodes
    BY <2>1, ChainBeginning DEF IsBeginning, Nodes
  <2>. QED  BY <2>1, <2>2, DescendsElement
<1>3. ASSUME y \in Blocks, Descends(x, y)
      PROVE  y \in ToSet(ChainTo[x])
  <2>1. y \in Nodes /\ y # Genesis
    BY <1>3, ParentType
  <2>2. Height(y) \in 1..Height(x) /\ ChainTo[x][Height(y)] = y
    BY <1>3, <2>1, DescendsElement
  <2>. QED  BY <1>1, <2>2 DEF ToSet
<1>. QED  BY <1>2, <1>3

\* The next block on the way from m to its descendant x.
LEMMA NextBlock ==
    ASSUME NEW x \in Nodes, NEW m \in Nodes, Descends(x, m), x # m,
           NEW n, n = ChainTo[x][Height(m) + 1]
    PROVE  n \in Blocks /\ n \in Nodes /\ Height(n) = Height(m) + 1 /\ Descends(x, n) /\ Parent[n] = m
<1>1. Height(x) \in Nat /\ Height(m) \in Nat /\ Height(m) + 1 \in 1..Height(x)
  BY ChainType, ProperDescendant
<1>2. n \in Blocks /\ Height(n) = Height(m) + 1 /\ n \in Nodes
  BY <1>1, ChainBeginning DEF IsBeginning, Nodes
<1>3. Descends(x, n)
  BY <1>1, <1>2, DescendsElement
<1>4. Descends(n, Parent[n]) /\ Height(n) = Height(Parent[n]) + 1 /\ Parent[n] \in Nodes /\ Height(Parent[n]) \in Nat
  BY <1>2, DescendsFromParent, ChainType
<1>5. Descends(x, Parent[n])
  BY <1>2, <1>3, <1>4, DescendsTransitive
<1>6. Height(Parent[n]) = Height(m)
  BY <1>1, <1>2, <1>4
<1>7. Parent[n] = m
  BY <1>1, <1>4, <1>5, <1>6, AncestorsInLine
<1>. QED  BY <1>2, <1>3, <1>7

\* The beginning of a chain, of the length of a block in it, is the chain of that
\* block.
LEMMA BeginningOfChain ==
    ASSUME NEW x \in Nodes, NEW m \in Nodes, Descends(x, m)
    PROVE  SubSeq(ChainTo[x], 1, Height(m)) = ChainTo[m]
<1>1. ChainTo[m] \in Seq(Blocks) /\ Len(ChainTo[m]) = Height(m)
  BY ChainType DEF Height
<1>2. SubSeq(ChainTo[m], 1, Len(ChainTo[m])) = ChainTo[m]
  BY <1>1, SubSeqFull
<1>. QED  BY <1>1, <1>2 DEF Descends, IsPrefix

\* A beginning of any length is the chain of some block.
LEMMA BeginningIsChain ==
    ASSUME NEW x \in Nodes, NEW l \in 0..Height(x)
    PROVE  \E m \in Nodes : Height(m) = l /\ Descends(x, m) /\ SubSeq(ChainTo[x], 1, l) = ChainTo[m]
<1>1. PICK m \in Nodes : Height(m) = l /\ Descends(x, m)
  <2>1. CASE l = 0
    BY <2>1, ChainGenesis, DescendsFromItself
  <2>2. CASE l # 0
    <3>1. l \in 1..Height(x)
      BY <2>2, ChainType
    <3>2. ChainTo[x][l] \in Nodes /\ Height(ChainTo[x][l]) = l
      BY <3>1, ChainBeginning DEF IsBeginning, Nodes
    <3>. QED  BY <3>1, <3>2, DescendsElement
  <2>. QED  BY <2>1, <2>2
<1>2. SubSeq(ChainTo[x], 1, l) = ChainTo[m]
  BY <1>1, BeginningOfChain
<1>. QED  BY <1>1, <1>2

-----------------------------------------------------------------------------
(* The way from one block to another                                       *)

\* The blocks after m on the way to its descendant x.
Rest(x, m) == SubSeq(ChainTo[x], Height(m) + 1, Height(x))

\* The blocks above m on the chain of x.
LEMMA RestElements ==
    ASSUME NEW x \in Nodes, NEW m \in Nodes, Descends(x, m)
    PROVE  /\ Rest(x, m) \in Seq(Blocks)
           /\ Len(Rest(x, m)) = Height(x) - Height(m)
           /\ \A i \in 1..(Height(x) - Height(m)) : Rest(x, m)[i] = ChainTo[x][Height(m) + i]
<1> DEFINE s == ChainTo[x]
           h == Height(m)
           k == Height(x)
<1>1. s \in Seq(Blocks) /\ h \in Nat /\ k \in Nat /\ Len(s) = k /\ h <= k
  BY ChainType, DescendsElement DEF Height
<1> HIDE DEF s, h, k
<1>2. \A i \in (h + 1)..k : s[i] \in Blocks
  BY <1>1, ElementOfSeq
<1>3. /\ SubSeq(s, h + 1, k) \in Seq(Blocks)
      /\ Len(SubSeq(s, h + 1, k)) = IF h + 1 <= k THEN k - (h + 1) + 1 ELSE 0
      /\ \A i \in 1..(k - (h + 1) + 1) : SubSeq(s, h + 1, k)[i] = s[(h + 1) + i - 1]
  BY <1>1, <1>2, SubSeqProperties
<1>4. k - (h + 1) + 1 = k - h /\ \A i \in 1..(k - h) : (h + 1) + i - 1 = h + i
  BY <1>1
<1>5. Len(SubSeq(s, h + 1, k)) = k - h
  BY <1>1, <1>3
<1>. QED  BY <1>3, <1>4, <1>5 DEF Rest, s, h, k

\* There are none only if m is x.
LEMMA RestIsEmpty ==
    ASSUME NEW x \in Nodes, NEW m \in Nodes, Descends(x, m)
    PROVE  Rest(x, m) = <<>> <=> x = m
<1>1. Height(x) \in Nat /\ Height(m) \in Nat
  BY ChainType
<1>2. Rest(x, m) = <<>> <=> Height(x) - Height(m) = 0
  BY RestElements, EmptySeq
<1>3. x # m => Height(m) < Height(x)
  BY ProperDescendant
<1>. QED  BY <1>1, <1>2, <1>3

\* They complete the chain of m to that of x.
LEMMA RestCompletes ==
    ASSUME NEW x \in Nodes, NEW m \in Nodes, Descends(x, m)
    PROVE  ChainTo[m] \o Rest(x, m) = ChainTo[x]
<1> DEFINE s == ChainTo[x]
           h == Height(m)
<1>1. s \in Seq(Blocks) /\ h \in Nat /\ Height(x) \in Nat /\ Len(s) = Height(x) /\ h <= Height(x)
  BY ChainType, DescendsElement DEF Height
<1>2. SubSeq(s, 1, h) = ChainTo[m]
  BY BeginningOfChain
<1> HIDE DEF s, h
<1>3. SubSeq(s, 1, h) \o SubSeq(s, h + 1, Len(s)) = SubSeq(s, 1, Len(s))
  <2>1. 1 \in 1..(Len(s) + 1) /\ h \in (1 - 1)..Len(s) /\ Len(s) \in h..Len(s)
    BY <1>1
  <2>. QED  BY <1>1, <2>1, ConcatAdjacentSubSeq
<1>4. SubSeq(s, 1, Len(s)) = s
  BY <1>1, SubSeqFull
<1>. QED  BY <1>1, <1>2, <1>3, <1>4 DEF Rest, s, h

\* Counting from one block higher.
LEMMA OneUp ==
    ASSUME NEW k \in Nat, NEW l \in Nat, NEW i \in 1..(k - (l + 1))
    PROVE  i + 1 \in 1..(k - l) /\ l + (i + 1) = (l + 1) + i
OBVIOUS

\* The first of them is a child of m, and the others are above it.
LEMMA RestHead ==
    ASSUME NEW x \in Nodes, NEW m \in Nodes, Descends(x, m), Rest(x, m) # <<>>,
           NEW n, n = Head(Rest(x, m))
    PROVE  /\ n \in Blocks /\ n \in Nodes /\ Parent[n] = m /\ Descends(x, n) /\ Height(n) = Height(m) + 1
           /\ Tail(Rest(x, m)) = Rest(x, n)
           /\ Append(ChainTo[m], n) = ChainTo[n]
<1> DEFINE s == Rest(x, m)
           t == Rest(x, n)
<1>1. x # m /\ Height(x) \in Nat /\ Height(m) \in Nat
  BY RestIsEmpty, ChainType
<1>2. Height(m) < Height(x)
  BY <1>1, ProperDescendant
<1>3. /\ s \in Seq(Blocks) /\ s # <<>> /\ Len(s) = Height(x) - Height(m)
      /\ \A i \in 1..(Height(x) - Height(m)) : s[i] = ChainTo[x][Height(m) + i]
  BY RestElements
<1>4. n = ChainTo[x][Height(m) + 1]
  <2>1. Head(s) = s[1]
    BY <1>3
  <2>. QED  BY <1>1, <1>2, <1>3, <2>1
<1>5. n \in Blocks /\ n \in Nodes /\ Height(n) = Height(m) + 1 /\ Descends(x, n) /\ Parent[n] = m
  BY <1>1, <1>4, NextBlock
<1>6. /\ t \in Seq(Blocks) /\ Len(t) = Height(x) - Height(n)
      /\ \A i \in 1..(Height(x) - Height(n)) : t[i] = ChainTo[x][Height(n) + i]
  BY <1>5, RestElements
<1> HIDE DEF s, t
<1>7. /\ Tail(s) \in Seq(Blocks) /\ Len(Tail(s)) = Len(s) - 1
      /\ \A i \in 1..Len(Tail(s)) : Tail(s)[i] = s[i + 1]
  BY <1>3, HeadTailProperties
<1>8. Len(Tail(s)) = Len(t)
  BY <1>1, <1>2, <1>3, <1>5, <1>6, <1>7
<1>9. ASSUME NEW i \in 1..Len(t)
      PROVE  Tail(s)[i] = t[i]
  <2>0. i \in 1..(Height(x) - Height(n)) /\ Height(n) = Height(m) + 1
    BY <1>5, <1>6
  <2>1. /\ i \in 1..(Height(x) - Height(n)) /\ i + 1 \in 1..(Height(x) - Height(m))
        /\ Height(m) + (i + 1) = Height(n) + i
    <3>1. i \in 1..(Height(x) - (Height(m) + 1))
      BY <2>0, Zenon
    <3>2. i + 1 \in 1..(Height(x) - Height(m)) /\ Height(m) + (i + 1) = (Height(m) + 1) + i
      BY <1>1, <3>1, OneUp
    <3>. QED  BY <2>0, <3>2, Zenon
  <2>. QED  BY <1>3, <1>6, <1>7, <1>8, <2>1
<1>10. Tail(s) = t
  BY <1>6, <1>7, <1>8, <1>9, SeqEqual
<1>. QED  BY <1>5, <1>10, ChainStep DEF s, t

\* m is the last block that the chains to x and y share.
IsMeet(m, x, y) ==
    /\ m \in Nodes /\ Descends(x, m) /\ Descends(y, m)
    /\ \A z \in Nodes : Descends(x, z) /\ Descends(y, z) => Height(z) <= Height(m)

\* A set of natural numbers has a least one.
LEMMA LeastNumber ==
    ASSUME NEW T \in SUBSET Nat, T # {}
    PROVE  \E n \in T : \A k \in T : n <= k
<1>1. PICK n \in T : \A k \in T : ~(<<k, n>> \in OpToRel(<, Nat))
  BY NatLessThanWellFounded, WFMin
<1>2. \A k \in T : ~(k < n)
  BY <1>1 DEF OpToRel
<1>. QED  BY <1>2

\* Two chains have a last block in common.
LEMMA MeetExists ==
    ASSUME NEW x \in Nodes, NEW y \in Nodes
    PROVE  \E m \in Nodes : IsMeet(m, x, y)
<1> DEFINE Common(z) == Descends(x, z) /\ Descends(y, z)
           T == {n \in Nat : \E z \in Nodes : Common(z) /\ n = Height(x) - Height(z)}
<1>0. Height(x) \in Nat /\ \A z \in Nodes : Height(z) \in Nat /\ (Common(z) => Height(z) <= Height(x))
  BY ChainType, DescendsElement
<1>1. Common(Genesis) /\ Genesis \in Nodes /\ Height(Genesis) = 0
  BY DescendsFromItself, ChainGenesis
<1> HIDE DEF Common
<1>2. Height(x) \in T
  BY <1>0, <1>1
<1>3. PICK n \in T : \A k \in T : n <= k
  <2>1. T \in SUBSET Nat /\ T # {}
    BY <1>2
  <2> HIDE DEF T
  <2>. QED  BY <2>1, LeastNumber
<1>4. PICK m \in Nodes : Common(m) /\ n = Height(x) - Height(m)
  BY <1>3
<1>5. ASSUME NEW z \in Nodes, Common(z)
      PROVE  Height(z) <= Height(m)
  <2>1. Height(x) - Height(z) \in T
    BY <1>0, <1>5
  <2>. QED  BY <1>0, <1>3, <1>4, <2>1
<1>. QED  BY <1>4, <1>5 DEF IsMeet, Common

\* And only one.
LEMMA MeetUnique ==
    ASSUME NEW x \in Nodes, NEW y \in Nodes, NEW m, NEW n, IsMeet(m, x, y), IsMeet(n, x, y)
    PROVE  m = n
<1>1. Height(m) \in Nat /\ Height(n) \in Nat /\ Height(m) <= Height(n) /\ Height(n) <= Height(m)
  BY ChainType DEF IsMeet
<1>. QED  BY <1>1, AncestorsInLine DEF IsMeet

\* What two chains have in common is the chain of a common ancestor.
LEMMA CommonPrefixIsChain ==
    ASSUME NEW x \in Nodes, NEW y \in Nodes, NEW c
    PROVE  c \in CommonPrefixes({ChainTo[x], ChainTo[y]})
               <=> \E m \in Nodes : c = ChainTo[m] /\ Descends(x, m) /\ Descends(y, m)
<1> DEFINE S == {ChainTo[x], ChainTo[y]}
<1>1. ASSUME c \in CommonPrefixes(S)
      PROVE  \E m \in Nodes : c = ChainTo[m] /\ Descends(x, m) /\ Descends(y, m)
  <2>1. PICK seq \in S : c \in Prefixes(seq) /\ IsPrefix(c, ChainTo[x]) /\ IsPrefix(c, ChainTo[y])
    BY <1>1 DEF CommonPrefixes
  <2>2. PICK w \in Nodes : seq = ChainTo[w]
    BY <2>1
  <2>3. PICK l \in 0..Height(w) : c = SubSeq(ChainTo[w], 1, l)
    BY <2>1, <2>2 DEF Prefixes, Height
  <2>4. PICK m \in Nodes : c = ChainTo[m]
    BY <2>3, BeginningIsChain
  <2>. QED  BY <2>1, <2>4 DEF Descends
<1>2. ASSUME NEW m \in Nodes, c = ChainTo[m], Descends(x, m), Descends(y, m)
      PROVE  c \in CommonPrefixes(S)
  <2>1. SubSeq(ChainTo[x], 1, Height(m)) = c /\ Height(m) \in 0..Len(ChainTo[x])
    <3>1. Height(m) \in Nat /\ Height(x) \in Nat /\ Height(m) <= Height(x)
      BY <1>2, ChainType, DescendsElement
    <3>2. Height(x) = Len(ChainTo[x])
      BY DEF Height
    <3>. QED  BY <1>2, <3>1, <3>2, BeginningOfChain
  <2>2. c \in Prefixes(ChainTo[x])
    BY <2>1 DEF Prefixes
  <2>3. \A t \in S : IsPrefix(c, t)
    BY <1>2 DEF Descends
  <2>. QED  BY <2>2, <2>3 DEF CommonPrefixes
<1>. QED  BY <1>1, <1>2

\* The longest such chain is that of the last common block.
LEMMA LongestIsMeet ==
    ASSUME NEW x \in Nodes, NEW y \in Nodes, NEW m, IsMeet(m, x, y)
    PROVE  LongestCommonPrefix({ChainTo[x], ChainTo[y]}) = ChainTo[m]
<1> DEFINE C == CommonPrefixes({ChainTo[x], ChainTo[y]})
           Longest(c) == \A other \in C : Len(other) <= Len(c)
<1>1. m \in Nodes /\ ChainTo[m] \in C
  BY CommonPrefixIsChain DEF IsMeet
<1>2. Longest(ChainTo[m])
  <2>. SUFFICES ASSUME NEW other \in C PROVE Len(other) <= Len(ChainTo[m])
    OBVIOUS
  <2>1. PICK z \in Nodes : other = ChainTo[z] /\ Descends(x, z) /\ Descends(y, z)
    BY CommonPrefixIsChain
  <2>. QED  BY <2>1 DEF IsMeet, Height
<1>3. ASSUME NEW c \in C, Longest(c)
      PROVE  c = ChainTo[m]
  <2>1. PICK z \in Nodes : c = ChainTo[z] /\ Descends(x, z) /\ Descends(y, z)
    BY CommonPrefixIsChain
  <2>2. Height(z) = Height(m)
    <3>1. Height(z) <= Height(m)
      BY <2>1 DEF IsMeet
    <3>2. Height(m) <= Height(z)
      BY <1>1, <1>3, <2>1 DEF Height
    <3>. QED  BY <1>1, <3>1, <3>2, ChainType
  <2>3. z = m
    BY <1>1, <2>1, <2>2, AncestorsInLine, ChainType DEF IsMeet
  <2>. QED  BY <2>1, <2>3
<1>4. LongestCommonPrefix({ChainTo[x], ChainTo[y]}) = CHOOSE c \in C : Longest(c)
  BY DEF LongestCommonPrefix
<1> HIDE DEF C, Longest
<1>5. LET l == CHOOSE c \in C : Longest(c) IN l \in C /\ Longest(l)
  BY <1>1, <1>2
<1>. QED  BY <1>3, <1>4, <1>5

\* The ProgressInfo from one block to another: back to where the chains meet and on.
LEMMA ProgressOverMeet ==
    ASSUME NEW x \in Nodes, NEW y \in Nodes, NEW m, IsMeet(m, x, y)
    PROVE  ProgressBetween(ChainTo[x], ChainTo[y]) =
               [branchPoint |-> m, toRemove |-> Rest(x, m), toApply |-> Rest(y, m)]
<1>1. LongestCommonPrefix({ChainTo[x], ChainTo[y]}) = ChainTo[m] /\ m \in Nodes
  BY LongestIsMeet DEF IsMeet
<1>2. VersionOf(ChainTo[m]) = m
  BY <1>1, VersionOfChain
<1>. QED  BY <1>1, <1>2 DEF ProgressBetween, Rest, Height

InfoType == [branchPoint : Nodes, toRemove : Seq(Blocks), toApply : Seq(Blocks)]

\* A ProgressInfo leads down to the last common block and up from there.
LEMMA ProgressFacts ==
    ASSUME NEW x \in Nodes, NEW y \in Nodes, NEW info, info = ProgressBetween(ChainTo[x], ChainTo[y])
    PROVE  /\ info \in InfoType
           /\ IsMeet(info.branchPoint, x, y)
           /\ info.toRemove = Rest(x, info.branchPoint)
           /\ info.toApply = Rest(y, info.branchPoint)
           /\ info.toRemove = <<>> <=> info.branchPoint = x
           /\ info.toApply = <<>> <=> info.branchPoint = y
<1>1. PICK m \in Nodes : IsMeet(m, x, y)
  BY MeetExists
<1>2. info = [branchPoint |-> m, toRemove |-> Rest(x, m), toApply |-> Rest(y, m)]
  BY <1>1, ProgressOverMeet
<1>3. Rest(x, m) \in Seq(Blocks) /\ Rest(y, m) \in Seq(Blocks)
  BY <1>1, RestElements DEF IsMeet
<1>4. (Rest(x, m) = <<>> <=> m = x) /\ (Rest(y, m) = <<>> <=> m = y)
  BY <1>1, RestIsEmpty DEF IsMeet
<1>5. info.branchPoint = m /\ info.toRemove = Rest(x, m) /\ info.toApply = Rest(y, m)
  BY <1>2
<1>. QED  BY <1>1, <1>2, <1>3, <1>4, <1>5 DEF InfoType

\* Where two chains part, the tree forks.
LEMMA MeetIsFork ==
    ASSUME NEW x \in Nodes, NEW y \in Nodes, NEW m, IsMeet(m, x, y), m # x, m # y
    PROVE  IsFork(m)
<1> DEFINE c == ChainTo[x][Height(m) + 1]
           d == ChainTo[y][Height(m) + 1]
<1>1. m \in Nodes /\ Descends(x, m) /\ Descends(y, m) /\ Height(m) \in Nat
  BY ChainType DEF IsMeet
<1>2. c \in Blocks /\ c \in Nodes /\ Height(c) = Height(m) + 1 /\ Descends(x, c) /\ Parent[c] = m
  BY <1>1, NextBlock
<1>3. d \in Blocks /\ d \in Nodes /\ Height(d) = Height(m) + 1 /\ Descends(y, d) /\ Parent[d] = m
  BY <1>1, NextBlock
<1> HIDE DEF c, d
<1>4. c # d
  BY <1>1, <1>2, <1>3 DEF IsMeet
<1>. QED  BY <1>2, <1>3, <1>4 DEF IsFork

\* A state can be rolled back to the blocks of its chain.
LEMMA CanRollBackChain ==
    ASSUME NEW x \in Nodes, NEW m \in Nodes
    PROVE  CanRollBack(ChainTo[x], m) <=> Descends(x, m)
<1>1. m = Genesis \/ m \in Blocks
  BY DEF Nodes
<1>. QED  BY <1>1, InChain, DescendsFromItself DEF CanRollBack

\* What is left is the chain of that block.
LEMMA RolledBackChain ==
    ASSUME NEW x \in Nodes, NEW m \in Nodes, Descends(x, m)
    PROVE  RolledBack(ChainTo[x], m) = ChainTo[m]
<1>1. CASE m = Genesis
  BY <1>1, ChainGenesis DEF RolledBack
<1>2. CASE m # Genesis
  <2>1. Height(m) \in 1..Height(x) /\ ChainTo[x][Height(m)] = m
    BY <1>2, DescendsElement
  <2>2. DOMAIN ChainTo[x] = 1..Height(x)
    BY ChainType, LenProperties DEF Height
  <2>3. \A i \in 1..Height(x) : ChainTo[x][i] = m => i = Height(m)
    BY ChainBeginning DEF IsBeginning
  <2>4. (CHOOSE i \in DOMAIN ChainTo[x] : ChainTo[x][i] = m) = Height(m)
    BY <2>1, <2>2, <2>3
  <2>. QED  BY <1>2, <2>4, BeginningOfChain DEF RolledBack
<1>. QED  BY <1>1, <1>2

\* What was applied above m does not contain m, so trimming it at m leaves nothing.
LEMMA TrimRest ==
    ASSUME NEW x \in Nodes, NEW m \in Nodes, Descends(x, m)
    PROVE  TrimChainSuffix(Rest(x, m), m) = <<>>
<1> DEFINE s == Rest(x, m)
<1>1. /\ s \in Seq(Blocks) /\ Len(s) = Height(x) - Height(m)
      /\ \A i \in 1..(Height(x) - Height(m)) : s[i] = ChainTo[x][Height(m) + i]
      /\ Height(x) \in Nat /\ Height(m) \in Nat
  BY RestElements, ChainType
<1> HIDE DEF s
<1>2. DOMAIN s = 1..(Height(x) - Height(m))
  BY <1>1, LenProperties
<1>3. ASSUME NEW i \in 1..(Height(x) - Height(m))
      PROVE  s[i] # m
  <2>1. Height(m) + i \in 1..Height(x) /\ Height(m) + i # Height(m)
    BY <1>1
  <2>2. Height(ChainTo[x][Height(m) + i]) = Height(m) + i
    BY <2>1, ChainBeginning DEF IsBeginning
  <2>. QED  BY <1>1, <2>1, <2>2
<1>4. {i \in DOMAIN s : s[i] = m} = {}
  BY <1>2, <1>3
<1>5. TrimChainSuffix(s, m) = <<>>
  BY <1>4 DEF TrimChainSuffix
<1>. QED  BY <1>5 DEF s

-----------------------------------------------------------------------------
(* Histories                                                               *)

HistoryType == [blocks : SUBSET Blocks, best : Nodes, valid : SUBSET Blocks, invalid : SUBSET Blocks]

\* No block on the chain to b is known to be invalid.
Sound(h, b) == \A mod \in h.invalid : ~Descends(b, mod)

\* A history has the ancestors of its blocks; its best chain has no block known to be
\* invalid, and cannot be made longer with the blocks that it has.
Known(h) == h.best \in h.blocks \cup {Genesis}
Closed(h) == \A b \in h.blocks, a \in Blocks : Descends(b, a) => a \in h.blocks
Leaf(h) == \A b \in h.blocks : Descends(b, h.best) /\ b # h.best => ~Sound(h, b)
HistoryOK(h) == Known(h) /\ Closed(h) /\ Sound(h, h.best) /\ Leaf(h)

\* The history's test is whether an invalid block is on the chain.
LEMMA SoundIff ==
    ASSUME NEW h \in HistoryType, NEW b \in Nodes
    PROVE  OnInvalidChain(h, b) <=> ~Sound(h, b)
<1>1. OnInvalidChain(h, b) <=> \E mod \in h.invalid : mod \in ToSet(ChainTo[b])
  BY DEF OnInvalidChain, ToSet
<1>2. h.invalid \subseteq Blocks
  BY DEF HistoryType
<1>. QED  BY <1>1, <1>2, InChain DEF Sound

\* The history at the start.
LEMMA EmptyHistoryOK == EmptyHistory \in HistoryType /\ HistoryOK(EmptyHistory)
<1>1. EmptyHistory \in HistoryType
  BY ChainGenesis DEF EmptyHistory, HistoryType
<1>. QED  BY <1>1 DEF EmptyHistory, HistoryOK, Known, Closed, Sound, Leaf

\* A block stays sound below a sound one.
LEMMA SoundBelow ==
    ASSUME NEW h \in HistoryType, NEW b \in Nodes, NEW a \in Nodes, Descends(b, a), Sound(h, b)
    PROVE  Sound(h, a)
<1>1. h.invalid \subseteq Nodes
  BY DEF HistoryType, Nodes
<1>. QED  BY <1>1, DescendsTransitive DEF Sound

\* The fields of the history after an append.
LEMMA AppendedFacts ==
    ASSUME NEW h \in HistoryType, NEW pmod \in Blocks
    PROVE  /\ Appended(h, pmod) \in HistoryType
           /\ Appended(h, pmod).blocks = h.blocks \cup {pmod}
           /\ Appended(h, pmod).invalid = h.invalid
           /\ Appended(h, pmod).best = IF IsNewBest(h, pmod) THEN pmod ELSE h.best
           /\ pmod \in Nodes /\ h.best \in Nodes
BY DEF Appended, HistoryType, Nodes

\* append keeps the history in order.
LEMMA AppendedOK ==
    ASSUME NEW h \in HistoryType, HistoryOK(h), NEW pmod \in Blocks, pmod \notin h.blocks,
           Parent[pmod] \in h.blocks \cup {Genesis}
    PROVE  HistoryOK(Appended(h, pmod))
<1> DEFINE g == Appended(h, pmod)
<1>0. /\ g \in HistoryType /\ g.blocks = h.blocks \cup {pmod} /\ g.invalid = h.invalid
      /\ g.best = IF IsNewBest(h, pmod) THEN pmod ELSE h.best
      /\ pmod \in Nodes /\ h.best \in Nodes /\ h.blocks \subseteq Nodes
  BY AppendedFacts DEF HistoryType, Nodes
<1> HIDE DEF g
<1>1. Known(g)
  BY <1>0 DEF Known, HistoryOK
<1>2. Closed(g)
  <2>. SUFFICES ASSUME NEW b \in g.blocks, NEW a \in Blocks, Descends(b, a)
                PROVE  a \in h.blocks \cup {pmod}
    BY <1>0 DEF Closed
  <2>1. CASE b \in h.blocks
    BY <2>1 DEF HistoryOK, Closed
  <2>2. CASE b = pmod /\ a # pmod
    <3>1. a \in Nodes /\ a # Genesis /\ Descends(Parent[pmod], a) /\ Parent[pmod] \in Nodes
      BY <1>0, <2>2, ProperDescendant, ParentType
    <3>2. Parent[pmod] # Genesis
      BY <3>1, ChainGenesis, ProperDescendant, NodeViewAssumption
    <3>. QED  BY <3>1, <3>2 DEF HistoryOK, Closed
  <2>. QED  BY <1>0, <2>1, <2>2
<1>3. Sound(g, g.best)
  <2>1. IsNewBest(h, pmod) => Sound(h, pmod)
    BY <1>0, SoundIff DEF IsNewBest
  <2>. QED  BY <1>0, <2>1 DEF Sound, HistoryOK
<1>4. Leaf(g)
  <2>. SUFFICES ASSUME NEW b \in h.blocks \cup {pmod}, Descends(b, g.best), b # g.best, Sound(h, b)
                PROVE  FALSE
    BY <1>0 DEF Leaf, Sound
  <2>1. CASE IsNewBest(h, pmod)
    BY <1>0, <2>1 DEF HistoryOK, Closed
  <2>2. CASE ~IsNewBest(h, pmod) /\ b \in h.blocks
    BY <1>0, <2>2 DEF HistoryOK, Leaf
  <2>3. CASE ~IsNewBest(h, pmod) /\ b = pmod
    <3>1. Height(h.best) < Height(pmod)
      BY <1>0, <2>3, ProperDescendant
    <3>2. ~OnInvalidChain(h, pmod)
      BY <1>0, <2>3, SoundIff
    <3>3. Height(h.best) \in Nat /\ Height(pmod) \in Nat
      BY <1>0, ChainType
    <3>. QED  BY <2>3, <3>1, <3>2, <3>3 DEF IsNewBest
  <2>. QED  BY <2>1, <2>2, <2>3
<1>. QED  BY <1>1, <1>2, <1>3, <1>4 DEF HistoryOK, g

\* What the history may choose when a block turns out invalid.
LEMMA BestBlockFacts ==
    ASSUME NEW h \in HistoryType, NEW mod \in Blocks, NEW base \in Nodes,
           NEW best \in BestBlocksWithout(h, mod, base)
    PROVE  /\ best \in h.blocks \cup {Genesis} /\ best \in Nodes
           /\ Descends(best, base) /\ Sound(h, best) /\ ~Descends(best, mod)
           /\ \A other \in h.blocks \cup {Genesis} :
                 Descends(other, base) /\ Sound(h, other) /\ ~Descends(other, mod)
                     => Height(other) <= Height(best)
<1> DEFINE g == [h EXCEPT !.invalid = @ \cup {mod}]
           left == {b \in h.blocks \cup {Genesis} : Descends(b, base) /\ ~OnInvalidChain(g, b)}
<1>1. g \in HistoryType /\ g.invalid = h.invalid \cup {mod} /\ h.blocks \cup {Genesis} \subseteq Nodes
  BY DEF HistoryType, Nodes
<1>2. best \in left /\ \A other \in left : Height(other) <= Height(best)
  BY DEF BestBlocksWithout
<1> HIDE DEF g
<1>3. ASSUME NEW b \in h.blocks \cup {Genesis}
      PROVE  ~OnInvalidChain(g, b) <=> Sound(h, b) /\ ~Descends(b, mod)
  <2>1. b \in Nodes
    BY <1>1
  <2>2. OnInvalidChain(g, b) <=> ~Sound(g, b)
    BY <1>1, <2>1, SoundIff
  <2>. QED  BY <1>1, <2>2 DEF Sound
<1>. QED  BY <1>1, <1>2, <1>3

\* The fields of the history after reportModifierIsInvalid.
LEMMA InvalidatedFacts ==
    ASSUME NEW h \in HistoryType, NEW mod \in Blocks, NEW best \in Nodes
    PROVE  /\ Invalidated(h, mod, best) \in HistoryType
           /\ Invalidated(h, mod, best).blocks = h.blocks
           /\ Invalidated(h, mod, best).invalid = h.invalid \cup {mod}
           /\ Invalidated(h, mod, best).best = best
BY DEF Invalidated, HistoryType

\* reportModifierIsInvalid keeps the history in order.
LEMMA InvalidatedOK ==
    ASSUME NEW h \in HistoryType, HistoryOK(h), NEW mod \in Blocks, NEW base \in Nodes,
           NEW best \in BestBlocksWithout(h, mod, base)
    PROVE  HistoryOK(Invalidated(h, mod, best))
<1> DEFINE g == Invalidated(h, mod, best)
<1>1. /\ best \in h.blocks \cup {Genesis} /\ best \in Nodes
      /\ Descends(best, base) /\ Sound(h, best) /\ ~Descends(best, mod)
      /\ \A other \in h.blocks \cup {Genesis} :
            Descends(other, base) /\ Sound(h, other) /\ ~Descends(other, mod)
                => Height(other) <= Height(best)
  BY BestBlockFacts
<1>2. g.blocks = h.blocks /\ g.invalid = h.invalid \cup {mod} /\ g.best = best
  BY <1>1, InvalidatedFacts
<1> HIDE DEF g
<1>3. Known(g) /\ Closed(g) /\ Sound(g, g.best)
  BY <1>1, <1>2 DEF HistoryOK, Known, Closed, Sound
<1>4. Leaf(g)
  <2>. SUFFICES ASSUME NEW b \in h.blocks, Descends(b, best), b # best, Sound(g, b)
                PROVE  FALSE
    BY <1>2 DEF Leaf
  <2>1. b \in Nodes /\ Sound(h, b) /\ ~Descends(b, mod)
    BY <1>2 DEF Sound, HistoryType, Nodes
  <2>2. Descends(b, base) /\ Height(best) < Height(b)
    BY <1>1, <2>1, DescendsTransitive, ProperDescendant
  <2>3. Height(b) <= Height(best)
    BY <1>1, <2>1, <2>2
  <2>. QED  BY <1>1, <2>1, <2>2, <2>3, ChainType
<1>. QED  BY <1>3, <1>4 DEF HistoryOK, g

\* history.reportModifierIsValid(mod)
MarkedValid(h, mod) == [h EXCEPT !.valid = @ \cup {mod}]

\* reportModifierIsValid changes neither blocks nor the best chain.
LEMMA ReportedValid ==
    ASSUME NEW h \in HistoryType, NEW mod \in Blocks, NEW g, g = MarkedValid(h, mod)
    PROVE  /\ g \in HistoryType /\ g.blocks = h.blocks /\ g.invalid = h.invalid /\ g.best = h.best
           /\ HistoryOK(h) => HistoryOK(g)
<1>1. g \in HistoryType /\ g.blocks = h.blocks /\ g.invalid = h.invalid /\ g.best = h.best
  BY DEF HistoryType, MarkedValid
<1>. QED  BY <1>1 DEF HistoryOK, Known, Closed, Sound, Leaf

-----------------------------------------------------------------------------
(* States                                                                  *)

\* No block on the chain to x is one that the state rejects.
Accepted(x) == \A mod \in SemInvalid : ~Descends(x, mod)

\* The state of the chain to x.
IsStateAt(s, x) == x \in Nodes /\ s = ChainTo[x] /\ Accepted(x)

\* The state at the start.
LEMMA GenesisState == IsStateAt(<<>>, Genesis)
<1>1. \A mod \in SemInvalid : mod \in Nodes /\ mod # Genesis
  BY NodeViewAssumption, ParentType
<1>2. \A mod \in Nodes : Descends(Genesis, mod) => mod = Genesis
  BY ChainGenesis, ProperDescendant, NodeViewAssumption
<1>. QED  BY <1>1, <1>2, ChainGenesis DEF IsStateAt, Accepted

\* What is below an accepted block is accepted.
LEMMA AcceptedBelow ==
    ASSUME NEW x \in Nodes, NEW m \in Nodes, Descends(x, m), Accepted(x)
    PROVE  Accepted(m)
<1>1. SemInvalid \subseteq Nodes
  BY NodeViewAssumption DEF Nodes
<1>. QED  BY <1>1, DescendsTransitive DEF Accepted

\* A block can be applied at its parent unless the state rejects it.
LEMMA ApplicableAt ==
    ASSUME NEW s, NEW x, IsStateAt(s, x), NEW mod \in Blocks
    PROVE  /\ IsApplicable(s, mod) <=> Parent[mod] = x /\ mod \notin SemInvalid
           /\ IsApplicable(s, mod) => IsStateAt(Append(s, mod), mod)
<1>1. VersionOf(s) = x /\ x \in Nodes /\ s = ChainTo[x]
  BY VersionOfChain DEF IsStateAt
<1>2. IsApplicable(s, mod) <=> Parent[mod] = x /\ mod \notin SemInvalid
  BY <1>1 DEF IsApplicable
<1>3. ASSUME Parent[mod] = x, mod \notin SemInvalid
      PROVE  IsStateAt(Append(s, mod), mod)
  <2>1. Append(s, mod) = ChainTo[mod] /\ mod \in Nodes
    BY <1>1, <1>3, ChainStep, ParentType
  <2>2. ASSUME NEW bad \in SemInvalid, Descends(mod, bad)
        PROVE  FALSE
    <3>1. bad \in Nodes /\ bad # mod
      BY <1>3, NodeViewAssumption DEF Nodes
    <3>2. Descends(x, bad)
      BY <1>3, <2>1, <2>2, <3>1, ProperDescendant
    <3>. QED  BY <3>2 DEF IsStateAt, Accepted
  <2>. QED  BY <2>1, <2>2 DEF IsStateAt, Accepted
<1>. QED  BY <1>2, <1>3

\* Rolling back a state, by blocks.
LEMMA RollBackAt ==
    ASSUME NEW s, NEW x, IsStateAt(s, x), NEW m \in Nodes
    PROVE  /\ CanRollBack(s, m) <=> Descends(x, m)
           /\ CanRollBack(s, m) => IsStateAt(RolledBack(s, m), m)
<1>. QED  BY CanRollBackChain, RolledBackChain, AcceptedBelow DEF IsStateAt

-----------------------------------------------------------------------------
(* The state is a chain, and the histories are sound                       *)

HistoriesOK ==
    /\ history \in HistoryType /\ HistoryOK(history)
    /\ outerHistory \in HistoryType /\ HistoryOK(outerHistory)
    /\ newHistory \in HistoryType /\ HistoryOK(newHistory)

ArgumentsOK ==
    /\ initialInfo \in InfoType /\ progressInfo \in InfoType
    /\ suffix \in Seq(Blocks)
    /\ phase \in {"idle", "rollback", "apply", "failed"}
    /\ reportFailed \in BOOLEAN

StatesOK ==
    /\ \E x \in Nodes : IsStateAt(state, x)
    /\ \E x \in Nodes : IsStateAt(newState, x)

BaseInv == HistoriesOK /\ ArgumentsOK /\ StatesOK

\* The arguments while no update is going on.
LEMMA NoProgressType == NoProgress \in InfoType
BY ChainGenesis, EmptySeq DEF NoProgress, InfoType

\* The invariant holds at the start.
LEMMA InitBaseInv == Init => BaseInv
<1>. SUFFICES ASSUME Init PROVE BaseInv
  OBVIOUS
<1>1. HistoriesOK
  BY EmptyHistoryOK DEF Init, HistoriesOK
<1>2. ArgumentsOK
  BY NoProgressType, EmptySeq DEF Init, ArgumentsOK
<1>3. StatesOK
  BY GenesisState, ChainGenesis DEF Init, StatesOK
<1>. QED  BY <1>1, <1>2, <1>3 DEF BaseInv

\* It holds when an update has ended, if history and state are in order.
LEMMA NoUpdateBase ==
    ASSUME BaseInv, NoUpdate, reportFailed' \in BOOLEAN,
           history' \in HistoryType, HistoryOK(history'), \E x \in Nodes : IsStateAt(state', x)
    PROVE  BaseInv'
<1>1. HistoriesOK'
  BY EmptyHistoryOK DEF NoUpdate, HistoriesOK
<1>2. ArgumentsOK'
  BY NoProgressType, EmptySeq DEF NoUpdate, ArgumentsOK
<1>3. StatesOK'
  BY GenesisState, ChainGenesis DEF NoUpdate, StatesOK
<1>. QED  BY <1>1, <1>2, <1>3 DEF BaseInv

\* The ProgressInfo of append leads from the best chain to the new one.
LEMMA AppendProgressFacts ==
    ASSUME NEW h \in HistoryType, NEW pmod \in Blocks, NEW info, info = AppendProgress(h, pmod),
           info.toApply # <<>>
    PROVE  /\ IsNewBest(h, pmod) /\ h.best \in Nodes /\ pmod \in Nodes
           /\ info = ProgressBetween(ChainTo[h.best], ChainTo[pmod])
           /\ info \in InfoType
<1>1. NoProgress.toApply = <<>>
  BY DEF NoProgress
<1>2. IsNewBest(h, pmod) /\ info = ProgressBetween(ChainTo[h.best], ChainTo[pmod])
  BY <1>1 DEF AppendProgress
<1>3. h.best \in Nodes /\ pmod \in Nodes
  BY DEF HistoryType, Nodes
<1>. QED  BY <1>2, <1>3, ProgressFacts

\* pmodModify keeps it.
LEMMA PmodModifyBase ==
    ASSUME BaseInv, NEW pmod \in Blocks, PmodModify(pmod)
    PROVE  BaseInv'
<1> DEFINE appended == Appended(history, pmod)
           info == AppendProgress(history, pmod)
<1>1. appended \in HistoryType /\ HistoryOK(appended)
  BY AppendedFacts, AppendedOK DEF BaseInv, HistoriesOK, PmodModify
<1>2. CASE info.toApply = <<>>
  <2>1. history' = appended /\ UNCHANGED <<phase, updateVars, state, vault, mempool, reportFailed>>
    BY <1>2 DEF PmodModify
  <2>2. HistoriesOK'
    BY <1>1, <2>1 DEF BaseInv, HistoriesOK, updateVars
  <2>3. ArgumentsOK' /\ StatesOK'
    BY <2>1 DEF BaseInv, ArgumentsOK, StatesOK, updateVars
  <2>. QED  BY <2>2, <2>3 DEF BaseInv
<1>3. CASE info.toApply # <<>>
  <2>1. /\ initialInfo' = info /\ CallUpdateState(appended, state, info, <<>>)
        /\ UNCHANGED viewVars /\ UNCHANGED reportFailed
    BY <1>3 DEF PmodModify
  <2>2. info \in InfoType
    BY <1>3, AppendProgressFacts DEF BaseInv, HistoriesOK
  <2>3. HistoriesOK'
    BY <1>1, <2>1 DEF BaseInv, HistoriesOK, viewVars, CallUpdateState
  <2>4. ArgumentsOK'
    BY <2>1, <2>2, EmptySeq DEF BaseInv, ArgumentsOK, CallUpdateState
  <2>5. StatesOK'
    BY <2>1 DEF BaseInv, StatesOK, viewVars, CallUpdateState
  <2>. QED  BY <2>3, <2>4, <2>5 DEF BaseInv
<1>. QED  BY <1>2, <1>3

\* trimChainSuffix yields blocks.
LEMMA TrimType ==
    ASSUME NEW s \in Seq(Blocks), NEW m
    PROVE  TrimChainSuffix(s, m) \in Seq(Blocks)
<1> DEFINE positions == {i \in DOMAIN s : s[i] = m}
           from == CHOOSE i \in positions : TRUE
<1>1. CASE positions = {}
  BY <1>1, EmptySeq DEF TrimChainSuffix
<1>2. CASE positions # {}
  <2>1. from \in positions
    BY <1>2
  <2>2. from \in 1..Len(s) /\ Len(s) \in Nat
    BY <2>1, LenProperties
  <2>3. TrimChainSuffix(s, m) = SubSeq(s, from, Len(s))
    BY <1>2 DEF TrimChainSuffix
  <2> HIDE DEF from
  <2>4. SubSeq(s, from, Len(s)) \in Seq(Blocks)
    BY <2>2, ElementOfSeq, SubSeqProperties
  <2>. QED  BY <2>3, <2>4
<1>. QED  BY <1>1, <1>2

\* The rollback of updateState keeps it.
LEMMA UpdateStateBase ==
    ASSUME BaseInv, UpdateState
    PROVE  BaseInv'
<1>1. HistoriesOK'
  BY DEF BaseInv, HistoriesOK, UpdateState, viewVars
<1>2. ArgumentsOK'
  BY TrimType, EmptySeq DEF BaseInv, ArgumentsOK, UpdateState
<1>3. \E x \in Nodes : IsStateAt(newState', x)
  <2>1. PICK x \in Nodes : IsStateAt(newState, x)
    BY DEF BaseInv, StatesOK
  <2>2. progressInfo.branchPoint \in Nodes
    BY DEF BaseInv, ArgumentsOK, InfoType
  <2>3. \/ newState' = newState
        \/ CanRollBack(newState, progressInfo.branchPoint)
           /\ newState' = RolledBack(newState, progressInfo.branchPoint)
    BY DEF UpdateState
  <2>. QED  BY <2>1, <2>2, <2>3, RollBackAt
<1>4. StatesOK'
  BY <1>3 DEF BaseInv, StatesOK, UpdateState, viewVars
<1>. QED  BY <1>1, <1>2, <1>4 DEF BaseInv

\* The block that is applied next.
LEMMA ModToApplyType ==
    ASSUME ArgumentsOK, progressInfo.toApply # <<>>
    PROVE  ModToApply \in Blocks /\ Tail(progressInfo.toApply) \in Seq(Blocks)
BY HeadTailProperties DEF ArgumentsOK, InfoType, ModToApply

\* Applying a block keeps it.
LEMMA ApplyModifierBase ==
    ASSUME BaseInv, ApplyModifier
    PROVE  BaseInv'
<1>1. ModToApply \in Blocks /\ Tail(progressInfo.toApply) \in Seq(Blocks)
  BY ModToApplyType DEF BaseInv, ApplyModifier, Applying
<1>2. newHistory' = MarkedValid(outerHistory, ModToApply)
  BY DEF ApplyModifier, MarkedValid
<1>3. newHistory' \in HistoryType /\ HistoryOK(newHistory')
  BY <1>1, <1>2, ReportedValid DEF BaseInv, HistoriesOK
<1>4. HistoriesOK'
  BY <1>3 DEF BaseInv, HistoriesOK, ApplyModifier, viewVars
<1>5. progressInfo' \in InfoType
  BY <1>1 DEF BaseInv, ArgumentsOK, InfoType, ApplyModifier
<1>6. suffix' \in Seq(Blocks)
  BY <1>1, AppendProperties DEF BaseInv, ArgumentsOK, ApplyModifier
<1>7. ArgumentsOK'
  BY <1>5, <1>6 DEF BaseInv, ArgumentsOK, ApplyModifier
<1>8. \E x \in Nodes : IsStateAt(newState', x)
  <2>1. PICK x \in Nodes : IsStateAt(newState, x)
    BY DEF BaseInv, StatesOK
  <2>2. IsApplicable(newState, ModToApply) /\ newState' = Append(newState, ModToApply)
    BY DEF ApplyModifier
  <2>3. IsStateAt(newState', ModToApply) /\ ModToApply \in Nodes
    BY <1>1, <2>1, <2>2, ApplicableAt, ParentType
  <2>. QED  BY <2>3
<1>9. StatesOK'
  BY <1>8 DEF BaseInv, StatesOK, ApplyModifier, viewVars
<1>. QED  BY <1>4, <1>7, <1>9 DEF BaseInv

\* So does rejecting one.
LEMMA RejectModifierBase ==
    ASSUME BaseInv, RejectModifier
    PROVE  BaseInv'
<1>1. ModToApply \in Blocks
  BY ModToApplyType DEF BaseInv, RejectModifier, Applying
<1>2. PICK best \in BestBlocksWithout(outerHistory, ModToApply, initialInfo.branchPoint) :
          CallUpdateState(Invalidated(outerHistory, ModToApply, best), newState,
                          ProgressBetween(ChainTo[Parent[ModToApply]], ChainTo[best]), suffix)
  BY DEF RejectModifier
<1>3. UNCHANGED <<viewVars, initialInfo, reportFailed>>
  BY DEF RejectModifier
<1>4. /\ outerHistory \in HistoryType /\ HistoryOK(outerHistory) /\ initialInfo.branchPoint \in Nodes
      /\ Parent[ModToApply] \in Nodes
  BY <1>1, ParentType DEF BaseInv, HistoriesOK, ArgumentsOK, InfoType
<1>5. best \in Nodes
  BY <1>1, <1>2, <1>4, BestBlockFacts
<1> DEFINE g == Invalidated(outerHistory, ModToApply, best)
           info == ProgressBetween(ChainTo[Parent[ModToApply]], ChainTo[best])
<1>6. g \in HistoryType /\ HistoryOK(g)
  BY <1>1, <1>2, <1>4, <1>5, InvalidatedFacts, InvalidatedOK
<1>7. info \in InfoType
  BY <1>4, <1>5, ProgressFacts
<1>8. outerHistory' = g /\ newHistory' = g /\ newState' = newState /\ progressInfo' = info
      /\ suffix' = suffix /\ phase' = "rollback"
  BY <1>2 DEF CallUpdateState
<1> HIDE DEF g, info
<1>9. HistoriesOK'
  BY <1>3, <1>6, <1>8 DEF BaseInv, HistoriesOK, viewVars
<1>10. ArgumentsOK'
  BY <1>3, <1>7, <1>8 DEF BaseInv, ArgumentsOK
<1>11. StatesOK'
  BY <1>3, <1>8 DEF BaseInv, StatesOK, viewVars
<1>. QED  BY <1>9, <1>10, <1>11 DEF BaseInv

\* Every step keeps it.
LEMMA NextBaseInv ==
    ASSUME BaseInv, [Next]_vars
    PROVE  BaseInv'
<1>1. CASE UpdateState
  BY <1>1, UpdateStateBase
<1>2. CASE RollbackFailed
  BY <1>2 DEF BaseInv, HistoriesOK, ArgumentsOK, StatesOK, RollbackFailed, viewVars, updateVars
<1>3. CASE ApplyModifier
  BY <1>3, ApplyModifierBase
<1>4. CASE RejectModifier
  BY <1>4, RejectModifierBase
<1>5. CASE UpdateNodeView
  <2>1. history' = newHistory /\ state' = newState /\ NoUpdate /\ reportFailed' = reportFailed
    BY <1>5 DEF UpdateNodeView
  <2>2. /\ reportFailed' \in BOOLEAN /\ history' \in HistoryType /\ HistoryOK(history')
        /\ \E x \in Nodes : IsStateAt(state', x)
    BY <2>1 DEF BaseInv, HistoriesOK, ArgumentsOK, StatesOK
  <2>. QED  BY <2>1, <2>2, NoUpdateBase
<1>6. CASE ReportFails
  <2>1. history' = outerHistory /\ state' = state /\ NoUpdate /\ reportFailed' = TRUE
    BY <1>6 DEF ReportFails
  <2>2. /\ reportFailed' \in BOOLEAN /\ history' \in HistoryType /\ HistoryOK(history')
        /\ \E x \in Nodes : IsStateAt(state', x)
    BY <2>1 DEF BaseInv, HistoriesOK, StatesOK
  <2>. QED  BY <2>1, <2>2, NoUpdateBase
<1>7. CASE \E pmod \in Blocks : PmodModify(pmod)
  BY <1>7, PmodModifyBase
<1>8. CASE \E tx \in Txs : TxModify(tx) \/ EliminateTransactions(tx)
  <2>1. UNCHANGED <<history, state, phase, updateVars, reportFailed>>
    BY <1>8 DEF TxModify, EliminateTransactions
  <2>. QED  BY <2>1 DEF BaseInv, HistoriesOK, ArgumentsOK, StatesOK, updateVars
<1>9. CASE UNCHANGED vars
  BY <1>9 DEF BaseInv, HistoriesOK, ArgumentsOK, StatesOK, vars, viewVars, updateVars
<1>. QED  BY <1>1, <1>2, <1>3, <1>4, <1>5, <1>6, <1>7, <1>8, <1>9 DEF Next, Update

\* It holds for ever.
LEMMA AlwaysBase == Spec => []BaseInv
BY InitBaseInv, NextBaseInv, PTL DEF Spec

-----------------------------------------------------------------------------
(* The state follows the history                                           *)

\* Before the rollback, the progress leads from newState to the best chain; after it,
\* what is left to apply does.
AtRollback ==
    \E x \in Nodes :
        /\ IsStateAt(newState, x)
        /\ progressInfo = ProgressBetween(ChainTo[x], ChainTo[outerHistory.best])
AtApply ==
    \E x \in Nodes :
        /\ IsStateAt(newState, x)
        /\ Descends(outerHistory.best, x)
        /\ progressInfo.toApply = Rest(outerHistory.best, x)

\* A progress from newState can always be begun: the rollback succeeds.
LEMMA RollbackInPlace ==
    ASSUME BaseInv, AtRollback
    PROVE  CanRollBack(newState, progressInfo.branchPoint)
<1>1. PICK x \in Nodes :
        /\ IsStateAt(newState, x)
        /\ progressInfo = ProgressBetween(ChainTo[x], ChainTo[outerHistory.best])
  BY DEF AtRollback
<1>2. outerHistory.best \in Nodes
  BY DEF BaseInv, HistoriesOK, HistoryType
<1>3. IsMeet(progressInfo.branchPoint, x, outerHistory.best)
  BY <1>1, <1>2, ProgressFacts
<1>. QED  BY <1>1, <1>3, RollBackAt DEF IsMeet

\* After the rollback the state is where the blocks to apply begin.
LEMMA UpdateStateInPlace ==
    ASSUME BaseInv, AtRollback, UpdateState
    PROVE  AtApply'
<1>1. PICK x \in Nodes :
        /\ IsStateAt(newState, x)
        /\ progressInfo = ProgressBetween(ChainTo[x], ChainTo[outerHistory.best])
  BY DEF AtRollback
<1>2. outerHistory.best \in Nodes
  BY DEF BaseInv, HistoriesOK, HistoryType
<1> DEFINE m == progressInfo.branchPoint
<1>3. /\ IsMeet(m, x, outerHistory.best) /\ progressInfo.toApply = Rest(outerHistory.best, m)
      /\ progressInfo.toRemove = <<>> => m = x
  BY <1>1, <1>2, ProgressFacts
<1>4. m \in Nodes /\ Descends(x, m) /\ Descends(outerHistory.best, m)
  BY <1>3 DEF IsMeet
<1>5. outerHistory' = outerHistory /\ progressInfo' = progressInfo
  BY DEF UpdateState
<1>6. IsStateAt(newState', m)
  <2>1. CASE newState' = newState /\ (progressInfo.toRemove = <<>> \/ VersionOf(newState) = m)
    <3>1. VersionOf(newState) = x
      BY <1>1, VersionOfChain DEF IsStateAt
    <3>. QED  BY <1>1, <1>3, <2>1, <3>1
  <2>2. CASE newState' = RolledBack(newState, m) /\ CanRollBack(newState, m)
    BY <1>1, <1>4, <2>2, RollBackAt
  <2>. QED  BY <2>1, <2>2 DEF UpdateState, ChainSwitchingNeeded
<1>7. progressInfo.toApply = Rest(outerHistory.best, m)
  BY <1>3
<1> HIDE DEF m
<1>. QED  BY <1>4, <1>5, <1>6, <1>7 DEF AtApply

\* While the state is on the way, the next block is a child of its last block.
LEMMA NextInPlace ==
    ASSUME BaseInv, AtApply, progressInfo.toApply # <<>>
    PROVE  \E x \in Nodes :
              /\ IsStateAt(newState, x) /\ Descends(outerHistory.best, x)
              /\ ModToApply \in Blocks /\ Parent[ModToApply] = x
              /\ Descends(outerHistory.best, ModToApply)
              /\ Tail(progressInfo.toApply) = Rest(outerHistory.best, ModToApply)
              /\ IsApplicable(newState, ModToApply) <=> ModToApply \notin SemInvalid
<1>1. PICK x \in Nodes :
        /\ IsStateAt(newState, x)
        /\ Descends(outerHistory.best, x)
        /\ progressInfo.toApply = Rest(outerHistory.best, x)
  BY DEF AtApply
<1>2. outerHistory.best \in Nodes
  BY DEF BaseInv, HistoriesOK, HistoryType
<1>3. ModToApply = Head(Rest(outerHistory.best, x))
  BY <1>1 DEF ModToApply
<1>4. /\ ModToApply \in Blocks /\ Parent[ModToApply] = x /\ Descends(outerHistory.best, ModToApply)
      /\ Tail(progressInfo.toApply) = Rest(outerHistory.best, ModToApply)
  BY <1>1, <1>2, <1>3, RestHead
<1>5. IsApplicable(newState, ModToApply) <=> ModToApply \notin SemInvalid
  BY <1>1, <1>4, ApplicableAt
<1>. QED  BY <1>1, <1>4, <1>5

\* Applying a block leaves it where the rest begins.
LEMMA ApplyInPlace ==
    ASSUME BaseInv, AtApply, ApplyModifier
    PROVE  AtApply'
<1>0. progressInfo.toApply # <<>> /\ IsApplicable(newState, ModToApply)
  BY DEF ApplyModifier, Applying
<1>1. PICK x \in Nodes :
        /\ IsStateAt(newState, x) /\ ModToApply \in Blocks
        /\ Descends(outerHistory.best, ModToApply)
        /\ Tail(progressInfo.toApply) = Rest(outerHistory.best, ModToApply)
  BY <1>0, NextInPlace
<1>2. IsStateAt(Append(newState, ModToApply), ModToApply) /\ ModToApply \in Nodes
  BY <1>0, <1>1, ApplicableAt, ParentType
<1>3. /\ newState' = Append(newState, ModToApply) /\ outerHistory' = outerHistory
      /\ progressInfo'.toApply = Tail(progressInfo.toApply)
  BY DEF ApplyModifier, BaseInv, ArgumentsOK, InfoType
<1> DEFINE mod == ModToApply
<1>4. /\ mod \in Nodes /\ IsStateAt(newState', mod) /\ Descends(outerHistory'.best, mod)
      /\ progressInfo'.toApply = Rest(outerHistory'.best, mod)
  BY <1>1, <1>2, <1>3
<1> HIDE DEF mod
<1>. QED  BY <1>4 DEF AtApply

\* A block that is rejected in its place is one that the state does not accept, and the
\* alternative branches off at or below the state.
LEMMA RejectInPlace ==
    ASSUME BaseInv, AtApply, RejectModifier
    PROVE  AtRollback' /\ ModToApply \in SemInvalid
<1>0. progressInfo.toApply # <<>> /\ ~IsApplicable(newState, ModToApply)
  BY DEF RejectModifier, Applying
<1>1. PICK x \in Nodes :
        /\ IsStateAt(newState, x) /\ ModToApply \in Blocks /\ Parent[ModToApply] = x
        /\ IsApplicable(newState, ModToApply) <=> ModToApply \notin SemInvalid
  BY <1>0, NextInPlace
<1>2. PICK best \in BestBlocksWithout(outerHistory, ModToApply, initialInfo.branchPoint) :
          CallUpdateState(Invalidated(outerHistory, ModToApply, best), newState,
                          ProgressBetween(ChainTo[Parent[ModToApply]], ChainTo[best]), suffix)
  BY DEF RejectModifier
<1>3. outerHistory \in HistoryType /\ initialInfo.branchPoint \in Nodes
  BY DEF BaseInv, HistoriesOK, ArgumentsOK, InfoType
<1>4. best \in Nodes
  BY <1>1, <1>2, <1>3, BestBlockFacts
<1>5. outerHistory'.best = best
  <2>0. ModToApply \in Blocks /\ outerHistory \in HistoryType
    BY <1>1, <1>3, Zenon
  <2>1. Invalidated(outerHistory, ModToApply, best).best = best
    BY <2>0, <1>4, InvalidatedFacts, Zenon
  <2>2. outerHistory' = Invalidated(outerHistory, ModToApply, best)
    BY <1>2, Zenon DEF CallUpdateState
  <2>. QED  BY <2>1, <2>2, Zenon
<1>6. newState' = newState /\ progressInfo' = ProgressBetween(ChainTo[x], ChainTo[best])
  BY <1>1, <1>2 DEF CallUpdateState
<1>. QED  BY <1>0, <1>1, <1>5, <1>6 DEF AtRollback

\* As long as no report to the history has failed: the state between two updates is that
\* of the best chain, an update is on its way to the best chain of its history, only
\* blocks that the state rejects are marked as invalid, and no rollback has failed.
OnlyRejected == /\ history.invalid \subseteq SemInvalid
                /\ outerHistory.invalid \subseteq SemInvalid
                /\ newHistory.invalid \subseteq SemInvalid
InPlace == /\ phase = "rollback" => AtRollback
           /\ phase = "apply" => AtApply
           /\ phase # "failed"
Followed == /\ state = ChainTo[history.best]
            /\ newHistory.best = outerHistory.best
            /\ OnlyRejected /\ InPlace
FollowInv == ~reportFailed => Followed

\* An update that has ended leaves nothing to show.
LEMMA IdleInPlace ==
    ASSUME NoUpdate
    PROVE  /\ newHistory'.best = outerHistory'.best /\ newHistory'.invalid = {}
           /\ outerHistory'.invalid = {} /\ InPlace'
BY DEF NoUpdate, EmptyHistory, InPlace

\* An update starts in place.
LEMMA PmodModifyFollowed ==
    ASSUME BaseInv, Followed, NEW pmod \in Blocks, PmodModify(pmod)
    PROVE  Followed'
<1> DEFINE g == Appended(history, pmod)
           info == AppendProgress(history, pmod)
<1>1. /\ history \in HistoryType /\ g \in HistoryType /\ g.invalid = history.invalid
      /\ g.best = IF IsNewBest(history, pmod) THEN pmod ELSE history.best
  BY AppendedFacts DEF BaseInv, HistoriesOK
<1>2. pmod \in Nodes /\ history.best \in Nodes
  BY <1>1, ParentType DEF HistoryType
<1>3. CASE info.toApply = <<>>
  <2>1. history' = g /\ UNCHANGED <<phase, updateVars, state>> /\ phase = "idle"
    BY <1>3 DEF PmodModify, Idle
  <2>2. ~IsNewBest(history, pmod)
    <3>. SUFFICES ASSUME IsNewBest(history, pmod) PROVE FALSE
      OBVIOUS
    <3>1. info = ProgressBetween(ChainTo[history.best], ChainTo[pmod])
      BY DEF AppendProgress
    <3>2. IsMeet(pmod, history.best, pmod)
      BY <1>2, <1>3, <3>1, ProgressFacts
    <3>3. Height(pmod) <= Height(history.best)
      BY <1>2, <3>2, DescendsElement DEF IsMeet
    <3>. QED  BY <1>2, <3>3, ChainType DEF IsNewBest
  <2>3. history'.best = history.best /\ history'.invalid = history.invalid
    BY <1>1, <2>1, <2>2
  <2>4. OnlyRejected'
    BY <2>1, <2>3 DEF Followed, OnlyRejected, updateVars
  <2>5. InPlace'
    BY <2>1 DEF InPlace
  <2>. QED  BY <2>1, <2>3, <2>4, <2>5 DEF Followed, updateVars
<1>4. CASE info.toApply # <<>>
  <2>1. CallUpdateState(g, state, info, <<>>) /\ UNCHANGED viewVars
    BY <1>4 DEF PmodModify
  <2>2. IsNewBest(history, pmod) /\ info = ProgressBetween(ChainTo[history.best], ChainTo[pmod])
    BY <1>1, <1>4, AppendProgressFacts
  <2>3. /\ outerHistory' = g /\ newHistory' = g /\ newState' = state /\ phase' = "rollback"
        /\ progressInfo' = info /\ state' = state /\ history' = history
    BY <2>1 DEF CallUpdateState, viewVars
  <2>4. IsStateAt(state, history.best)
    BY <1>2, VersionOfChain DEF BaseInv, StatesOK, IsStateAt, Followed
  <2>5. g.best = pmod
    BY <1>1, <2>2
  <2> HIDE DEF g, info
  <2>6. AtRollback'
    BY <1>2, <2>2, <2>3, <2>4, <2>5 DEF AtRollback
  <2>7. InPlace'
    BY <2>3, <2>6 DEF InPlace
  <2>8. OnlyRejected'
    BY <1>1, <2>3 DEF Followed, OnlyRejected
  <2>. QED  BY <2>3, <2>7, <2>8 DEF Followed
<1>. QED  BY <1>3, <1>4

\* Every step whose report succeeds keeps the update in place.
LEMMA NextFollowed ==
    ASSUME BaseInv, Followed, [Next]_vars, ~reportFailed'
    PROVE  Followed'
<1>1. CASE UpdateState
  <2>1. /\ phase = "rollback" /\ phase' = "apply"
        /\ UNCHANGED <<history, state, outerHistory, newHistory>>
    BY <1>1 DEF UpdateState, viewVars
  <2>2. AtApply'
    BY <1>1, <2>1, UpdateStateInPlace DEF Followed, InPlace
  <2>. QED  BY <2>1, <2>2 DEF Followed, InPlace, OnlyRejected
<1>2. CASE RollbackFailed
  <2>1. phase = "rollback" /\ ~CanRollBack(newState, progressInfo.branchPoint)
    BY <1>2 DEF RollbackFailed
  <2>. QED  BY <2>1, RollbackInPlace DEF Followed, InPlace
<1>3. CASE ApplyModifier
  <2>1. phase = "apply" /\ UNCHANGED <<phase, history, state, outerHistory>> /\ progressInfo.toApply # <<>>
    BY <1>3 DEF ApplyModifier, Applying, viewVars
  <2>2. AtApply'
    BY <1>3, <2>1, ApplyInPlace DEF Followed, InPlace
  <2>3. ModToApply \in Blocks /\ newHistory' = MarkedValid(outerHistory, ModToApply)
    BY <1>3, <2>1, ModToApplyType DEF BaseInv, ApplyModifier, MarkedValid
  <2>4. newHistory'.best = outerHistory.best /\ newHistory'.invalid = outerHistory.invalid
    BY <2>3, ReportedValid DEF BaseInv, HistoriesOK
  <2>. QED  BY <2>1, <2>2, <2>4 DEF Followed, InPlace, OnlyRejected
<1>4. CASE RejectModifier
  <2>1. phase = "apply" /\ UNCHANGED <<history, state>> /\ progressInfo.toApply # <<>>
    BY <1>4 DEF RejectModifier, Applying, viewVars
  <2>2. AtRollback' /\ ModToApply \in SemInvalid
    BY <1>4, <2>1, RejectInPlace DEF Followed, InPlace
  <2>3. PICK best \in BestBlocksWithout(outerHistory, ModToApply, initialInfo.branchPoint) :
            CallUpdateState(Invalidated(outerHistory, ModToApply, best), newState,
                            ProgressBetween(ChainTo[Parent[ModToApply]], ChainTo[best]), suffix)
    BY <1>4 DEF RejectModifier
  <2>4. phase' = "rollback" /\ newHistory' = outerHistory'
        /\ outerHistory' = Invalidated(outerHistory, ModToApply, best)
    BY <2>3 DEF CallUpdateState
  <2>5. outerHistory \in HistoryType /\ initialInfo.branchPoint \in Nodes /\ ModToApply \in Blocks
    BY <2>1, ModToApplyType DEF BaseInv, HistoriesOK, ArgumentsOK, InfoType
  <2>6. best \in Nodes
    BY <2>3, <2>5, BestBlockFacts
  <2>7. outerHistory'.invalid = outerHistory.invalid \cup {ModToApply}
    <3>1. Invalidated(outerHistory, ModToApply, best).invalid = outerHistory.invalid \cup {ModToApply}
      BY <2>5 DEF Invalidated, HistoryType
    <3>. QED  BY <2>4, <3>1
  <2>8. OnlyRejected'
    BY <2>1, <2>2, <2>4, <2>7 DEF Followed, OnlyRejected
  <2>. QED  BY <2>1, <2>2, <2>4, <2>8 DEF Followed, InPlace
<1>5. CASE UpdateNodeView
  <2>1. phase = "apply" /\ progressInfo.toApply = <<>> /\ history' = newHistory /\ state' = newState /\ NoUpdate
    BY <1>5 DEF UpdateNodeView
  <2>2. PICK x \in Nodes :
            /\ IsStateAt(newState, x) /\ Descends(outerHistory.best, x)
            /\ progressInfo.toApply = Rest(outerHistory.best, x)
    BY <2>1 DEF Followed, InPlace, AtApply
  <2>3. outerHistory.best \in Nodes
    BY DEF BaseInv, HistoriesOK, HistoryType
  <2>4. outerHistory.best = x
    BY <2>1, <2>2, <2>3, RestIsEmpty
  <2>5. state' = ChainTo[history'.best]
    BY <2>1, <2>2, <2>4 DEF Followed, IsStateAt
  <2>6. history'.invalid \subseteq SemInvalid
    BY <2>1 DEF Followed, OnlyRejected
  <2>. QED  BY <2>1, <2>5, <2>6, IdleInPlace DEF Followed, OnlyRejected
<1>6. CASE ReportFails
  BY <1>6 DEF ReportFails
<1>7. CASE \E pmod \in Blocks : PmodModify(pmod)
  BY <1>7, PmodModifyFollowed
<1>8. CASE (\E tx \in Txs : TxModify(tx) \/ EliminateTransactions(tx)) \/ UNCHANGED vars
  <2>1. UNCHANGED <<history, state, phase, updateVars>>
    BY <1>8 DEF TxModify, EliminateTransactions, vars, viewVars
  <2>. QED  BY <2>1 DEF Followed, OnlyRejected, InPlace, AtRollback, AtApply, updateVars
<1>. QED  BY <1>1, <1>2, <1>3, <1>4, <1>5, <1>6, <1>7, <1>8 DEF Next, Update

\* A report that has failed is not forgotten.
LEMMA FailureStays ==
    ASSUME BaseInv, [Next]_vars, ~reportFailed'
    PROVE  ~reportFailed
BY DEF Next, Update, UpdateState, RollbackFailed, ApplyModifier, RejectModifier, UpdateNodeView,
       ReportFails, PmodModify, TxModify, EliminateTransactions, vars

\* The invariants hold for ever.
LEMMA AlwaysFollow == Spec => [](BaseInv /\ FollowInv)
<1>1. Init => FollowInv
  BY ChainGenesis DEF Init, FollowInv, Followed, OnlyRejected, InPlace, EmptyHistory
<1>2. BaseInv /\ FollowInv /\ [Next]_vars => FollowInv'
  BY FailureStays, NextFollowed DEF FollowInv
<1>. QED  BY <1>1, <1>2, AlwaysBase, PTL DEF Spec

\* For every tree of blocks and every choice of the history among the alternatives, the
\* state between two messages is the result of the history's best chain.
THEOREM StateAlwaysFollowsHistory == Spec => []StateFollowsHistory
<1>1. FollowInv => StateFollowsHistory
  BY DEF FollowInv, Followed, StateFollowsHistory
<1>. QED  BY <1>1, AlwaysFollow, PTL

\* The history is never told that a block is invalid which only was applied in the
\* wrong place.
THEOREM OnlyInvalidAlwaysRejected == Spec => []OnlyInvalidIsRejected
<1>1. FollowInv => OnlyInvalidIsRejected
  BY DEF FollowInv, Followed, OnlyRejected, OnlyInvalidIsRejected
<1>. QED  BY <1>1, AlwaysFollow, PTL

\* updateState's unimplemented branch after a failed rollback is out of reach while the
\* history's reports succeed: the branch point is always on the state's own chain.
THEOREM RollbackNeverFails == Spec => [](phase = "failed" => reportFailed)
<1>1. FollowInv => (phase = "failed" => reportFailed)
  BY DEF FollowInv, Followed, InPlace
<1>. QED  BY <1>1, AlwaysFollow, PTL

-----------------------------------------------------------------------------
(* The vault                                                               *)

Updating == phase \in {"rollback", "apply"}
Switching == ChainSwitchingNeeded(initialInfo)
Base == initialInfo.branchPoint

\* The first progress of an update leads away from the best chain of the node view.
FirstProgress ==
    /\ initialInfo.toApply # <<>>
    /\ \E y \in Nodes : initialInfo = ProgressBetween(ChainTo[history.best], ChainTo[y])

\* newState is what the vault will be: the chain to the first branch point and the
\* blocks applied since.
OnTop == /\ CanRollBack(state, Base)
         /\ \E x \in Nodes : IsStateAt(newState, x) /\ Descends(x, Base)
         /\ newState = ChainTo[Base] \o suffix

\* A switch of chains, at the first call of updateState and at the later ones.
FirstCall == /\ newState = state /\ suffix = <<>>
             /\ progressInfo = initialInfo
             /\ Descends(outerHistory.best, Base)
             /\ initialInfo.toApply = Rest(outerHistory.best, Base)
LaterCall == /\ AtRollback /\ OnTop
             /\ progressInfo.toRemove # <<>> => progressInfo.branchPoint = Base
SwitchInv == /\ phase = "rollback" => FirstCall \/ LaterCall
             /\ phase = "apply" => AtApply /\ OnTop

\* Without a switch, an update applies the new block or nothing.
NewBlock == \E p \in Blocks :
                /\ progressInfo.toApply = <<p>> /\ Parent[p] = Base /\ Base = history.best
                /\ outerHistory.blocks = history.blocks \cup {p}
                /\ outerHistory.invalid = history.invalid
ExtendInv == /\ newState = state \o suffix
             /\ progressInfo.toRemove = <<>>
             /\ progressInfo.toApply # <<>> => NewBlock

UpdateInv == FirstProgress /\ (Switching => SwitchInv) /\ (~Switching => ExtendInv)
VaultInv == vault = state /\ (Updating => UpdateInv)

\* A switch begins at a fork.
LEMMA BaseIsFork ==
    ASSUME BaseInv, FirstProgress, Switching
    PROVE  IsFork(Base) /\ Base \in Nodes
<1>1. PICK y \in Nodes : initialInfo = ProgressBetween(ChainTo[history.best], ChainTo[y])
  BY DEF FirstProgress
<1>2. history.best \in Nodes
  BY DEF BaseInv, HistoriesOK, HistoryType
<1>3. IsMeet(Base, history.best, y) /\ Base # history.best /\ Base # y
  BY <1>1, <1>2, ProgressFacts DEF Base, FirstProgress, Switching, ChainSwitchingNeeded
<1>. QED  BY <1>1, <1>2, <1>3, MeetIsFork DEF IsMeet

\* A block that the state rejects after a switch leaves two ways: on from its parent, or
\* back to the fork where the switch began.
LEMMA RejectBranchesAtBase ==
    ASSUME BaseInv, OneForkBelowRejected, AtApply, FirstProgress, Switching, OnTop, RejectModifier
    PROVE  progressInfo'.toRemove # <<>> => progressInfo'.branchPoint = Base
<1> DEFINE mod == ModToApply
<1>0. progressInfo.toApply # <<>>
  BY DEF RejectModifier, Applying
<1>1. PICK x \in Nodes :
        /\ IsStateAt(newState, x) /\ Descends(outerHistory.best, x)
        /\ mod \in Blocks /\ Parent[mod] = x
  BY <1>0, NextInPlace
<1>2. Descends(x, Base)
  BY <1>1, VersionOfChain DEF OnTop, IsStateAt
<1>3. mod \in SemInvalid
  BY RejectInPlace
<1>4. PICK best \in BestBlocksWithout(outerHistory, mod, Base) :
          CallUpdateState(Invalidated(outerHistory, mod, best), newState,
                          ProgressBetween(ChainTo[Parent[mod]], ChainTo[best]), suffix)
  BY DEF RejectModifier, Base
<1>5. outerHistory \in HistoryType /\ HistoryOK(outerHistory) /\ outerHistory.best \in Nodes
  BY DEF BaseInv, HistoriesOK, HistoryType
<1>6. IsFork(Base) /\ Base \in Nodes
  BY BaseIsFork
<1> HIDE DEF mod
<1>7. /\ best \in Nodes
      /\ \A other \in outerHistory.blocks \cup {Genesis} :
            Descends(other, Base) /\ Sound(outerHistory, other) /\ ~Descends(other, mod)
                => Height(other) <= Height(best)
  BY <1>1, <1>4, <1>5, <1>6, BestBlockFacts
<1>8. x \in outerHistory.blocks \cup {Genesis}
  <2>1. CASE x = Genesis
    BY <2>1
  <2>2. CASE x # Genesis
    <3>1. x \in Blocks /\ outerHistory.best # Genesis
      BY <1>1, <2>2, ChainGenesis, ProperDescendant, NodeViewAssumption DEF Nodes
    <3>. QED  BY <1>1, <1>5, <3>1 DEF HistoryOK, Known, Closed
  <2>. QED  BY <2>1, <2>2
<1>9. Sound(outerHistory, x)
  BY <1>1, <1>5, SoundBelow DEF HistoryOK
<1>10. ~Descends(x, mod)
  <2>1. Height(mod) = Height(x) + 1 /\ mod \in Nodes /\ Height(x) \in Nat
    BY <1>1, DescendsFromParent, ChainType
  <2>. QED  BY <1>1, <2>1, DescendsElement
<1>11. Height(x) <= Height(best)
  BY <1>2, <1>7, <1>8, <1>9, <1>10
<1> DEFINE info == ProgressBetween(ChainTo[x], ChainTo[best])
<1>12. progressInfo' = info
  BY <1>1, <1>4 DEF CallUpdateState
<1>13. IsMeet(info.branchPoint, x, best) /\ (info.toRemove = <<>> <=> info.branchPoint = x)
  BY <1>1, <1>7, ProgressFacts
<1> HIDE DEF info
<1>14. ASSUME info.toRemove # <<>>
       PROVE  info.branchPoint = Base
  <2> DEFINE m == info.branchPoint
  <2>1. m # x /\ m \in Nodes /\ Descends(x, m) /\ IsMeet(m, x, best)
    BY <1>13, <1>14 DEF IsMeet
  <2>2. m # best
    <3>1. Descends(x, best) /\ x # best => Height(best) < Height(x)
      BY <1>1, <1>7, ProperDescendant
    <3>. QED  BY <1>1, <1>7, <1>11, <2>1, <3>1, ChainType
  <2>3. IsFork(m)
    BY <1>1, <1>7, <2>1, <2>2, MeetIsFork
  <2> HIDE DEF m
  <2>4. m \in {Genesis} \cup ToSet(ChainTo[x]) /\ Base \in {Genesis} \cup ToSet(ChainTo[x])
    BY <1>1, <1>2, <1>6, <2>1, InChain DEF Nodes
  <2>5. m = Base
    BY <1>1, <1>3, <1>6, <2>3, <2>4 DEF OneForkBelowRejected
  <2>. QED  BY <2>5 DEF m
<1>. QED  BY <1>12, <1>14

\* Extending a concatenation extends its second part.
LEMMA ExtendConcat ==
    ASSUME NEW s \in Seq(Blocks), NEW t \in Seq(Blocks), NEW b \in Blocks
    PROVE  Append(s \o t, b) = s \o Append(t, b)
<1>1. Append(s \o t, b) = (s \o t) \o <<b>> /\ Append(t, b) = t \o <<b>> /\ s \o t \in Seq(Blocks)
  BY AppendIsConcat, ConcatProperties
<1>2. <<b>> \in Seq(Blocks)
  OBVIOUS
<1>. QED  BY <1>1, <1>2, ConcatAssociative

\* What was applied on top of the base is the way from it.
LEMMA SuffixIsRest ==
    ASSUME BaseInv, OnTop, Base \in Nodes
    PROVE  TrimChainSuffix(suffix, Base) = <<>>
<1>1. PICK x \in Nodes : IsStateAt(newState, x) /\ Descends(x, Base)
  BY DEF OnTop
<1>2. /\ ChainTo[Base] \in Seq(Blocks) /\ suffix \in Seq(Blocks) /\ Rest(x, Base) \in Seq(Blocks)
      /\ ChainTo[Base] \o suffix = ChainTo[Base] \o Rest(x, Base)
  BY <1>1, ChainType, RestElements, RestCompletes DEF BaseInv, ArgumentsOK, OnTop, IsStateAt
<1>3. suffix = Rest(x, Base)
  BY <1>2, ConcatSimplifications
<1>. QED  BY <1>1, <1>3, TrimRest

\* After a rollback to the base of the update nothing is on top of it.
LEMMA RolledBackToBase ==
    ASSUME BaseInv, Base \in Nodes, NEW s, s = ChainTo[Base], IsStateAt(s, Base), CanRollBack(state, Base),
           newState' = s, suffix' = <<>>, state' = state, initialInfo' = initialInfo
    PROVE  OnTop'
<1>1. ChainTo[Base] \o <<>> = ChainTo[Base]
  BY ChainType, ConcatEmptySeq
<1>2. Base' = Base
  BY DEF Base
<1>3. Descends(Base, Base)
  BY DescendsFromItself
<1>. QED  BY <1>1, <1>2, <1>3 DEF OnTop

\* An update starts with nothing on top of the vault.
LEMMA PmodModifyUpdate ==
    ASSUME BaseInv, NEW pmod \in Blocks, PmodModify(pmod), Updating'
    PROVE  UpdateInv'
<1> DEFINE info == AppendProgress(history, pmod)
           g == Appended(history, pmod)
<1>1. /\ history \in HistoryType /\ HistoryOK(history) /\ history.best \in Nodes /\ pmod \in Nodes
      /\ g.blocks = history.blocks \cup {pmod} /\ g.invalid = history.invalid
      /\ g.best = IF IsNewBest(history, pmod) THEN pmod ELSE history.best
  BY AppendedFacts DEF BaseInv, HistoriesOK
<1>2. info.toApply # <<>>
  BY DEF PmodModify, Updating, Idle
<1>3. /\ initialInfo' = info /\ CallUpdateState(g, state, info, <<>>) /\ UNCHANGED viewVars
      /\ pmod \notin history.blocks /\ Parent[pmod] \in history.blocks \cup {Genesis}
  BY <1>2 DEF PmodModify
<1>4. IsNewBest(history, pmod) /\ info = ProgressBetween(ChainTo[history.best], ChainTo[pmod])
  BY <1>1, <1>2, AppendProgressFacts
<1> DEFINE m == info.branchPoint
<1>5. /\ IsMeet(m, history.best, pmod) /\ info.toApply = Rest(pmod, m) /\ m # pmod
      /\ info.toRemove = <<>> => m = history.best
  BY <1>1, <1>2, <1>4, ProgressFacts
<1>6. m \in Nodes /\ Descends(pmod, m)
  BY <1>5 DEF IsMeet
<1>7. /\ outerHistory' = g /\ newState' = state /\ state' = state /\ history' = history
      /\ suffix' = <<>> /\ progressInfo' = info /\ phase' = "rollback" /\ initialInfo' = info
  BY <1>3 DEF CallUpdateState, viewVars
<1>8. Base' = m /\ outerHistory'.best = pmod
  BY <1>1, <1>4, <1>7 DEF Base
<1> HIDE DEF info, g, m
<1>9. FirstProgress'
  BY <1>1, <1>2, <1>4, <1>7 DEF FirstProgress
<1>10. FirstCall'
  BY <1>5, <1>6, <1>7, <1>8 DEF FirstCall
<1>11. SwitchInv'
  BY <1>7, <1>10 DEF SwitchInv
<1>12. ASSUME info.toRemove = <<>>
       PROVE  ExtendInv'
  <2>1. m = history.best
    BY <1>5, <1>12
  <2>2. Parent[pmod] = m
    <3>1. Descends(Parent[pmod], m) /\ Parent[pmod] \in Nodes /\ Descends(pmod, Parent[pmod])
      BY <1>1, <1>5, <1>6, ProperDescendant, DescendsFromParent
    <3>2. Sound(history, pmod)
      BY <1>1, <1>4, SoundIff DEF IsNewBest
    <3>3. Sound(history, Parent[pmod])
      BY <1>1, <3>1, <3>2, SoundBelow
    <3>4. CASE Parent[pmod] \in history.blocks
      BY <1>1, <2>1, <3>1, <3>3, <3>4 DEF HistoryOK, Leaf
    <3>5. CASE Parent[pmod] = Genesis
      BY <1>6, <3>1, <3>5, ProperDescendant, NodeViewAssumption
    <3>. QED  BY <1>3, <3>4, <3>5
  <2>3. info.toApply = <<pmod>>
    <3>1. Head(Rest(pmod, m)) = pmod
      <4>1. PICK n \in Nodes : n = Head(Rest(pmod, m)) /\ Parent[n] = m /\ Descends(pmod, n) /\ Height(n) = Height(m) + 1
        BY <1>1, <1>2, <1>5, <1>6, RestHead
      <4>2. Height(pmod) = Height(n) /\ Descends(pmod, pmod)
        BY <1>1, <2>2, <4>1, ChainElements, DescendsFromItself
      <4>. QED  BY <1>1, <4>1, <4>2, AncestorsInLine, ChainType
    <3>2. Tail(Rest(pmod, m)) = <<>>
      <4>1. Tail(Rest(pmod, m)) = Rest(pmod, pmod)
        BY <1>1, <1>2, <1>5, <1>6, <3>1, RestHead
      <4>2. Rest(pmod, pmod) = <<>>
        BY <1>1, DescendsFromItself, RestIsEmpty
      <4>. QED  BY <4>1, <4>2
    <3>3. Rest(pmod, m) \in Seq(Blocks) /\ Rest(pmod, m) # <<>>
      BY <1>1, <1>2, <1>5, <1>6, RestElements
    <3> DEFINE s == Rest(pmod, m)
    <3>4. s = <<pmod>>
      <4>1. s \in Seq(Blocks) /\ s # <<>> /\ Head(s) = pmod /\ Tail(s) = <<>>
        BY <3>1, <3>2, <3>3
      <4> HIDE DEF s
      <4>2. s = <<Head(s)>> \o Tail(s)
        BY <4>1
      <4>. QED  BY <4>1, <4>2
    <3>. QED  BY <1>5, <3>4
  <2>4. NewBlock'
    BY <1>1, <1>7, <1>8, <2>1, <2>2, <2>3 DEF NewBlock
  <2>5. state \o <<>> = state
    BY ChainType, ConcatEmptySeq DEF BaseInv, StatesOK, IsStateAt
  <2>. QED  BY <1>7, <1>12, <2>4, <2>5 DEF ExtendInv
<1>13. Switching' <=> info.toRemove # <<>>
  BY <1>7 DEF Switching, ChainSwitchingNeeded
<1>. QED  BY <1>9, <1>11, <1>12, <1>13 DEF UpdateInv

\* The rollback leaves, on top of the base, what trimChainSuffix keeps.
LEMMA UpdateStateUpdate ==
    ASSUME BaseInv, UpdateInv, UpdateState
    PROVE  UpdateInv'
<1>0. /\ phase = "rollback" /\ phase' = "apply"
      /\ UNCHANGED <<history, state, initialInfo, outerHistory, progressInfo>>
  BY DEF UpdateState, viewVars
<1>1. FirstProgress' /\ Base' = Base /\ (Switching' <=> Switching)
  BY <1>0 DEF UpdateInv, FirstProgress, Base, Switching
<1>2. CASE ~Switching
  <2>1. newState' = newState /\ suffix' = suffix
    BY <1>2 DEF UpdateState, UpdateInv, ExtendInv, ChainSwitchingNeeded
  <2>2. NewBlock => NewBlock'
    BY <1>0, <1>1 DEF NewBlock
  <2>3. ExtendInv
    BY <1>2 DEF UpdateInv
  <2>4. ExtendInv'
    BY <1>0, <2>1, <2>2, <2>3 DEF ExtendInv
  <2>. QED  BY <1>1, <1>2, <2>4 DEF UpdateInv
<1>3. CASE Switching
  <2>0. Base \in Nodes /\ outerHistory.best \in Nodes
    BY <1>3, BaseIsFork DEF UpdateInv, BaseInv, HistoriesOK, HistoryType
  <2>1. PICK x \in Nodes : IsStateAt(newState, x) /\ VersionOf(newState) = x
    BY VersionOfChain DEF BaseInv, StatesOK, IsStateAt
  <2>2. ASSUME progressInfo.branchPoint = Base, progressInfo.toRemove # <<>>,
               TrimChainSuffix(suffix, Base) = <<>>, newState = state \/ CanRollBack(state, Base)
        PROVE  IsStateAt(newState', Base) /\ OnTop'
    <3>1. CASE VersionOf(newState) = Base
      <4>1. newState' = newState /\ suffix' = <<>>
        BY <2>2, <3>1 DEF UpdateState, ChainSwitchingNeeded
      <4>2. x = Base /\ Descends(Base, Base)
        BY <2>0, <2>1, <3>1, DescendsFromItself
      <4>3. CanRollBack(state, Base)
        BY <2>0, <2>1, <2>2, <4>2, RollBackAt
      <4>. QED  BY <1>0, <2>0, <2>1, <4>1, <4>2, <4>3, RolledBackToBase DEF IsStateAt
    <3>2. CASE VersionOf(newState) # Base
      <4>1. newState' = RolledBack(newState, Base) /\ suffix' = <<>> /\ CanRollBack(newState, Base)
        BY <2>2, <3>2 DEF UpdateState, ChainSwitchingNeeded
      <4>2. IsStateAt(newState', Base)
        BY <2>0, <2>1, <4>1, RollBackAt
      <4>3. CanRollBack(state, Base)
        BY <2>2, <4>1
      <4>. QED  BY <1>0, <2>0, <4>1, <4>2, <4>3, RolledBackToBase DEF IsStateAt
    <3>. QED  BY <3>1, <3>2
  <2>3. CASE FirstCall
    <3>1. TrimChainSuffix(<<>>, Base) = <<>>
      BY DEF TrimChainSuffix
    <3>2. IsStateAt(newState', Base) /\ OnTop'
      BY <1>3, <2>2, <2>3, <3>1 DEF FirstCall, Base, Switching, ChainSwitchingNeeded
    <3>3. AtApply'
      BY <1>0, <2>0, <2>3, <3>2 DEF FirstCall, AtApply
    <3>. QED  BY <1>0, <1>1, <1>3, <3>2, <3>3 DEF UpdateInv, SwitchInv
  <2>4. CASE LaterCall
    <3>1. AtApply'
      BY <2>4, UpdateStateInPlace DEF LaterCall
    <3>2. CASE progressInfo.toRemove = <<>>
      <4>1. newState' = newState /\ suffix' = suffix
        BY <3>2 DEF UpdateState, ChainSwitchingNeeded
      <4>2. OnTop'
        BY <1>0, <1>1, <2>4, <4>1 DEF LaterCall, OnTop
      <4>. QED  BY <1>0, <1>1, <1>3, <3>1, <4>2 DEF UpdateInv, SwitchInv
    <3>3. CASE progressInfo.toRemove # <<>>
      <4>1. TrimChainSuffix(suffix, Base) = <<>>
        BY <2>0, <2>4, SuffixIsRest DEF LaterCall
      <4>2. OnTop'
        BY <2>2, <2>4, <3>3, <4>1 DEF LaterCall, OnTop
      <4>. QED  BY <1>0, <1>1, <1>3, <3>1, <4>2 DEF UpdateInv, SwitchInv
    <3>. QED  BY <3>2, <3>3
  <2>. QED  BY <1>0, <1>3, <2>3, <2>4 DEF UpdateInv, SwitchInv
<1>. QED  BY <1>2, <1>3

\* Applying a block adds it to both.
LEMMA ApplyModifierUpdate ==
    ASSUME BaseInv, UpdateInv, ApplyModifier
    PROVE  UpdateInv'
<1> DEFINE mod == ModToApply
<1>0. /\ phase = "apply" /\ phase' = "apply" /\ progressInfo.toApply # <<>>
      /\ UNCHANGED <<history, state, initialInfo, outerHistory>>
      /\ newState' = Append(newState, mod) /\ suffix' = Append(suffix, mod)
      /\ IsApplicable(newState, mod)
  BY DEF ApplyModifier, Applying, viewVars
<1>1. FirstProgress' /\ Base' = Base /\ (Switching' <=> Switching)
  BY <1>0 DEF UpdateInv, FirstProgress, Base, Switching
<1>2. mod \in Blocks /\ suffix \in Seq(Blocks)
  BY <1>0, ModToApplyType DEF BaseInv, ArgumentsOK
<1>3. CASE ~Switching
  <2>1. state \in Seq(Blocks)
    BY ChainType DEF BaseInv, StatesOK, IsStateAt
  <2>2. newState' = state \o suffix'
    BY <1>0, <1>2, <1>3, <2>1, ExtendConcat DEF UpdateInv, ExtendInv
  <2>3. /\ progressInfo'.toApply = Tail(progressInfo.toApply)
        /\ progressInfo'.toRemove = progressInfo.toRemove
    BY DEF ApplyModifier, BaseInv, ArgumentsOK, InfoType
  <2>4. PICK p \in Blocks : progressInfo.toApply = <<p>>
    BY <1>0, <1>3 DEF UpdateInv, ExtendInv, NewBlock
  <2>5. Tail(<<p>>) = <<>>
    OBVIOUS
  <2>6. progressInfo'.toApply = <<>>
    BY <2>3, <2>4, <2>5
  <2>7. ExtendInv'
    BY <1>0, <1>3, <2>2, <2>3, <2>6 DEF UpdateInv, ExtendInv
  <2>. QED  BY <1>1, <1>3, <2>7 DEF UpdateInv
<1>4. CASE Switching
  <2>1. AtApply /\ OnTop /\ Base \in Nodes
    BY <1>0, <1>4, BaseIsFork DEF UpdateInv, SwitchInv
  <2>2. AtApply'
    BY <2>1, ApplyInPlace
  <2>3. PICK x \in Nodes : IsStateAt(newState, x) /\ Descends(x, Base)
    BY <2>1 DEF OnTop
  <2>4. Parent[mod] = x /\ IsStateAt(newState', mod)
    BY <1>0, <1>2, <2>3, ApplicableAt
  <2>5. Descends(mod, Base) /\ mod \in Nodes
    BY <1>2, <2>1, <2>3, <2>4, DescendsFromParent, DescendsTransitive
  <2>6. newState' = ChainTo[Base] \o suffix'
    BY <1>0, <1>2, <2>1, ExtendConcat, ChainType DEF OnTop
  <2>7. OnTop'
    BY <1>0, <1>1, <2>1, <2>4, <2>5, <2>6 DEF OnTop
  <2>. QED  BY <1>0, <1>1, <1>4, <2>2, <2>7 DEF UpdateInv, SwitchInv
<1>. QED  BY <1>3, <1>4

\* With one fork below the rejected block, the alternative branches off at the base, so
\* that trimChainSuffix has to keep nothing.
LEMMA RejectModifierUpdate ==
    ASSUME BaseInv, OneForkBelowRejected, UpdateInv, RejectModifier
    PROVE  UpdateInv'
<1> DEFINE mod == ModToApply
<1>0. /\ phase = "apply" /\ progressInfo.toApply # <<>>
      /\ UNCHANGED <<history, state, initialInfo>>
  BY DEF RejectModifier, Applying, viewVars
<1>1. FirstProgress' /\ Base' = Base /\ (Switching' <=> Switching)
  BY <1>0 DEF UpdateInv, FirstProgress, Base, Switching
<1>2. PICK best \in BestBlocksWithout(outerHistory, mod, Base) :
          CallUpdateState(Invalidated(outerHistory, mod, best), newState,
                          ProgressBetween(ChainTo[Parent[mod]], ChainTo[best]), suffix)
  BY DEF RejectModifier, Base
<1>3. newState' = newState /\ suffix' = suffix /\ phase' = "rollback"
      /\ progressInfo' = ProgressBetween(ChainTo[Parent[mod]], ChainTo[best])
  BY <1>2 DEF CallUpdateState
<1>4. CASE ~Switching
  <2>1. PICK p \in Blocks :
            /\ progressInfo.toApply = <<p>> /\ Parent[p] = Base /\ Base = history.best
            /\ outerHistory.blocks = history.blocks \cup {p}
            /\ outerHistory.invalid = history.invalid
    BY <1>0, <1>4 DEF UpdateInv, ExtendInv, NewBlock
  <2>2. mod = p
    BY <2>1 DEF ModToApply
  <2>3. outerHistory \in HistoryType /\ HistoryOK(history) /\ Base \in Nodes
    BY DEF BaseInv, HistoriesOK, ArgumentsOK, InfoType, Base
  <2> HIDE DEF mod
  <2>4. /\ best \in outerHistory.blocks \cup {Genesis} /\ best \in Nodes
        /\ Descends(best, Base) /\ Sound(outerHistory, best) /\ ~Descends(best, p)
    BY <1>2, <2>2, <2>3, BestBlockFacts
  <2>5. best # p
    BY <2>4, DescendsFromItself
  <2>6. best = Base
    <3>1. CASE best = Genesis
      BY <2>3, <2>4, <3>1, ProperDescendant, NodeViewAssumption
    <3>2. CASE best \in history.blocks
      BY <2>1, <2>3, <2>4, <3>2 DEF HistoryOK, Leaf, Sound
    <3>. QED  BY <2>1, <2>4, <2>5, <3>1, <3>2
  <2>7. progressInfo' = ProgressBetween(ChainTo[Base], ChainTo[Base])
    BY <1>3, <2>1, <2>2, <2>6
  <2>8. IsMeet(Base, Base, Base)
    BY <2>3, DescendsFromItself, DescendsElement DEF IsMeet
  <2>9. progressInfo'.branchPoint = Base
    BY <2>3, <2>7, <2>8, ProgressFacts, MeetUnique
  <2>10. progressInfo'.toRemove = <<>> /\ progressInfo'.toApply = <<>>
    BY <2>3, <2>7, <2>9, ProgressFacts
  <2>11. ExtendInv'
    BY <1>0, <1>3, <1>4, <2>10 DEF UpdateInv, ExtendInv
  <2>. QED  BY <1>1, <1>4, <2>11 DEF UpdateInv
<1>5. CASE Switching
  <2>1. AtApply /\ OnTop /\ FirstProgress
    BY <1>0, <1>5 DEF UpdateInv, SwitchInv
  <2>2. AtRollback'
    BY <2>1, RejectInPlace
  <2>3. progressInfo'.toRemove # <<>> => progressInfo'.branchPoint = Base
    BY <1>5, <2>1, RejectBranchesAtBase
  <2>4. OnTop'
    BY <1>0, <1>1, <1>3, <2>1 DEF OnTop
  <2>5. LaterCall'
    BY <1>1, <2>2, <2>3, <2>4 DEF LaterCall
  <2>. QED  BY <1>1, <1>3, <1>5, <2>5 DEF UpdateInv, SwitchInv
<1>. QED  BY <1>4, <1>5

\* The vault rolled back to the base, with the blocks applied since, is the new state.
LEMMA VaultUpdated ==
    ASSUME BaseInv, VaultInv, UpdateNodeView
    PROVE  UpdatedVault = newState
<1>0. phase = "apply" /\ UpdateInv /\ vault = state
  BY DEF UpdateNodeView, VaultInv, Updating
<1>1. CASE Switching
  <2>1. OnTop /\ Base \in Nodes
    BY <1>0, <1>1, BaseIsFork DEF UpdateInv, SwitchInv
  <2>2. PICK v \in Nodes : IsStateAt(state, v)
    BY DEF BaseInv, StatesOK
  <2>3. RolledBack(vault, Base) = ChainTo[Base]
    BY <1>0, <2>1, <2>2, RollBackAt DEF OnTop, IsStateAt
  <2>. QED  BY <1>1, <2>1, <2>3 DEF UpdatedVault, OnTop, Switching, Base
<1>2. CASE ~Switching
  BY <1>0, <1>2 DEF UpdatedVault, UpdateInv, ExtendInv, Switching
<1>. QED  BY <1>1, <1>2

\* Every step keeps the vault in step.
LEMMA NextVaultInv ==
    ASSUME BaseInv, OneForkBelowRejected, VaultInv, [Next]_vars
    PROVE  VaultInv'
<1>1. CASE UpdateState
  <2>1. vault' = vault /\ state' = state /\ phase = "rollback"
    BY <1>1 DEF UpdateState, viewVars
  <2>2. UpdateInv'
    BY <1>1, <2>1, UpdateStateUpdate DEF VaultInv, Updating
  <2>. QED  BY <2>1, <2>2 DEF VaultInv
<1>2. CASE RollbackFailed
  BY <1>2 DEF RollbackFailed, VaultInv, Updating, viewVars
<1>3. CASE ApplyModifier
  <2>1. vault' = vault /\ state' = state /\ phase = "apply"
    BY <1>3 DEF ApplyModifier, Applying, viewVars
  <2>2. UpdateInv'
    BY <1>3, <2>1, ApplyModifierUpdate DEF VaultInv, Updating
  <2>. QED  BY <2>1, <2>2 DEF VaultInv
<1>4. CASE RejectModifier
  <2>1. vault' = vault /\ state' = state /\ phase = "apply"
    BY <1>4 DEF RejectModifier, Applying, viewVars
  <2>2. UpdateInv'
    BY <1>4, <2>1, RejectModifierUpdate DEF VaultInv, Updating
  <2>. QED  BY <2>1, <2>2 DEF VaultInv
<1>5. CASE UpdateNodeView
  <2>1. vault' = UpdatedVault /\ state' = newState /\ phase' = "idle"
    BY <1>5 DEF UpdateNodeView, NoUpdate
  <2>. QED  BY <1>5, <2>1, VaultUpdated DEF VaultInv, Updating
<1>6. CASE ReportFails
  BY <1>6 DEF ReportFails, NoUpdate, VaultInv, Updating
<1>7. CASE \E pmod \in Blocks : PmodModify(pmod)
  <2>1. PICK pmod \in Blocks : PmodModify(pmod)
    BY <1>7
  <2>2. vault' = vault /\ state' = state
    BY <2>1 DEF PmodModify, viewVars
  <2>. QED  BY <2>1, <2>2, PmodModifyUpdate DEF VaultInv
<1>8. CASE (\E tx \in Txs : TxModify(tx) \/ EliminateTransactions(tx)) \/ UNCHANGED vars
  <2>1. UNCHANGED <<history, state, vault, phase, updateVars>>
    BY <1>8 DEF TxModify, EliminateTransactions, vars, viewVars
  <2>2. Updating' => Updating
    BY <2>1 DEF Updating
  <2>3. UpdateInv => UpdateInv'
    BY <2>1 DEF UpdateInv, FirstProgress, SwitchInv, FirstCall, LaterCall, OnTop, ExtendInv, NewBlock,
                AtRollback, AtApply, Switching, Base, updateVars
  <2>. QED  BY <2>1, <2>2, <2>3 DEF VaultInv
<1>. QED  BY <1>1, <1>2, <1>3, <1>4, <1>5, <1>6, <1>7, <1>8 DEF Next, Update

\* The invariants hold for ever.
LEMMA AlwaysVault ==
    ASSUME OneForkBelowRejected
    PROVE  Spec => [](BaseInv /\ VaultInv)
<1>1. Init => VaultInv
  BY DEF Init, VaultInv, Updating
<1>2. BaseInv /\ VaultInv /\ [Next]_vars => VaultInv'
  BY NextVaultInv
<1>. QED  BY <1>1, <1>2, AlwaysBase, PTL DEF Spec

\* Where the tree forks once at most below each block that the state rejects, the vault
\* has scanned exactly the blocks of the state, whatever reports fail.
THEOREM VaultAlwaysFollowsState ==
    ASSUME OneForkBelowRejected
    PROVE  Spec => []VaultFollowsState
<1>1. VaultInv => VaultFollowsState
  BY DEF VaultInv, VaultFollowsState
<1>. QED  BY <1>1, AlwaysVault, PTL

\* There, the rollback of the vault that pmodModify takes for granted is possible.
THEOREM VaultCanAlwaysRollBack ==
    ASSUME OneForkBelowRejected
    PROVE  Spec => []VaultCanRollBack
<1>1. VaultInv => VaultCanRollBack
  BY DEF VaultInv, Updating, UpdateInv, SwitchInv, OnTop, Switching, Base, VaultCanRollBack
<1>. QED  BY <1>1, AlwaysVault, PTL

\* The transactions of two parts of a chain.
LEMMA TxsInConcat ==
    ASSUME NEW s \in Seq(Blocks), NEW t \in Seq(Blocks)
    PROVE  TxsIn(s \o t) = TxsIn(s) \cup TxsIn(t)
<1> DEFINE u == s \o t
<1>1. /\ u \in Seq(Blocks) /\ Len(u) = Len(s) + Len(t) /\ Len(s) \in Nat /\ Len(t) \in Nat
      /\ \A i \in 1..Len(u) : u[i] = IF i <= Len(s) THEN s[i] ELSE t[i - Len(s)]
  BY ConcatProperties, LenProperties
<1> HIDE DEF u
<1>2. DOMAIN u = 1..Len(u) /\ DOMAIN s = 1..Len(s) /\ DOMAIN t = 1..Len(t)
  BY <1>1, LenProperties
<1>3. ASSUME NEW tx \in TxsIn(u)
      PROVE  tx \in TxsIn(s) \cup TxsIn(t)
  <2>1. PICK i \in 1..Len(u) : tx \in TxsOf[u[i]]
    BY <1>2 DEF TxsIn
  <2>2. CASE i <= Len(s)
    <3>1. i \in 1..Len(s) /\ u[i] = s[i]
      BY <1>1, <2>2
    <3>. QED  BY <1>2, <2>1, <3>1 DEF TxsIn
  <2>3. CASE ~(i <= Len(s))
    <3>1. i - Len(s) \in 1..Len(t) /\ u[i] = t[i - Len(s)]
      BY <1>1, <2>3
    <3>. QED  BY <1>2, <2>1, <3>1 DEF TxsIn
  <2>. QED  BY <2>2, <2>3
<1>4. ASSUME NEW tx \in TxsIn(s)
      PROVE  tx \in TxsIn(u)
  <2>1. PICK i \in 1..Len(s) : tx \in TxsOf[s[i]]
    BY <1>2 DEF TxsIn
  <2>2. i \in 1..Len(u) /\ u[i] = s[i]
    BY <1>1
  <2>. QED  BY <1>2, <2>1, <2>2 DEF TxsIn
<1>5. ASSUME NEW tx \in TxsIn(t)
      PROVE  tx \in TxsIn(u)
  <2>1. PICK i \in 1..Len(t) : tx \in TxsOf[t[i]]
    BY <1>2 DEF TxsIn
  <2>2. Len(s) + i \in 1..Len(u) /\ ~(Len(s) + i <= Len(s)) /\ (Len(s) + i) - Len(s) = i
    BY <1>1
  <2>3. u[Len(s) + i] = t[i]
    BY <1>1, <2>2
  <2>. QED  BY <1>2, <2>1, <2>2, <2>3 DEF TxsIn
<1>. QED  BY <1>3, <1>4, <1>5 DEF u

\* Below a block are no more transactions.
LEMMA TxsBelow ==
    ASSUME NEW x \in Nodes, NEW m \in Nodes, Descends(x, m)
    PROVE  TxsIn(ChainTo[m]) \subseteq TxsIn(ChainTo[x])
<1>1. ChainTo[m] \o Rest(x, m) = ChainTo[x] /\ ChainTo[m] \in Seq(Blocks) /\ Rest(x, m) \in Seq(Blocks)
  BY RestCompletes, ChainType, RestElements
<1>2. TxsIn(ChainTo[m] \o Rest(x, m)) = TxsIn(ChainTo[m]) \cup TxsIn(Rest(x, m))
  BY <1>1, TxsInConcat
<1>. QED  BY <1>1, <1>2

\* Where no chain carries a transaction twice, what the blocks above m carry is not below.
LEMMA TxsAbove ==
    ASSUME OncePerChain, NEW x \in Nodes, NEW m \in Nodes, Descends(x, m)
    PROVE  TxsIn(Rest(x, m)) \cap TxsIn(ChainTo[m]) = {}
<1> SUFFICES ASSUME NEW tx \in TxsIn(Rest(x, m)), tx \in TxsIn(ChainTo[m]) PROVE FALSE
  OBVIOUS
<1>1. /\ Rest(x, m) \in Seq(Blocks) /\ Len(Rest(x, m)) = Height(x) - Height(m)
      /\ \A i \in 1..(Height(x) - Height(m)) : Rest(x, m)[i] = ChainTo[x][Height(m) + i]
      /\ Height(x) \in Nat /\ Height(m) \in Nat
  BY RestElements, ChainType
<1>2. DOMAIN Rest(x, m) = 1..(Height(x) - Height(m))
  BY <1>1, LenProperties
<1>3. PICK i \in 1..(Height(x) - Height(m)) : tx \in TxsOf[Rest(x, m)[i]]
  BY <1>2 DEF TxsIn
<1>4. PICK b : b = ChainTo[x][Height(m) + i]
  OBVIOUS
<1>5. tx \in TxsOf[b] /\ Height(m) + i \in 1..Height(x) /\ Height(m) + i > Height(m)
  BY <1>1, <1>3, <1>4
<1>6. b \in Blocks /\ Height(b) = Height(m) + i /\ b \in Nodes
  BY <1>4, <1>5, ChainBeginning DEF IsBeginning, Nodes
<1>7. Descends(x, b)
  BY <1>4, <1>5, <1>6, DescendsElement
<1>8. Descends(b, m) /\ b # m
  BY <1>1, <1>5, <1>6, <1>7, AncestorsInLine
<1>9. Descends(Parent[b], m) /\ Parent[b] \in Nodes
  BY <1>6, <1>8, ProperDescendant, ParentType
<1>10. tx \in TxsIn(ChainTo[Parent[b]])
  BY <1>9, TxsBelow
<1>. QED  BY <1>5, <1>6, <1>10 DEF OncePerChain

\* While an update is under way, only its end changes the memory pool or the state.
LEMMA OnlyUpdateChangesPool ==
    ASSUME [Next]_vars, ~Idle, ~UpdateNodeView
    PROVE  UNCHANGED <<mempool, state>>
BY DEF Next, Update, UpdateState, RollbackFailed, ApplyModifier, RejectModifier, ReportFails,
       PmodModify, TxModify, EliminateTransactions, vars, viewVars

\* What an update has in hand when it ends: the old chain and the new one are both on top
\* of the first branch point.
LEMMA UpdateEndsOnBase ==
    ASSUME BaseInv, VaultInv, UpdateNodeView
    PROVE  /\ Base \in Nodes /\ suffix \in Seq(Blocks)
           /\ history.best \in Nodes /\ Descends(history.best, Base)
           /\ initialInfo.toRemove = Rest(history.best, Base)
           /\ TxsIn(newState) \subseteq TxsIn(state) \cup TxsIn(suffix)
           /\ initialInfo.toRemove # <<>> => newState = ChainTo[Base] \o suffix
           /\ initialInfo.toRemove = <<>> => newState = state \o suffix
<1>0. phase = "apply" /\ UpdateInv
  BY DEF UpdateNodeView, VaultInv, Updating
<1>1. PICK y \in Nodes : initialInfo = ProgressBetween(ChainTo[history.best], ChainTo[y])
  BY <1>0 DEF UpdateInv, FirstProgress
<1>2. history.best \in Nodes /\ suffix \in Seq(Blocks)
  BY DEF BaseInv, HistoriesOK, HistoryType, ArgumentsOK
<1>3. Base \in Nodes /\ Descends(history.best, Base) /\ initialInfo.toRemove = Rest(history.best, Base)
  BY <1>1, <1>2, ProgressFacts DEF Base, IsMeet
<1>4. PICK v \in Nodes : IsStateAt(state, v)
  BY DEF BaseInv, StatesOK
<1>5. state = ChainTo[v] /\ ChainTo[v] \in Seq(Blocks) /\ ChainTo[Base] \in Seq(Blocks)
  BY <1>3, <1>4, ChainType DEF IsStateAt
<1>6. CASE Switching
  <2>1. newState = ChainTo[Base] \o suffix /\ CanRollBack(state, Base)
    BY <1>0, <1>6 DEF UpdateInv, SwitchInv, OnTop
  <2>2. Descends(v, Base)
    BY <1>3, <1>5, <2>1, CanRollBackChain
  <2>3. TxsIn(ChainTo[Base]) \subseteq TxsIn(state)
    BY <1>3, <1>5, <2>2, TxsBelow
  <2>4. TxsIn(newState) = TxsIn(ChainTo[Base]) \cup TxsIn(suffix)
    BY <1>2, <1>5, <2>1, TxsInConcat
  <2>. QED  BY <1>2, <1>3, <1>6, <2>1, <2>3, <2>4 DEF Switching, ChainSwitchingNeeded
<1>7. CASE ~Switching
  <2>1. newState = state \o suffix
    BY <1>0, <1>7 DEF UpdateInv, ExtendInv
  <2>2. TxsIn(newState) = TxsIn(state) \cup TxsIn(suffix)
    BY <1>2, <1>5, <2>1, TxsInConcat
  <2>. QED  BY <1>2, <1>3, <1>7, <2>1, <2>2 DEF Switching, ChainSwitchingNeeded
<1>. QED  BY <1>6, <1>7

\* A step loses no transaction: what leaves the state comes back to the memory pool.
LEMMA StepLosesNothing ==
    ASSUME HandlingTransactionsEnabled, BaseInv, FollowInv, VaultInv, [Next]_vars, ~Idle, ~reportFailed
    PROVE  mempool \cup TxsIn(state) \subseteq (mempool \cup TxsIn(state))'
<1>1. CASE UpdateNodeView
  <2> DEFINE removed == initialInfo.toRemove
  <2>0. state' = newState /\ mempool' = UpdateMemPool(removed, suffix, mempool, newState)
    BY <1>1 DEF UpdateNodeView
  <2>1. /\ Base \in Nodes /\ suffix \in Seq(Blocks)
        /\ history.best \in Nodes /\ Descends(history.best, Base) /\ removed = Rest(history.best, Base)
        /\ removed # <<>> => newState = ChainTo[Base] \o suffix
        /\ removed = <<>> => newState = state \o suffix
    BY <1>1, UpdateEndsOnBase
  <2>2. state = ChainTo[history.best]
    BY DEF FollowInv, Followed
  <2>3. /\ state = ChainTo[Base] \o removed
        /\ ChainTo[Base] \in Seq(Blocks) /\ removed \in Seq(Blocks)
    BY <2>1, <2>2, RestCompletes, ChainType, RestElements
  <2> HIDE DEF removed
  <2>4. newState = ChainTo[Base] \o suffix
    BY <2>1, <2>3, ConcatEmptySeq
  <2>5. /\ TxsIn(state) = TxsIn(ChainTo[Base]) \cup TxsIn(removed)
        /\ TxsIn(newState) = TxsIn(ChainTo[Base]) \cup TxsIn(suffix)
    BY <2>1, <2>3, <2>4, TxsInConcat
  <2>6. /\ mempool' = (mempool \cup TxsIn(removed)) \ (TxsIn(suffix) \cup RefusedBy(newState))
        /\ RefusedBy(newState) \subseteq TxsIn(newState)
    BY <2>0 DEF UpdateMemPool, RefusedBy
  <2>7. TxsIn(state)' = TxsIn(newState)
    BY <2>0 DEF TxsIn
  <2>. QED  BY <2>5, <2>6, <2>7
<1>2. CASE UNCHANGED <<mempool, state>>
  BY <1>2 DEF TxsIn
<1>3. ~UpdateNodeView => UNCHANGED <<mempool, state>>
  BY OnlyUpdateChangesPool
<1>. QED  BY <1>1, <1>2, <1>3

\* There, on a node that handles transactions, no update makes a transaction disappear
\* both from the chain and from the memory pool.
THEOREM NoTransactionIsEverLost ==
    ASSUME OneForkBelowRejected, HandlingTransactionsEnabled
    PROVE  Spec => NoTransactionIsLost
<1> DEFINE Kept == ~Idle /\ ~reportFailed => mempool \cup TxsIn(state) \subseteq (mempool \cup TxsIn(state))'
<1>1. BaseInv /\ FollowInv /\ VaultInv /\ [Next]_vars => [Kept]_vars
  BY StepLosesNothing
<1>2. NoTransactionIsLost <=> [][Kept]_vars
  BY DEF NoTransactionIsLost
<1>3. Spec => [](BaseInv /\ VaultInv)
  BY AlwaysVault
<1> HIDE DEF Kept
<1>. QED  BY <1>1, <1>2, <1>3, AlwaysFollow, PTL DEF Spec

\* The blocks applied since the branch point are all that can confirm a transaction.
LEMMA StepRemovesConfirmed ==
    ASSUME OncePerChain, HandlingTransactionsEnabled, BaseInv, VaultInv, [Next]_vars, ~Idle
    PROVE  (mempool \cap TxsIn(state))' \subseteq mempool \cap TxsIn(state)
<1>1. CASE UpdateNodeView
  <2> DEFINE removed == initialInfo.toRemove
  <2>0. state' = newState /\ mempool' = UpdateMemPool(removed, suffix, mempool, newState)
    BY <1>1 DEF UpdateNodeView
  <2>1. /\ Base \in Nodes /\ suffix \in Seq(Blocks)
        /\ history.best \in Nodes /\ Descends(history.best, Base) /\ removed = Rest(history.best, Base)
        /\ TxsIn(newState) \subseteq TxsIn(state) \cup TxsIn(suffix)
        /\ removed # <<>> => newState = ChainTo[Base] \o suffix
    BY <1>1, UpdateEndsOnBase
  <2>2. TxsIn(removed) \cap TxsIn(ChainTo[Base]) = {}
    BY <2>1, TxsAbove
  <2> HIDE DEF removed
  <2>3. TxsIn(removed) \cap TxsIn(newState) \subseteq TxsIn(suffix)
    <3>1. CASE removed = <<>>
      BY <3>1 DEF TxsIn
    <3>2. CASE removed # <<>>
      <4>1. TxsIn(newState) = TxsIn(ChainTo[Base]) \cup TxsIn(suffix)
        BY <2>1, <3>2, ChainType, TxsInConcat
      <4>. QED  BY <2>2, <4>1
    <3>. QED  BY <3>1, <3>2
  <2>4. mempool' = (mempool \cup TxsIn(removed)) \ (TxsIn(suffix) \cup RefusedBy(newState))
    BY <2>0 DEF UpdateMemPool
  <2>5. TxsIn(state)' = TxsIn(newState)
    BY <2>0 DEF TxsIn
  <2>. QED  BY <2>1, <2>3, <2>4, <2>5
<1>2. CASE UNCHANGED <<mempool, state>>
  BY <1>2 DEF TxsIn
<1>. QED  BY <1>1, <1>2, OnlyUpdateChangesPool

\* There, if no chain carries a transaction twice, an update leaves no transaction in the
\* memory pool that it confirms and puts none back that is still confirmed, whatever
\* reports fail and even if the state does not validate transactions.
THEOREM ConfirmedAlwaysLeavesMempool ==
    ASSUME OneForkBelowRejected, OncePerChain, HandlingTransactionsEnabled
    PROVE  Spec => ConfirmedLeavesMempool
<1> DEFINE Left == ~Idle => (mempool \cap TxsIn(state))' \subseteq mempool \cap TxsIn(state)
<1>1. BaseInv /\ VaultInv /\ [Next]_vars => [Left]_vars
  BY StepRemovesConfirmed
<1>2. ConfirmedLeavesMempool <=> [][Left]_vars
  BY DEF ConfirmedLeavesMempool
<1>3. Spec => [](BaseInv /\ VaultInv)
  BY AlwaysVault
<1> HIDE DEF Left
<1>. QED  BY <1>1, <1>2, <1>3, PTL DEF Spec

=============================================================================
