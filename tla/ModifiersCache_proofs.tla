----------------------- MODULE ModifiersCache_proofs -----------------------
(***************************************************************************)
(* What the operations of the cache do to its keys and to its eviction     *)
(* queue, for every cache and every sequence of keys.                      *)
(***************************************************************************)
EXTENDS ModifiersCache, FiniteSetTheorems, SequenceTheorems, WellFoundedInduction, TLAPS

-----------------------------------------------------------------------------
(* Induction up to a bound                                                 *)

\* A nonempty set of natural numbers has a least element.
LEMMA LeastNumber ==
    ASSUME NEW T \in SUBSET Nat, T # {}
    PROVE  \E x \in T : \A y \in T : x <= y
<1>1. PICK x \in T : \A y \in T : ~(<<y, x>> \in OpToRel(<, Nat))
  BY NatLessThanWellFounded, WFMin
<1>2. \A y \in T : ~(y < x)
  BY <1>1 DEF OpToRel
<1>. QED  BY <1>2

\* A set of numbers with 0 in it that one can climb up to N holds 0..N.
LEMMA Climb ==
    ASSUME NEW N \in Nat, NEW P, 0 \in P, \A n \in 1..N : n - 1 \in P => n \in P
    PROVE  \A n \in 0..N : n \in P
<1> DEFINE T == {n \in 0..N : n \notin P}
<1>. SUFFICES ASSUME T # {} PROVE FALSE
  OBVIOUS
<1>1. T \in SUBSET Nat
  OBVIOUS
<1>2. PICK m \in T : \A j \in T : m <= j
  <2> HIDE DEF T
  <2>. QED  BY <1>1, LeastNumber
<1>3. m \in 1..N /\ m - 1 \in 0..N /\ ~(m <= m - 1)
  BY <1>2
<1>4. m - 1 \in P
  BY <1>2, <1>3
<1>. QED  BY <1>2, <1>3, <1>4

IsRun(f, a, N, D) == f[0] = a /\ \A n \in 1..N : f[n] = D[n][f[n - 1]]

\* A sequence of steps D[1], D[2], ... from a defines a function.
LEMMA StepsDefine ==
    ASSUME NEW X, NEW a \in X, NEW N \in Nat, NEW D \in [1..N -> [X -> X]]
    PROVE  \E f \in [0..N -> X] : IsRun(f, a, N, D)
<1> DEFINE Def(f, k) == f[0] = a /\ \A n \in 1..k : f[n] = D[n][f[n - 1]]
           P == {k \in 0..N : \E f \in [0..k -> X] : Def(f, k)}
<1>1. 0 \in P
  <2> DEFINE f == [i \in 0..0 |-> a]
  <2>1. f \in [0..0 -> X] /\ Def(f, 0) /\ 0 \in 0..N
    OBVIOUS
  <2> HIDE DEF f
  <2>. QED  BY <2>1
<1>2. ASSUME NEW k \in 1..N, k - 1 \in P
      PROVE  k \in P
  <2>1. PICK f \in [0..(k - 1) -> X] : Def(f, k - 1)
    BY <1>2
  <2> DEFINE g == [i \in 0..k |-> IF i = k THEN D[k][f[k - 1]] ELSE f[i]]
  <2>2. k - 1 \in 0..(k - 1) /\ D[k] \in [X -> X] /\ D[k][f[k - 1]] \in X
    OBVIOUS
  <2>3. g \in [0..k -> X]
    BY <2>2
  <2>4. Def(g, k)
    <3>1. g[0] = a
      BY <2>1
    <3>2. ASSUME NEW n \in 1..k
          PROVE  g[n] = D[n][g[n - 1]]
      <4>1. CASE n = k
        BY <2>2, <4>1
      <4>2. CASE n # k
        <5>1. n \in 1..(k - 1) /\ n \in 0..k /\ n - 1 \in 0..k /\ n - 1 # k
          BY <4>2
        <5>2. g[n] = f[n] /\ g[n - 1] = f[n - 1]
          BY <4>2, <5>1
        <5>. QED  BY <2>1, <5>1, <5>2
      <4>. QED  BY <4>1, <4>2
    <3>. QED  BY <3>1, <3>2
  <2> HIDE DEF g
  <2>. QED  BY <2>3, <2>4
<1> HIDE DEF P
<1>3. N \in P
  <2>1. \A k \in 1..N : k - 1 \in P => k \in P
    BY <1>2
  <2>2. \A k \in 0..N : k \in P
    BY <1>1, <2>1, Climb
  <2>. QED  BY <2>2
<1>. QED  BY <1>3 DEF P, IsRun

-----------------------------------------------------------------------------
(* What KeepOnly and PutAll compute                                        *)

\* The members of an extended queue.
LEMMA AppendSet ==
    ASSUME NEW T, NEW q \in Seq(T), NEW x \in T
    PROVE  ToSet(Append(q, x)) = ToSet(q) \cup {x}
<1>1. /\ Append(q, x) \in Seq(T) /\ Len(Append(q, x)) = Len(q) + 1 /\ Len(q) \in Nat
      /\ \A i \in 1..Len(q) : Append(q, x)[i] = q[i]
      /\ Append(q, x)[Len(q) + 1] = x
  BY AppendProperties
<1>2. DOMAIN Append(q, x) = 1..(Len(q) + 1) /\ DOMAIN q = 1..Len(q)
  BY <1>1
<1> DEFINE r == Append(q, x)
<1> HIDE DEF r
<1>3. {r[i] : i \in 1..(Len(q) + 1)} = {q[i] : i \in 1..Len(q)} \cup {x}
  BY <1>1 DEF r
<1>. QED  BY <1>2, <1>3 DEF ToSet, r

\* Dropping keys from the eviction queue leaves the others in it.
LEMMA KeepOnlyFacts ==
    ASSUME NEW T, NEW s \in Seq(T), NEW S
    PROVE  KeepOnly(s, S) \in Seq(T) /\ ToSet(KeepOnly(s, S)) = ToSet(s) \cap S
<1> DEFINE N == Len(s)
           Rec(f) == f = [n \in 0..N |->
                            IF n = 0 THEN <<>>
                            ELSE IF s[n] \in S THEN Append(f[n - 1], s[n]) ELSE f[n - 1]]
           kept == CHOOSE f : Rec(f)
<1>0. N \in Nat /\ (\A n \in 1..N : s[n] \in T) /\ DOMAIN s = 1..N
  OBVIOUS
<1>1. KeepOnly(s, S) = kept[N]
  BY Zenon DEF KeepOnly
<1>2. \E f : Rec(f)
  <2> DEFINE D == [n \in 1..N |-> [q \in Seq(T) |-> IF s[n] \in S THEN Append(q, s[n]) ELSE q]]
             empty == <<>>
             X == Seq(T)
  <2>1. empty \in X /\ D \in [1..N -> [X -> X]]
    BY <1>0
  <2>2. PICK f \in [0..N -> X] : IsRun(f, empty, N, D)
    <3> HIDE DEF D, N, empty, X
    <3>. QED  BY <1>0, <2>1, StepsDefine
  <2>3. ASSUME NEW n \in 1..N
        PROVE  f[n] = IF s[n] \in S THEN Append(f[n - 1], s[n]) ELSE f[n - 1]
    <3>0. n - 1 \in 0..N
      BY <1>0
    <3>1. f[n - 1] \in Seq(T)
      BY <3>0
    <3>2. D[n][f[n - 1]] = IF s[n] \in S THEN Append(f[n - 1], s[n]) ELSE f[n - 1]
      BY <3>1
    <3> HIDE DEF D, X
    <3>. QED  BY <2>2, <3>2 DEF IsRun
  <2>4. Rec(f)
    <3>1. \A n \in 0..N : f[n] = IF n = 0 THEN <<>>
                                 ELSE IF s[n] \in S THEN Append(f[n - 1], s[n]) ELSE f[n - 1]
      <4>1. ASSUME NEW n \in 0..N  PROVE n = 0 \/ n \in 1..N
        BY <1>0
      <4> HIDE DEF D, X, N
      <4>. QED  BY <2>2, <2>3, <4>1 DEF empty, IsRun
    <3>2. f = [n \in 0..N |-> f[n]]
      OBVIOUS
    <3> HIDE DEF D, X, N
    <3>. QED  BY <3>1, <3>2
  <2>. QED  BY <2>4
<1>3. Rec(kept)
  <2> HIDE DEF Rec
  <2>. QED  BY <1>2
<1>4. /\ kept[0] = <<>>
      /\ \A n \in 1..N : kept[n] = IF s[n] \in S THEN Append(kept[n - 1], s[n]) ELSE kept[n - 1]
  <2> HIDE DEF kept
  <2>1. \A n \in 0..N : kept[n] = IF n = 0 THEN <<>>
                                  ELSE IF s[n] \in S THEN Append(kept[n - 1], s[n]) ELSE kept[n - 1]
    <3> DEFINE e(n) == IF n = 0 THEN <<>>
                       ELSE IF s[n] \in S THEN Append(kept[n - 1], s[n]) ELSE kept[n - 1]
    <3>1. kept = [n \in 0..N |-> e(n)]
      BY <1>3
    <3> HIDE DEF e
    <3>2. \A n \in 0..N : kept[n] = e(n)
      BY <3>1
    <3>. QED  BY <3>2 DEF e
  <2>. QED  BY <1>0, <2>1
<1> HIDE DEF kept, Rec
<1> DEFINE P == {n \in 0..N : /\ kept[n] \in Seq(T)
                              /\ ToSet(kept[n]) = {s[i] : i \in 1..n} \cap S}
<1>5. 0 \in P
  <2>1. ToSet(kept[0]) = {} /\ {s[i] : i \in 1..0} = {} /\ 0 \in 0..N /\ kept[0] \in Seq(T)
    BY <1>0, <1>4 DEF ToSet
  <2>. QED  BY <2>1
<1>6. ASSUME NEW n \in 1..N, n - 1 \in P
      PROVE  n \in P
  <2>1. /\ kept[n - 1] \in Seq(T) /\ s[n] \in T
        /\ ToSet(kept[n - 1]) = {s[i] : i \in 1..(n - 1)} \cap S
    BY <1>0, <1>6
  <2>2. {s[i] : i \in 1..n} = {s[i] : i \in 1..(n - 1)} \cup {s[n]}
    BY <1>0
  <2>3. ToSet(Append(kept[n - 1], s[n])) = ToSet(kept[n - 1]) \cup {s[n]}
    <3>1. ASSUME NEW q \in Seq(T), NEW x \in T
          PROVE  ToSet(Append(q, x)) = ToSet(q) \cup {x}
      BY AppendSet
    <3>. QED  BY <2>1, <3>1
  <2>4. CASE s[n] \in S
    <3>1. kept[n] = Append(kept[n - 1], s[n])
      BY <1>4, <2>4
    <3>2. kept[n] \in Seq(T)
      BY <2>1, <3>1
    <3>3. ToSet(kept[n]) = {s[i] : i \in 1..n} \cap S
      BY <2>1, <2>2, <2>3, <2>4, <3>1
    <3>. QED  BY <3>2, <3>3
  <2>5. CASE s[n] \notin S
    <3>1. kept[n] = kept[n - 1]
      BY <1>4, <2>5
    <3>2. ToSet(kept[n]) = {s[i] : i \in 1..n} \cap S
      BY <2>1, <2>2, <2>5, <3>1
    <3>. QED  BY <2>1, <3>1, <3>2
  <2>. QED  BY <2>4, <2>5
<1>7. N \in P
  <2>1. \A n \in 1..N : n - 1 \in P => n \in P
    BY <1>6
  <2> HIDE DEF P, N
  <2>2. \A n \in 0..N : n \in P
    BY <1>0, <1>5, <2>1, Climb
  <2>. QED  BY <1>0, <2>2
<1>8. ToSet(s) = {s[i] : i \in 1..N}
  BY <1>0 DEF ToSet
<1>. QED  BY <1>1, <1>7, <1>8

\* The caches whose keys are in K.
Caches(K) == [entries : Seq(K), evictionQueue : Seq(K)]

\* What can be found by eviction.
IsQueued(c) == Keys(c) \subseteq Queued(c)

\* put adds a key, and the eviction queue knows it.
LEMMA PutFacts ==
    ASSUME NEW K, NEW c \in Caches(K), NEW key \in K
    PROVE  /\ Put(c, key) \in Caches(K)
           /\ Keys(Put(c, key)) = Keys(c) \cup {key}
           /\ IsQueued(c) => IsQueued(Put(c, key))
<1>0. c.entries \in Seq(K) /\ c.evictionQueue \in Seq(K)
  BY DEF Caches
<1>1. CASE key \in Keys(c)
  BY <1>1 DEF Put
<1>2. CASE key \notin Keys(c)
  <2> DEFINE d == [c EXCEPT !.entries = Append(@, key)]
             queue == Append(c.evictionQueue, key)
             kept == KeepOnly(queue, Keys(d))
  <2>1. /\ Append(c.entries, key) \in Seq(K) /\ queue \in Seq(K)
        /\ ToSet(Append(c.entries, key)) = Keys(c) \cup {key}
        /\ ToSet(queue) = Queued(c) \cup {key}
    BY <1>0, AppendSet DEF Keys, Queued
  <2>2. /\ d \in Caches(K) /\ d.entries = Append(c.entries, key)
        /\ d.evictionQueue = c.evictionQueue
    BY <2>1 DEF Caches
  <2>3. Keys(d) = Keys(c) \cup {key}
    BY <2>1, <2>2 DEF Keys
  <2>4. kept \in Seq(K) /\ ToSet(kept) = ToSet(queue) \cap Keys(d)
    <3> HIDE DEF queue, d
    <3>. QED  BY <2>1, KeepOnlyFacts
  <2>5. \/ Put(c, key) = [d EXCEPT !.evictionQueue = queue]
        \/ Put(c, key) = [d EXCEPT !.evictionQueue = kept]
    <3>1. Put(c, key) = OnPut(d, key)
      BY <1>2 DEF Put
    <3>2. Append(d.evictionQueue, key) = queue
      BY <2>2
    <3> HIDE DEF d, queue
    <3>. QED  BY <3>1, <3>2 DEF OnPut
  <2> HIDE DEF d, queue, kept
  <2>6. ASSUME NEW q \in {queue, kept}, Put(c, key) = [d EXCEPT !.evictionQueue = q]
        PROVE  /\ Put(c, key) \in Caches(K)
               /\ Put(c, key).entries = d.entries /\ Put(c, key).evictionQueue = q
    BY <2>1, <2>2, <2>4, <2>6 DEF Caches
  <2>7. Keys(Put(c, key)) = Keys(c) \cup {key} /\ Put(c, key) \in Caches(K)
    BY <2>3, <2>5, <2>6 DEF Keys
  <2>8. IsQueued(c) => IsQueued(Put(c, key))
    <3>1. Queued(Put(c, key)) \in {ToSet(queue), ToSet(kept)}
      BY <2>5, <2>6 DEF Queued
    <3>. QED  BY <2>1, <2>3, <2>4, <2>7, <3>1 DEF IsQueued
  <2>. QED  BY <2>7, <2>8
<1>. QED  BY <1>1, <1>2

\* processRemoteModifiers: the cache gets the keys of the message and no others, and
\* eviction still finds all of them.
LEMMA PutAllFacts ==
    ASSUME NEW K, NEW c \in Caches(K), NEW keys \in Seq(K)
    PROVE  /\ PutAll(c, keys) \in Caches(K)
           /\ Keys(PutAll(c, keys)) = Keys(c) \cup ToSet(keys)
           /\ IsQueued(c) => IsQueued(PutAll(c, keys))
<1> DEFINE N == Len(keys)
           Rec(f) == f = [n \in 0..N |-> IF n = 0 THEN c ELSE Put(f[n - 1], keys[n])]
           put == CHOOSE f : Rec(f)
<1>0. N \in Nat /\ (\A n \in 1..N : keys[n] \in K) /\ DOMAIN keys = 1..N
  OBVIOUS
<1>1. PutAll(c, keys) = put[N]
  BY Zenon DEF PutAll
<1>2. \E f : Rec(f)
  <2> DEFINE X == Caches(K)
             D == [n \in 1..N |-> [x \in X |-> Put(x, keys[n])]]
  <2>1. D \in [1..N -> [X -> X]]
    <3>1. \A n \in 1..N : \A x \in X : Put(x, keys[n]) \in X
      BY <1>0, PutFacts
    <3> HIDE DEF X
    <3>. QED  BY <3>1
  <2> HIDE DEF X
  <2>2. PICK f \in [0..N -> X] : IsRun(f, c, N, D)
    <3>1. c \in X
      BY DEF X
    <3> HIDE DEF D, N
    <3>. QED  BY <1>0, <2>1, <3>1, StepsDefine
  <2>3. ASSUME NEW n \in 1..N
        PROVE  f[n] = Put(f[n - 1], keys[n])
    <3>0. n - 1 \in 0..N
      BY <1>0
    <3>1. f[n - 1] \in X
      BY <3>0
    <3>2. D[n][f[n - 1]] = Put(f[n - 1], keys[n])
      BY <3>1
    <3> HIDE DEF D
    <3>. QED  BY <2>2, <3>2 DEF IsRun
  <2>4. Rec(f)
    <3>1. \A n \in 0..N : f[n] = IF n = 0 THEN c ELSE Put(f[n - 1], keys[n])
      <4>1. ASSUME NEW n \in 0..N  PROVE n = 0 \/ n \in 1..N
        BY <1>0
      <4> HIDE DEF D, N
      <4>. QED  BY <2>2, <2>3, <4>1 DEF IsRun
    <3>2. f = [n \in 0..N |-> f[n]]
      OBVIOUS
    <3> HIDE DEF D, N
    <3>. QED  BY <3>1, <3>2
  <2>. QED  BY <2>4
<1>3. Rec(put)
  <2> HIDE DEF Rec
  <2>. QED  BY <1>2
<1>4. put[0] = c /\ \A n \in 1..N : put[n] = Put(put[n - 1], keys[n])
  <2> HIDE DEF put
  <2> DEFINE e(n) == IF n = 0 THEN c ELSE Put(put[n - 1], keys[n])
  <2>1. put = [n \in 0..N |-> e(n)]
    BY <1>3
  <2> HIDE DEF e
  <2>2. \A n \in 0..N : put[n] = e(n)
    BY <2>1
  <2>. QED  BY <1>0, <2>2 DEF e
<1> HIDE DEF put, Rec
<1> DEFINE Good(n) == /\ put[n] \in Caches(K)
                      /\ Keys(put[n]) = Keys(c) \cup {keys[i] : i \in 1..n}
                      /\ IsQueued(c) => IsQueued(put[n])
           P == {n \in 0..N : Good(n)}
<1>5. 0 \in P
  <2>1. {keys[i] : i \in 1..0} = {} /\ 0 \in 0..N
    BY <1>0
  <2>. QED  BY <1>4, <2>1
<1>6. ASSUME NEW n \in 1..N, n - 1 \in P
      PROVE  n \in P
  <2>1. Good(n - 1) /\ keys[n] \in K
    BY <1>0, <1>6
  <2>2. {keys[i] : i \in 1..n} = {keys[i] : i \in 1..(n - 1)} \cup {keys[n]} /\ n \in 0..N
    BY <1>0
  <2>3. /\ put[n] \in Caches(K)
        /\ Keys(put[n]) = Keys(put[n - 1]) \cup {keys[n]}
        /\ IsQueued(put[n - 1]) => IsQueued(put[n])
    <3>1. put[n] = Put(put[n - 1], keys[n])
      BY <1>4
    <3>2. put[n - 1] \in Caches(K)
      BY <2>1
    <3>. QED  BY <2>1, <3>1, <3>2, PutFacts
  <2>4. Good(n)
    BY <2>1, <2>2, <2>3
  <2> HIDE DEF Good
  <2>. QED  BY <2>2, <2>4
<1>7. Good(N)
  <2>1. \A n \in 1..N : n - 1 \in P => n \in P
    BY <1>6
  <2> HIDE DEF P, N, Good
  <2>2. \A n \in 0..N : n \in P
    BY <1>0, <1>5, <2>1, Climb
  <2>3. N \in P
    BY <1>0, <2>2
  <2>. QED  BY <2>3 DEF P
<1>8. ToSet(keys) = {keys[i] : i \in 1..N}
  BY <1>0 DEF ToSet
<1>. QED  BY <1>1, <1>7, <1>8

-----------------------------------------------------------------------------
(* Removing                                                                *)

\* Removing keys leaves the eviction queue as it is.
LEMMA RemoveAllFacts ==
    ASSUME NEW K, NEW c \in Caches(K), NEW S
    PROVE  /\ RemoveAll(c, S) \in Caches(K)
           /\ Keys(RemoveAll(c, S)) = Keys(c) \ S
           /\ RemoveAll(c, S).evictionQueue = c.evictionQueue
           /\ IsQueued(c) => IsQueued(RemoveAll(c, S))
<1> DEFINE s == KeepOnly(c.entries, Keys(c) \ S)
<1>1. c.entries \in Seq(K)
  BY DEF Caches
<1>2. s \in Seq(K) /\ ToSet(s) = Keys(c) \cap (Keys(c) \ S)
  BY <1>1, KeepOnlyFacts DEF Keys
<1>3. RemoveAll(c, S) = [c EXCEPT !.entries = s]
  BY DEF RemoveAll
<1> HIDE DEF s
<1>4. /\ RemoveAll(c, S) \in Caches(K) /\ RemoveAll(c, S).entries = s
      /\ RemoveAll(c, S).evictionQueue = c.evictionQueue
  BY <1>2, <1>3 DEF Caches
<1>. QED  BY <1>2, <1>4 DEF Keys, Queued, IsQueued

\* popCandidate takes out the candidate and what it finds malformed, and nothing else.
LEMMA PopCandidateFacts ==
    ASSUME NEW K, NEW c \in Caches(K), NEW verdict
    PROVE  /\ PopCandidate(c, verdict) \in Caches(K)
           /\ Keys(PopCandidate(c, verdict)) =
                Keys(c) \ (CandidateKey(c, verdict) \cup DroppedKeys(c, verdict))
           /\ IsQueued(c) => IsQueued(PopCandidate(c, verdict))
           /\ CandidateKey(c, verdict) \subseteq Keys(c)
           /\ \A key \in CandidateKey(c, verdict) : verdict[key] = "success"
           /\ \A key \in DroppedKeys(c, verdict) : key \in Keys(c) /\ verdict[key] = "malformed"
<1>1. /\ CandidateKey(c, verdict) \subseteq Keys(c)
      /\ \A key \in CandidateKey(c, verdict) : verdict[key] = "success"
      /\ \A key \in DroppedKeys(c, verdict) : key \in Keys(c) /\ verdict[key] = "malformed"
  BY DEF CandidateKey, DroppedKeys, Scanned, Applicable, Keys, ToSet
<1>. QED  BY <1>1, RemoveAllFacts DEF PopCandidate

\* cleanOverfull: what it reports is what it removes, and afterwards the cache fits.
LEMMA CleanOverfullFacts ==
    ASSUME NEW K, NEW c \in Caches(K)
    PROVE  /\ CleanOverfull(c) \in Caches(K)
           /\ Keys(CleanOverfull(c)) = Keys(c) \ ClearedKeys(c)
           /\ ClearedKeys(c) \subseteq Keys(c)
           /\ IsQueued(c) => /\ IsQueued(CleanOverfull(c))
                             /\ Cardinality(Keys(CleanOverfull(c))) <= CacheMaxSize
<1> DEFINE q == c.evictionQueue
           N == Len(q)
           Enough(n) == FitsAfter(c, n) \/ n = N
           T == {n \in 0..N : Enough(n)}
           d == Dequeued(c)
<1>0. q \in Seq(K) /\ N \in Nat /\ DOMAIN q = 1..N
  BY DEF Caches
<1>1. d \in 0..N /\ Enough(d)
  <2>1. T \in SUBSET Nat /\ T # {}
    <3>1. N \in T
      BY <1>0
    <3>. QED  BY <1>0, <3>1
  <2>2. PICK n \in T : \A m \in T : n <= m
    <3> HIDE DEF T
    <3>. QED  BY <2>1, LeastNumber
  <2>3. ASSUME NEW m \in 0..(n - 1)
        PROVE  ~FitsAfter(c, m)
    <3>1. m \in 0..N /\ ~(n <= m)
      BY <1>0, <2>2
    <3>2. m \notin T
      BY <2>2, <3>1
    <3>. QED  BY <3>1, <3>2
  <2>4. n \in 0..N /\ Enough(n)
    BY <2>2
  <2> HIDE DEF T, q
  <2>. QED  BY <2>3, <2>4 DEF Dequeued, q
<1> DEFINE rest == SubSeq(q, d + 1, N)
           r == RemoveAll(c, ClearedKeys(c))
<1>a. d \in Nat /\ d <= N
  BY <1>0, <1>1
<1>2. rest \in Seq(K) /\ Len(rest) = N - d /\ \A i \in 1..(N - d) : rest[i] = q[d + i]
  <2> HIDE DEF q, d
  <2>1. ASSUME NEW s \in Seq(K), NEW n \in Nat, n <= Len(s)
        PROVE  /\ SubSeq(s, n + 1, Len(s)) \in Seq(K)
               /\ Len(SubSeq(s, n + 1, Len(s))) = Len(s) - n
               /\ \A i \in 1..(Len(s) - n) : SubSeq(s, n + 1, Len(s))[i] = s[n + i]
    <3>1. n + 1 \in 1..(Len(s) + 1) /\ Len(s) \in n..Len(s)
      BY <2>1
    <3>. QED  BY <2>1, <3>1, SubSeqProperties
  <2>. QED  BY <1>0, <1>a, <2>1
<1>3. /\ r \in Caches(K) /\ r.evictionQueue = q
      /\ Keys(r) = Keys(c) \ ClearedKeys(c)
  BY RemoveAllFacts
<1>4. CleanOverfull(c) = [r EXCEPT !.evictionQueue = rest]
  BY <1>3 DEF CleanOverfull
<1>5. ClearedKeys(c) = Keys(c) \cap {q[i] : i \in 1..d}
  BY DEF ClearedKeys, FirstQueued
<1> HIDE DEF r, rest, d, q, N
<1>6. /\ CleanOverfull(c) \in Caches(K)
      /\ CleanOverfull(c).entries = r.entries /\ CleanOverfull(c).evictionQueue = rest
  BY <1>2, <1>3, <1>4 DEF Caches
<1>7. Keys(CleanOverfull(c)) = Keys(c) \ ClearedKeys(c)
  BY <1>3, <1>6 DEF Keys
<1>8. ASSUME IsQueued(c)
      PROVE  IsQueued(CleanOverfull(c))
  <2>1. ASSUME NEW key \in Keys(CleanOverfull(c))
        PROVE  \E i \in 1..(N - d) : rest[i] = key
    <3>1. key \in Keys(c) /\ key \notin {q[i] : i \in 1..d}
      BY <1>5, <1>7, <2>1
    <3>2. PICK i \in 1..N : q[i] = key
      BY <1>0, <1>8, <3>1 DEF IsQueued, Queued, ToSet, q
    <3>3. ~(i <= d)
      BY <1>0, <1>a, <3>1, <3>2
    <3>4. i - d \in 1..(N - d) /\ d + (i - d) = i
      BY <1>0, <1>a, <3>3
    <3>. QED  BY <1>2, <3>2, <3>4
  <2>2. DOMAIN rest = 1..(N - d)
    BY <1>0, <1>a, <1>2
  <2>. QED  BY <1>6, <2>1, <2>2 DEF IsQueued, Queued, ToSet
<1>9. ASSUME IsQueued(c)
      PROVE  Cardinality(Keys(CleanOverfull(c))) <= CacheMaxSize
  <2>1. Keys(CleanOverfull(c)) = Keys(c) \ FirstQueued(c, d)
    BY <1>5, <1>7 DEF FirstQueued, q
  <2>2. CASE FitsAfter(c, d)
    BY <2>1, <2>2 DEF FitsAfter
  <2>3. CASE d = N
    <3>1. Keys(c) \subseteq FirstQueued(c, d)
      BY <1>0, <1>9, <2>3 DEF IsQueued, Queued, ToSet, FirstQueued, q
    <3>2. Keys(CleanOverfull(c)) = {}
      BY <2>1, <3>1
    <3>. QED  BY <3>2, FS_EmptySet, CacheAssumption
  <2>. QED  BY <1>1, <2>2, <2>3
<1>. QED  BY <1>5, <1>6, <1>7, <1>8, <1>9

\* The keys of a cache.
LEMMA KeysType ==
    ASSUME NEW K, NEW c \in Caches(K)
    PROVE  Keys(c) \subseteq K
BY DEF Caches, Keys, ToSet

=============================================================================
