-------------------------- MODULE ModifiersCache --------------------------
(***************************************************************************)
(* ModifiersCache.scala: the persistent modifiers that were received and   *)
(* cannot be applied yet.  `entries` is the LinkedHashMap in insertion     *)
(* order, `evictionQueue` the queue of LRUCache, from which a key is not   *)
(* taken when its entry is removed.                                        *)
(***************************************************************************)
EXTENDS Integers, Sequences, FiniteSets, SequencesExt

CONSTANTS
    CacheMaxSize,       \* maxSize
    CleaningThreshold   \* cleaningThreshold (50 in the code)

ASSUME CacheAssumption == CacheMaxSize \in Nat \ {0} /\ CleaningThreshold \in Nat

EmptyCache == [entries |-> <<>>, evictionQueue |-> <<>>]

Keys(c) == ToSet(c.entries)
Queued(c) == ToSet(c.evictionQueue)

\* The elements of seq that are in S, in order.
KeepOnly(seq, S) ==
    LET kept[n \in 0..Len(seq)] ==
            IF n = 0 THEN <<>>
            ELSE IF seq[n] \in S THEN Append(kept[n - 1], seq[n]) ELSE kept[n - 1]
    IN  kept[Len(seq)]

\* onPut: when the queue has outgrown the cache by the threshold, the keys that
\* are not in the cache leave it.
OnPut(c, key) ==
    LET queue == Append(c.evictionQueue, key)
    IN  [c EXCEPT !.evictionQueue =
            IF Len(queue) > CacheMaxSize + CleaningThreshold
            THEN KeepOnly(queue, Keys(c)) ELSE queue]

Put(c, key) ==
    IF key \in Keys(c) THEN c
    ELSE OnPut([c EXCEPT !.entries = Append(@, key)], key)

PutAll(c, keys) ==
    LET put[n \in 0..Len(keys)] == IF n = 0 THEN c ELSE Put(put[n - 1], keys[n])
    IN  put[Len(keys)]

RemoveAll(c, keys) == [c EXCEPT !.entries = KeepOnly(@, Keys(c) \ keys)]

\* popCandidate.  findCandidateKey scans the entries in insertion order up to the
\* first one that is applicable; entries it meets on the way whose error is not
\* recoverable are removed.  verdict[key] is the outcome of applicableTry.
Applicable(c, verdict) == {i \in DOMAIN c.entries : verdict[c.entries[i]] = "success"}
Scanned(c, verdict) ==
    {i \in DOMAIN c.entries : \A j \in Applicable(c, verdict) : i <= j}
CandidateKey(c, verdict) ==
    {c.entries[i] : i \in Scanned(c, verdict) \cap Applicable(c, verdict)}
DroppedKeys(c, verdict) ==
    {c.entries[i] : i \in {j \in Scanned(c, verdict) : verdict[c.entries[j]] = "malformed"}}
PopCandidate(c, verdict) ==
    RemoveAll(c, CandidateKey(c, verdict) \cup DroppedKeys(c, verdict))

\* cleanOverfull dequeues keys, and removes their entries, until the size fits or
\* the queue is empty.  `n` is the number of keys it dequeues.
FirstQueued(c, n) == {c.evictionQueue[i] : i \in 1..n}
\* Mistake: one modifier more than the maximum may stay.
FitsAfterButOne(c, n) == Cardinality(Keys(c) \ FirstQueued(c, n)) <= CacheMaxSize + 1

FitsAfter(c, n) == Cardinality(Keys(c) \ FirstQueued(c, n)) <= CacheMaxSize
Dequeued(c) ==
    CHOOSE n \in 0..Len(c.evictionQueue) :
        /\ FitsAfter(c, n) \/ n = Len(c.evictionQueue)
        /\ \A m \in 0..(n - 1) : ~FitsAfter(c, m)
ClearedKeys(c) == Keys(c) \cap FirstQueued(c, Dequeued(c))
\* Mistake: the entries that are reported are not removed.
CleanOverfullKeeping(c) ==
    [c EXCEPT !.evictionQueue = SubSeq(@, Dequeued(c) + 1, Len(@))]

CleanOverfull(c) ==
    [RemoveAll(c, ClearedKeys(c)) EXCEPT
        !.evictionQueue = SubSeq(@, Dequeued(c) + 1, Len(@))]

=============================================================================
