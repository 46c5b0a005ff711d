------------------------ MODULE ModifierLife_proofs ------------------------
(***************************************************************************)
(* Proofs about the way of a modifier through synchronizer and             *)
(* NodeViewHolder: the readers catch up, the cache stays bounded, what is  *)
(* taken in is settled, held back transactions are announced, the whole    *)
(* implements ModifierLife, and no request is left out of the counters.    *)
(***************************************************************************)
EXTENDS ModifierProcessing_proofs, ModifiersCache_proofs

-----------------------------------------------------------------------------
(* The last message of a kind in a mailbox                                 *)

HasKind(s, k) == \E i \in 1..Len(s) : s[i].kind = k

\* The last message of kind k tells of the contents v.
LastIs(s, k, v) ==
    \A i \in 1..Len(s) :
        s[i].kind = k /\ (\A j \in 1..Len(s) : j > i => s[j].kind # k) => s[i].contents = v

\* The indices of a tail.
LEMMA TailIndex ==
    ASSUME NEW S, NEW s \in Seq(S), s # <<>>
    PROVE  /\ Tail(s) \in Seq(S) /\ Len(Tail(s)) = Len(s) - 1 /\ Len(s) \in Nat /\ Len(s) >= 1
           /\ \A i \in 1..(Len(s) - 1) : Tail(s)[i] = s[i + 1]
           /\ Head(s) = s[1] /\ Head(s) \in S
BY HeadTailProperties

\* Taking the head out keeps what the last message of a kind says; if it was that
\* message, this is what it said.
LEMMA TailLast ==
    ASSUME NEW S, NEW s \in Seq(S), s # <<>>, NEW k, NEW v, LastIs(s, k, v)
    PROVE  /\ LastIs(Tail(s), k, v)
           /\ Head(s).kind = k /\ ~HasKind(Tail(s), k) => Head(s).contents = v
<1> DEFINE t == Tail(s)
<1>1. /\ Len(t) = Len(s) - 1 /\ Len(s) \in Nat /\ Len(s) >= 1
      /\ \A i \in 1..(Len(s) - 1) : t[i] = s[i + 1]
      /\ Head(s) = s[1]
  BY TailIndex
<1> HIDE DEF t
<1>2. ASSUME NEW i \in 1..Len(t), t[i].kind = k, \A j \in 1..Len(t) : j > i => t[j].kind # k
      PROVE  t[i].contents = v
  <2>1. i + 1 \in 1..Len(s) /\ t[i] = s[i + 1]
    BY <1>1
  <2>2. ASSUME NEW j \in 1..Len(s), j > i + 1
        PROVE  s[j].kind # k
    <3>1. j - 1 \in 1..Len(t) /\ j - 1 > i /\ t[j - 1] = s[(j - 1) + 1] /\ (j - 1) + 1 = j
      BY <1>1, <2>2
    <3>. QED  BY <1>2, <3>1
  <2>. QED  BY <1>2, <2>1, <2>2 DEF LastIs
<1>3. ASSUME Head(s).kind = k, ~HasKind(t, k)
      PROVE  Head(s).contents = v
  <2>1. ASSUME NEW j \in 1..Len(s), j > 1
        PROVE  s[j].kind # k
    <3>1. j - 1 \in 1..Len(t) /\ t[j - 1] = s[(j - 1) + 1] /\ (j - 1) + 1 = j
      BY <1>1, <2>1
    <3>. QED  BY <1>3, <3>1 DEF HasKind
  <2>2. 1 \in 1..Len(s)
    BY <1>1
  <2>. QED  BY <1>1, <1>3, <2>1, <2>2 DEF LastIs
<1>. QED  BY <1>2, <1>3 DEF LastIs, t

\* A kind occurs at the head or in the tail.
LEMMA TailHasKind ==
    ASSUME NEW S, NEW s \in Seq(S), s # <<>>, NEW k
    PROVE  HasKind(s, k) <=> Head(s).kind = k \/ HasKind(Tail(s), k)
<1> DEFINE t == Tail(s)
<1>1. /\ Len(t) = Len(s) - 1 /\ Len(s) \in Nat /\ Len(s) >= 1
      /\ \A i \in 1..(Len(s) - 1) : t[i] = s[i + 1]
      /\ Head(s) = s[1]
  BY TailIndex
<1> HIDE DEF t
<1>2. ASSUME NEW i \in 1..Len(s), s[i].kind = k, i # 1
      PROVE  HasKind(t, k)
  <2>1. i - 1 \in 1..Len(t) /\ t[i - 1] = s[(i - 1) + 1] /\ (i - 1) + 1 = i
    BY <1>1, <1>2
  <2>. QED  BY <1>2, <2>1 DEF HasKind
<1>3. ASSUME NEW i \in 1..Len(t), t[i].kind = k
      PROVE  HasKind(s, k)
  <2>1. i + 1 \in 1..Len(s) /\ t[i] = s[i + 1]
    BY <1>1
  <2>. QED  BY <1>3, <2>1 DEF HasKind
<1>4. Head(s).kind = k => HasKind(s, k)
  BY <1>1 DEF HasKind
<1>. QED  BY <1>1, <1>2, <1>3, <1>4 DEF HasKind, t

\* The indices of a concatenation.
LEMMA ConcatIndex ==
    ASSUME NEW S, NEW s \in Seq(S), NEW e \in Seq(S)
    PROVE  /\ s \o e \in Seq(S)
           /\ Len(s \o e) = Len(s) + Len(e) /\ Len(s) \in Nat /\ Len(e) \in Nat
           /\ \A i \in 1..Len(s) : i \in 1..Len(s \o e) /\ (s \o e)[i] = s[i]
           /\ \A i \in 1..Len(e) : Len(s) + i \in 1..Len(s \o e) /\ (s \o e)[Len(s) + i] = e[i]
           /\ \A i \in 1..Len(s \o e) : i \in 1..Len(s) \/ (i - Len(s) \in 1..Len(e) /\ i > Len(s))
<1> DEFINE c == s \o e
<1>1. /\ c \in Seq(S) /\ Len(c) = Len(s) + Len(e) /\ Len(s) \in Nat /\ Len(e) \in Nat
      /\ \A i \in 1..(Len(s) + Len(e)) : c[i] = IF i <= Len(s) THEN s[i] ELSE e[i - Len(s)]
  BY ConcatProperties
<1> HIDE DEF c
<1>2. ASSUME NEW i \in 1..Len(s)
      PROVE  i \in 1..Len(c) /\ c[i] = s[i]
  BY <1>1
<1>3. ASSUME NEW i \in 1..Len(e)
      PROVE  Len(s) + i \in 1..Len(c) /\ c[Len(s) + i] = e[i]
  <2>1. Len(s) + i \in 1..(Len(s) + Len(e)) /\ ~(Len(s) + i <= Len(s)) /\ Len(s) + i - Len(s) = i
    BY <1>1
  <2>. QED  BY <1>1, <2>1
<1>4. ASSUME NEW i \in 1..Len(c)
      PROVE  i \in 1..Len(s) \/ (i - Len(s) \in 1..Len(e) /\ i > Len(s))
  BY <1>1
<1>. QED  BY <1>1, <1>2, <1>3, <1>4 DEF c

\* A kind occurs in one of two parts.
LEMMA ConcatHasKind ==
    ASSUME NEW S, NEW s \in Seq(S), NEW e \in Seq(S), NEW k
    PROVE  HasKind(s \o e, k) <=> HasKind(s, k) \/ HasKind(e, k)
<1> DEFINE c == s \o e
<1>1. /\ Len(s) \in Nat /\ Len(e) \in Nat
      /\ \A i \in 1..Len(s) : i \in 1..Len(c) /\ c[i] = s[i]
      /\ \A i \in 1..Len(e) : Len(s) + i \in 1..Len(c) /\ c[Len(s) + i] = e[i]
      /\ \A i \in 1..Len(c) : i \in 1..Len(s) \/ (i - Len(s) \in 1..Len(e) /\ i > Len(s))
      /\ Len(c) \in Nat
  BY ConcatIndex
<1> HIDE DEF c
<1>2. ASSUME NEW i \in 1..Len(c), c[i].kind = k
      PROVE  HasKind(s, k) \/ HasKind(e, k)
  <2>1. CASE i \in 1..Len(s)
    BY <1>1, <1>2, <2>1 DEF HasKind
  <2>2. CASE i - Len(s) \in 1..Len(e)
    <3>1. Len(s) + (i - Len(s)) = i
      BY <1>1
    <3>. QED  BY <1>1, <1>2, <2>2, <3>1 DEF HasKind
  <2>. QED  BY <1>1, <2>1, <2>2
<1>3. HasKind(s, k) \/ HasKind(e, k) => HasKind(c, k)
  BY <1>1 DEF HasKind
<1>. QED  BY <1>2, <1>3 DEF HasKind, c

\* The last message of a kind is the one of the second part, if that has one.
LEMMA ConcatLast ==
    ASSUME NEW S, NEW s \in Seq(S), NEW e \in Seq(S), NEW k, NEW v,
           HasKind(e, k) => LastIs(e, k, v),
           ~HasKind(e, k) => LastIs(s, k, v)
    PROVE  LastIs(s \o e, k, v)
<1> DEFINE c == s \o e
<1>1. /\ Len(s) \in Nat /\ Len(e) \in Nat
      /\ \A i \in 1..Len(s) : i \in 1..Len(c) /\ c[i] = s[i]
      /\ \A i \in 1..Len(e) : Len(s) + i \in 1..Len(c) /\ c[Len(s) + i] = e[i]
      /\ \A i \in 1..Len(c) : i \in 1..Len(s) \/ (i - Len(s) \in 1..Len(e) /\ i > Len(s))
      /\ Len(c) \in Nat
  BY ConcatIndex
<1> HIDE DEF c
<1>. SUFFICES ASSUME NEW i \in 1..Len(c), c[i].kind = k,
                     \A j \in 1..Len(c) : j > i => c[j].kind # k
              PROVE  c[i].contents = v
  BY DEF LastIs, c
<1>2. CASE i \in 1..Len(s)
  <2>1. ~HasKind(e, k)
    <3>1. ASSUME NEW j \in 1..Len(e)  PROVE e[j].kind # k
      <4>1. Len(s) + j > i /\ Len(s) + j \in 1..Len(c) /\ c[Len(s) + j] = e[j]
        BY <1>1, <1>2
      <4>. QED  BY <4>1
    <3>. QED  BY <3>1 DEF HasKind
  <2>2. ASSUME NEW j \in 1..Len(s), j > i  PROVE s[j].kind # k
    <3>1. j \in 1..Len(c) /\ c[j] = s[j]
      BY <1>1
    <3>. QED  BY <2>2, <3>1
  <2>. QED  BY <1>1, <1>2, <2>1, <2>2 DEF LastIs
<1>3. CASE i - Len(s) \in 1..Len(e) /\ i > Len(s)
  <2> DEFINE n == i - Len(s)
  <2>1. n \in 1..Len(e) /\ Len(s) + n = i
    BY <1>1, <1>3
  <2> HIDE DEF n
  <2>2. c[i] = e[n]
    BY <1>1, <2>1
  <2>3. ASSUME NEW j \in 1..Len(e), j > n  PROVE e[j].kind # k
    <3>1. Len(s) + j > i /\ Len(s) + j \in 1..Len(c) /\ c[Len(s) + j] = e[j]
      BY <1>1, <2>1, <2>3
    <3>. QED  BY <3>1
  <2>4. HasKind(e, k)
    BY <2>1, <2>2 DEF HasKind
  <2>. QED  BY <2>1, <2>2, <2>3, <2>4 DEF LastIs
<1>. QED  BY <1>1, <1>2, <1>3

\* Short sequences of events.
LEMMA OneEvent ==
    ASSUME NEW a, NEW k, NEW v
    PROVE  /\ HasKind(<<a>>, k) <=> a.kind = k
           /\ (a.kind = k => a.contents = v) => LastIs(<<a>>, k, v)
<1>1. Len(<<a>>) = 1 /\ <<a>>[1] = a
  OBVIOUS
<1> DEFINE s == <<a>>
<1> HIDE DEF s
<1>2. Len(s) = 1 /\ s[1] = a
  BY <1>1 DEF s
<1>3. \A i \in 1..Len(s) : i = 1
  BY <1>2
<1>. QED  BY <1>2, <1>3 DEF HasKind, LastIs, s

\* Both facts for the event sequences that TxModify publishes.
LEMMA TwoEvents ==
    ASSUME NEW a, NEW b, NEW k, NEW v
    PROVE  /\ HasKind(<<a, b>>, k) <=> a.kind = k \/ b.kind = k
           /\ /\ b.kind = k => b.contents = v
              /\ a.kind = k /\ b.kind # k => a.contents = v
              => LastIs(<<a, b>>, k, v)
<1>1. Len(<<a, b>>) = 2 /\ <<a, b>>[1] = a /\ <<a, b>>[2] = b
  OBVIOUS
<1> DEFINE s == <<a, b>>
<1> HIDE DEF s
<1>2. Len(s) = 2 /\ s[1] = a /\ s[2] = b
  BY <1>1 DEF s
<1>3. (\A i \in 1..Len(s) : i = 1 \/ i = 2) /\ 1 \in 1..Len(s) /\ 2 \in 1..Len(s) /\ 2 > 1
  BY <1>2
<1>. QED  BY <1>2, <1>3 DEF HasKind, LastIs, s

-----------------------------------------------------------------------------
(* What a step does to the mailbox of the synchronizer                     *)

\* The events e tell of what they go with: the history and the pool after the step.
Tells(e) ==
    /\ HasKind(e, "ChangedHistory") => LastIs(e, "ChangedHistory", history')
    /\ ~HasKind(e, "ChangedHistory") => history' = history
    /\ HasKind(e, "ChangedMempool") => LastIs(e, "ChangedMempool", mempool')
    /\ ~HasKind(e, "ChangedMempool") => mempool' = mempool

AddsMail ==
    /\ \E e \in Seq(Message) : mailbox' = mailbox \o e /\ Tells(e)
    /\ UNCHANGED readerVars

TakesMail ==
    /\ mailbox # <<>> /\ mailbox' = Tail(mailbox)
    /\ UNCHANGED <<history, mempool>>
    /\ IF Head(mailbox).kind = "ChangedHistory" THEN historyReader' = Head(mailbox).contents
       ELSE historyReader' = historyReader /\ ("history" \in readers' => "history" \in readers)
    /\ IF Head(mailbox).kind = "ChangedMempool" THEN mempoolReader' = Head(mailbox).contents
       ELSE mempoolReader' = mempoolReader /\ ("mempool" \in readers' => "mempool" \in readers)

\* No event, or one that tells of nothing.
LEMMA AddsNothing ==
    ASSUME mailbox \in Seq(Message), UNCHANGED <<mailbox, readerVars, history, mempool>>
    PROVE  AddsMail
<1> DEFINE e == <<>>
<1>1. e \in Seq(Message) /\ mailbox \o e = mailbox /\ Len(e) = 0
  BY ConcatEmptySeq
<1>2. \A k : ~HasKind(e, k)
  BY <1>1 DEF HasKind
<1> HIDE DEF e
<1>. QED  BY <1>1, <1>2, Zenon DEF AddsMail, Tells

\* A single message that is no change of a reader.
LEMMA AddsOne ==
    ASSUME mailbox \in Seq(Message), NEW m \in Message, mailbox' = mailbox \o <<m>>,
           m.kind \notin {"ChangedHistory", "ChangedMempool"},
           UNCHANGED <<readerVars, history, mempool>>
    PROVE  AddsMail
<1>1. <<m>> \in Seq(Message)
  OBVIOUS
<1>2. ~HasKind(<<m>>, "ChangedHistory") /\ ~HasKind(<<m>>, "ChangedMempool")
  BY OneEvent
<1>. QED  BY <1>1, <1>2 DEF AddsMail, Tells

\* The kinds of the events of an update, and what the last ones tell.
LEMMA UpdateEventKinds ==
    ASSUME IInv, NEW b \in Blocks, PmodModify(b), NEW v, PublishesUpdate(b, v)
    PROVE  /\ HasKind(HistoryChanges(b, v), "ChangedHistory")
           /\ ~HasKind(HistoryChanges(b, v), "ChangedMempool")
           /\ LastIs(HistoryChanges(b, v), "ChangedHistory", history \cup {b})
           /\ HasKind(ViewChanges(b, v), "ChangedHistory")
           /\ HasKind(ViewChanges(b, v), "ChangedMempool")
           /\ LastIs(ViewChanges(b, v), "ChangedHistory", history \cup {b})
           /\ LastIs(ViewChanges(b, v), "ChangedMempool", mempool')
<1>0. PICK a, ch, cm, f :
        /\ a = AppendedEvent(b) /\ ch = HistoryEvent(b) /\ cm = PoolEvent(mempool')
        /\ f = <<AppendedEvent(b)>> \o v
  OBVIOUS
<1>1. a.kind = "SyntacticallySuccessfulModifier" /\ ch.kind = "ChangedHistory" /\ ch.contents = history \cup {b}
  BY <1>0 DEF AppendedEvent, HistoryEvent, Event, Changed
<1>2. cm.kind = "ChangedMempool" /\ cm.contents = mempool'
  BY <1>0 DEF PoolEvent, Changed
<1>3. /\ v \in Seq(Message) /\ a \in Message /\ ch \in Message /\ cm \in Message
      /\ \A i \in 1..Len(v) : v[i].kind \in VerdictKinds
  BY <1>0, PmodEventsAreMessages DEF PublishesUpdate
<1>4. <<a>> \in Seq(Message) /\ <<ch>> \in Seq(Message) /\ <<ch, cm>> \in Seq(Message)
  BY <1>3
<1>5. f \in Seq(Message) /\ \A k \in {"ChangedHistory", "ChangedMempool"} : ~HasKind(f, k)
  <2>1. \A k \in {"ChangedHistory", "ChangedMempool"} : ~HasKind(v, k)
    BY <1>3 DEF HasKind, VerdictKinds
  <2>2. \A k \in {"ChangedHistory", "ChangedMempool"} : ~HasKind(<<a>>, k)
    BY <1>1, OneEvent
  <2>. QED  BY <1>0, <1>3, <1>4, <2>1, <2>2, ConcatHasKind, ConcatProperties
<1>6. /\ HasKind(<<ch>>, "ChangedHistory") /\ ~HasKind(<<ch>>, "ChangedMempool")
      /\ LastIs(<<ch>>, "ChangedHistory", history \cup {b})
  BY <1>1, OneEvent
<1>7. /\ HasKind(<<ch, cm>>, "ChangedHistory") /\ HasKind(<<ch, cm>>, "ChangedMempool")
      /\ LastIs(<<ch, cm>>, "ChangedHistory", history \cup {b})
      /\ LastIs(<<ch, cm>>, "ChangedMempool", mempool')
  BY <1>1, <1>2, TwoEvents
<1>8. HistoryChanges(b, v) = f \o <<ch>> /\ ViewChanges(b, v) = f \o <<ch, cm>>
  BY <1>0, Zenon DEF HistoryChanges, ViewChanges
<1>9. /\ HasKind(f \o <<ch>>, "ChangedHistory") /\ ~HasKind(f \o <<ch>>, "ChangedMempool")
      /\ HasKind(f \o <<ch, cm>>, "ChangedHistory") /\ HasKind(f \o <<ch, cm>>, "ChangedMempool")
  BY <1>4, <1>5, <1>6, <1>7, ConcatHasKind
<1>10. /\ LastIs(f \o <<ch>>, "ChangedHistory", history \cup {b})
       /\ LastIs(f \o <<ch, cm>>, "ChangedHistory", history \cup {b})
       /\ LastIs(f \o <<ch, cm>>, "ChangedMempool", mempool')
  BY <1>4, <1>5, <1>6, <1>7, ConcatLast
<1>. QED  BY <1>8, <1>9, <1>10, Zenon

\* pmodModify tells of the history and of the pool whenever it changes them.
LEMMA PmodModifyMail ==
    ASSUME IInv, NEW b \in Blocks, PmodModify(b), UNCHANGED readerVars
    PROVE  AddsMail
<1>1. /\ mailbox \in Seq(Message) /\ FailedEvent(b) \in Message
      /\ \A v \in Seq(Message) :
            HistoryChanges(b, v) \in Seq(Message) /\ ViewChanges(b, v) \in Seq(Message)
  BY PmodEventsAreMessages
<1>2. CASE UNCHANGED <<history, mempool, mailbox>>
  BY <1>1, <1>2, AddsNothing
<1>3. CASE Publish(<<FailedEvent(b)>>) /\ UNCHANGED <<history, mempool>>
  <2>1. FailedEvent(b).kind = "SyntacticallyFailedModification"
    BY DEF FailedEvent, Event
  <2>. QED  BY <1>1, <1>3, <2>1, AddsOne DEF Publish
<1>4. ASSUME NEW v, PublishesUpdate(b, v)
      PROVE  AddsMail
  <2>1. /\ HistoryChanges(b, v) \in Seq(Message) /\ ViewChanges(b, v) \in Seq(Message)
        /\ history' = history \cup {b}
    BY <1>1, <1>4, Zenon DEF PublishesUpdate
  <2>2. CASE Publish(HistoryChanges(b, v)) /\ UNCHANGED mempool
    <3>1. Tells(HistoryChanges(b, v))
      BY <1>4, <2>1, <2>2, UpdateEventKinds DEF Tells
    <3>. QED  BY <2>1, <2>2, <3>1 DEF AddsMail, Publish
  <2>3. CASE Publish(ViewChanges(b, v))
    <3>1. Tells(ViewChanges(b, v))
      BY <1>4, <2>1, UpdateEventKinds DEF Tells
    <3>. QED  BY <2>1, <2>3, <3>1 DEF AddsMail, Publish
  <2>. QED  BY <1>4, <2>2, <2>3 DEF PublishesUpdate
<1>. QED  BY <1>2, <1>3, <1>4, PmodModifyCases

\* Two events, the first of which tells of the pool.
LEMMA AddsMempool ==
    ASSUME mailbox \in Seq(Message), mempool' \subseteq Txs, NEW m \in Message,
           m.kind \notin {"ChangedHistory", "ChangedMempool"},
           mailbox' = mailbox \o <<Changed("ChangedMempool", mempool'), m>>,
           UNCHANGED <<readerVars, history>>
    PROVE  AddsMail
<1> DEFINE cm == Changed("ChangedMempool", mempool')
<1>1. cm \in Message /\ cm.kind = "ChangedMempool" /\ cm.contents = mempool'
  BY DEF Changed, Message
<1> HIDE DEF cm
<1>2. <<cm, m>> \in Seq(Message)
  BY <1>1
<1>3. /\ ~HasKind(<<cm, m>>, "ChangedHistory") /\ HasKind(<<cm, m>>, "ChangedMempool")
      /\ LastIs(<<cm, m>>, "ChangedMempool", mempool')
  <2>1. m.kind # "ChangedHistory" /\ m.kind # "ChangedMempool"
    OBVIOUS
  <2> DEFINE pool == mempool'
  <2>2. cm.contents = pool
    BY <1>1
  <2> HIDE DEF pool
  <2>3. LastIs(<<cm, m>>, "ChangedMempool", pool)
    BY <1>1, <2>1, <2>2, TwoEvents
  <2>4. ~HasKind(<<cm, m>>, "ChangedHistory")
    BY <1>1, <2>1, TwoEvents
  <2>5. HasKind(<<cm, m>>, "ChangedMempool")
    BY <1>1, TwoEvents
  <2>. QED  BY <2>3, <2>4, <2>5 DEF pool
<1>. QED  BY <1>2, <1>3 DEF AddsMail, Tells, cm

\* txModify publishes the mempool that it leaves behind.
LEMMA TxModifyMail ==
    ASSUME IInv, NEW t \in Txs, TxModify(t), UNCHANGED <<readerVars, history>>
    PROVE  AddsMail
<1>1. mailbox \in Seq(Message) /\ mempool' \subseteq Txs
  BY IInvFacts, TxModifyGrows
<1>2. /\ Event("SuccessfulTransaction", t) \in Message
      /\ Event("SuccessfulTransaction", t).kind = "SuccessfulTransaction"
      /\ FailedTransaction(t, TRUE) \in Message
      /\ FailedTransaction(t, TRUE).kind = "FailedTransaction"
  <2>1. Event("SuccessfulTransaction", t) \in Message
    BY TRUE \in BOOLEAN, TxEventsAreMessages
  <2>. QED  BY <2>1, FailedTransactionsAreMessages DEF Event, FailedTransaction
<1>3. \/ mailbox' = mailbox \o <<Changed("ChangedMempool", mempool'), Event("SuccessfulTransaction", t)>>
      \/ mailbox' = mailbox \o <<FailedTransaction(t, TRUE)>> /\ UNCHANGED mempool
  BY DEF TxModify, Publish
<1>. QED  BY <1>1, <1>2, <1>3, AddsOne, AddsMempool

\* Whatever the NodeViewHolder changes it publishes.
LEMMA NvhMail ==
    ASSUME IInv, NvhNext
    PROVE  AddsMail
<1>0. mailbox \in Seq(Message) /\ RestTypeOK
  BY IInvFacts
<1>1. UNCHANGED readerVars
  BY DEF NvhNext, NvhGetNodeViewChanges, NvhModifiersFromRemote, NvhApplyCandidate, NvhFinish,
         NvhTransactionsFromRemote, NvhLocallyGeneratedModifier, NvhLocallyGeneratedTransaction,
         NvhEliminateTransaction, nvsOwnVars
<1>2. CASE NvhGetNodeViewChanges
  <2> DEFINE ch == Changed("ChangedHistory", history)
             cm == Changed("ChangedMempool", mempool)
  <2>1. /\ ch \in Message /\ ch.kind = "ChangedHistory" /\ ch.contents = history
        /\ cm \in Message /\ cm.kind = "ChangedMempool" /\ cm.contents = mempool
    BY <1>0 DEF Changed, Message, RestTypeOK
  <2>2. mailbox' = mailbox \o <<ch, cm>> /\ UNCHANGED <<history, mempool>>
    BY <1>2 DEF NvhGetNodeViewChanges, Publish, nvhVars
  <2> HIDE DEF ch, cm
  <2>3. <<ch, cm>> \in Seq(Message)
    BY <2>1
  <2>4. /\ HasKind(<<ch, cm>>, "ChangedHistory") /\ HasKind(<<ch, cm>>, "ChangedMempool")
        /\ LastIs(<<ch, cm>>, "ChangedHistory", history) /\ LastIs(<<ch, cm>>, "ChangedMempool", mempool)
    BY <2>1, TwoEvents
  <2>. QED  BY <1>1, <2>2, <2>3, <2>4 DEF AddsMail, Tells
<1>3. CASE NvhModifiersFromRemote
  BY <1>0, <1>1, <1>3, AddsNothing DEF NvhModifiersFromRemote
<1>4. CASE NvhApplyCandidate
  BY <1>1, <1>4, PmodModifyMail DEF NvhApplyCandidate
<1>5. CASE NvhFinish
  <2>1. PICK cleared \in SUBSET Blocks : mailbox' = mailbox \o <<ModifiersProcessingResult(cleared)>>
    BY <1>5 DEF NvhFinish, Publish
  <2>2. /\ ModifiersProcessingResult(cleared) \in Message
        /\ ModifiersProcessingResult(cleared).kind = "ModifiersProcessingResult"
    BY DEF ModifiersProcessingResult, Message
  <2>. QED  BY <1>0, <1>1, <1>5, <2>1, <2>2, AddsOne DEF NvhFinish
<1>6. CASE NvhTransactionsFromRemote
  <2> DEFINE txs == Head(nvhMailbox).mods
  <2>1. nvhMailbox # <<>> /\ txs \in Seq(Txs)
    BY <1>0, <1>6
    DEF NvhTransactionsFromRemote, NvhReceives, RestTypeOK, NvhMessage, GetNodeViewChanges
  <2>2. CASE txs = <<>>
    BY <1>0, <1>1, <1>6, <2>2, AddsNothing DEF NvhTransactionsFromRemote
  <2>3. CASE txs # <<>>
    <3>1. Head(txs) \in Txs /\ TxModify(Head(txs)) /\ UNCHANGED history
      BY <1>6, <2>1, <2>3 DEF NvhTransactionsFromRemote
    <3>. QED  BY <1>1, <3>1, TxModifyMail
  <2>. QED  BY <2>2, <2>3
<1>7. ASSUME NEW b \in Blocks, NvhLocallyGeneratedModifier(b)
      PROVE  AddsMail
  BY <1>1, <1>7, PmodModifyMail DEF NvhLocallyGeneratedModifier
<1>8. ASSUME NEW t \in Txs, NvhLocallyGeneratedTransaction(t)
      PROVE  AddsMail
  <2>1. CASE HandlingTransactionsEnabled
    BY <1>1, <1>8, <2>1, TxModifyMail DEF NvhLocallyGeneratedTransaction
  <2>2. CASE ~HandlingTransactionsEnabled
    <3>1. FailedTransaction(t, FALSE) \in Message /\ FailedTransaction(t, FALSE).kind = "FailedTransaction"
      BY FailedTransactionsAreMessages DEF FailedTransaction
    <3>2. mailbox' = mailbox \o <<FailedTransaction(t, FALSE)>> /\ UNCHANGED <<history, mempool>>
      BY <1>8, <2>2 DEF NvhLocallyGeneratedTransaction, Publish
    <3>. QED  BY <1>0, <1>1, <3>1, <3>2, AddsOne
  <2>. QED  BY <2>1, <2>2
<1>9. ASSUME NEW t \in Txs, NvhEliminateTransaction(t)
      PROVE  AddsMail
  <2>1. FailedTransaction(t, FALSE) \in Message /\ FailedTransaction(t, FALSE).kind = "FailedTransaction"
    BY FailedTransactionsAreMessages DEF FailedTransaction
  <2>2. mempool' \subseteq Txs /\ UNCHANGED history
    BY <1>0, <1>9 DEF NvhEliminateTransaction, RestTypeOK
  <2>3. mailbox' = mailbox \o <<Changed("ChangedMempool", mempool'), FailedTransaction(t, FALSE)>>
    BY <1>9 DEF NvhEliminateTransaction, Publish
  <2>. QED  BY <1>0, <1>1, <2>1, <2>2, <2>3, AddsMempool
<1>. QED  BY <1>2, <1>3, <1>4, <1>5, <1>6, <1>7, <1>8, <1>9 DEF NvhNext

\* Timers put their messages at the end.
LEMMA TimeoutMail ==
    ASSUME IInv, NvsTimeout
    PROVE  AddsMail
<1>0. mailbox \in Seq(Message) /\ TrackerInv
  BY IInvFacts
<1>1. UNCHANGED <<readerVars, history, mempool>>
  BY DEF NvsTimeout, DeliveryTimeout, OrphanTimeout, RebroadcastTimeout, nvhVars
<1>2. PICK m \in Message : /\ mailbox' = Append(mailbox, m)
                           /\ m.kind \in {"CheckDelivery", "TransactionRebroadcast"}
  <2>1. ASSUME NEW i \in Ids, DeliveryTimeout(i)
        PROVE  /\ CheckDelivery(requested[i], i) \in Message
               /\ CheckDelivery(requested[i], i).kind = "CheckDelivery"
    <3>1. requested[i] \in Peers
      BY <1>0, <2>1, TrackerAssumption
      DEF DeliveryTimeout, TrackerInv, TrackerTypeOK, ChecksAreBounded, IsRequested
    <3>. QED  BY <3>1, TimerMessages DEF CheckDelivery
  <2>2. ASSUME NEW p \in Peers, NEW i \in Ids
        PROVE  CheckDelivery(p, i) \in Message /\ CheckDelivery(p, i).kind = "CheckDelivery"
    BY TimerMessages DEF CheckDelivery
  <2>3. TransactionRebroadcast \in Message /\ TransactionRebroadcast.kind = "TransactionRebroadcast"
    BY DEF TransactionRebroadcast, Message
  <2>. QED  BY <2>1, <2>2, <2>3 DEF NvsTimeout, DeliveryTimeout, OrphanTimeout, RebroadcastTimeout
<1>3. mailbox' = mailbox \o <<m>>
  BY <1>0, <1>2, AppendIsConcat
<1>. QED  BY <1>0, <1>1, <1>2, <1>3, AddsOne

\* The synchronizer takes the first message; its readers change by what it says.
LEMMA HandleMail ==
    ASSUME IInv, NvsHandle, UNCHANGED nvhVars
    PROVE  TakesMail
<1>1. mailbox # <<>> /\ mailbox' = Tail(mailbox) /\ UNCHANGED <<history, mempool>>
  BY DEF NvsHandle, HandleCheckDelivery, HandleSuccessfulTransaction, HandleFailedTransaction,
         HandleSyntacticallySuccessful, HandleFailedModification, HandleSemanticallySuccessful,
         HandleChangedHistory, HandleChangedMempool, HandleModifiersProcessingResult,
         HandleTransactionRebroadcast, Handles, nvhVars
<1>2. CASE HandleChangedHistory
  BY <1>1, <1>2 DEF HandleChangedHistory, Handles, TakesMail
<1>3. CASE HandleChangedMempool
  BY <1>1, <1>3 DEF HandleChangedMempool, Handles, TakesMail
<1>4. CASE /\ UNCHANGED readerVars
           /\ Head(mailbox).kind \notin {"ChangedHistory", "ChangedMempool"}
  BY <1>1, <1>4 DEF TakesMail, readerVars
<1>5. HandleChangedHistory \/ HandleChangedMempool
      \/ /\ UNCHANGED readerVars
         /\ Head(mailbox).kind \notin {"ChangedHistory", "ChangedMempool"}
  BY DEF NvsHandle, HandleCheckDelivery, HandleSuccessfulTransaction, HandleFailedTransaction,
         HandleSyntacticallySuccessful, HandleFailedModification, HandleSemanticallySuccessful,
         HandleModifiersProcessingResult, HandleTransactionRebroadcast, Handles
<1>. QED  BY <1>2, <1>3, <1>4, <1>5

\* Next, with the handlers of the synchronizer taken together.
LEMMA NextCases ==
    ASSUME [Next]_vars
    PROVE  \/ NvsReceive
           \/ NvsTimeout
           \/ NvsHandle /\ UNCHANGED nvhVars
           \/ NvhNext
           \/ UNCHANGED vars
BY DEF Next, NvsNext, NvsHandle

\* Messages of peers change neither mailbox nor readers.
LEMMA ReceiveKeeps ==
    ASSUME NvsReceive
    PROVE  UNCHANGED <<mailbox, readerVars, nvhVars>>
<1>. UNCHANGED nvhVars
  BY DEF NvsReceive
<1>1. CASE \E p \in Peers, ids \in IdSeqs(Blocks) : ProcessInvOfBlocks(p, ids)
  BY <1>1 DEF ProcessInvOfBlocks, RequestFrom
<1>2. CASE \E p \in Peers, ids \in IdSeqs(Txs) : ProcessInvOfTransactions(p, ids)
  BY <1>2 DEF ProcessInvOfTransactions, RequestFrom
<1>3. CASE \E p \in Peers, ids \in IdSeqs(Blocks) : \E encoding : BlocksFromRemote(p, ids, encoding)
  BY <1>3 DEF BlocksFromRemote
<1>4. CASE \E p \in Peers, ids \in IdSeqs(Txs) : \E encoding : TxsFromRemote(p, ids, encoding)
  BY <1>4 DEF TxsFromRemote
<1>. QED  BY <1>1, <1>2, <1>3, <1>4 DEF NvsReceive

\* Every step adds to the mailbox or takes its first message.
LEMMA StepMail ==
    ASSUME IInv, [Next]_vars
    PROVE  AddsMail \/ TakesMail
<1>0. mailbox \in Seq(Message)
  BY IInvFacts
<1>1. CASE NvsReceive
  BY <1>0, <1>1, ReceiveKeeps, AddsNothing DEF nvhVars
<1>2. CASE UNCHANGED vars
  BY <1>0, <1>2, AddsNothing DEF vars, nvsVars, nvhVars
<1>. QED  BY <1>1, <1>2, NextCases, NvhMail, TimeoutMail, HandleMail

-----------------------------------------------------------------------------
(* The readers catch up                                                    *)

\* The last change in the mailbox is the latest, and when none is there it was read.
ReadersInv ==
    /\ LastIs(mailbox, "ChangedHistory", history)
    /\ "history" \in readers /\ ~HasKind(mailbox, "ChangedHistory") => historyReader = history
    /\ LastIs(mailbox, "ChangedMempool", mempool)
    /\ "mempool" \in readers /\ ~HasKind(mailbox, "ChangedMempool") => mempoolReader = mempool

\* The readers' invariant is kept.
LEMMA StepReaders ==
    ASSUME IInv, ReadersInv, [Next]_vars
    PROVE  ReadersInv'
<1>0. mailbox \in Seq(Message)
  BY IInvFacts
<1>1. CASE AddsMail
  <2>1. PICK e \in Seq(Message) : mailbox' = mailbox \o e /\ Tells(e)
    BY <1>1 DEF AddsMail
  <2>2. UNCHANGED <<readers, historyReader, mempoolReader>>
    BY <1>1 DEF AddsMail, readerVars
  <2>3. LastIs(mailbox \o e, "ChangedHistory", history') /\ LastIs(mailbox \o e, "ChangedMempool", mempool')
    BY <1>0, <2>1, ConcatLast DEF Tells, ReadersInv
  <2>4. /\ ~HasKind(mailbox \o e, "ChangedHistory") => ~HasKind(mailbox, "ChangedHistory") /\ history' = history
        /\ ~HasKind(mailbox \o e, "ChangedMempool") => ~HasKind(mailbox, "ChangedMempool") /\ mempool' = mempool
    BY <1>0, <2>1, ConcatHasKind DEF Tells
  <2>. QED  BY <2>1, <2>2, <2>3, <2>4 DEF ReadersInv
<1>2. CASE TakesMail
  <2>1. mailbox # <<>> /\ mailbox' = Tail(mailbox) /\ UNCHANGED <<history, mempool>>
    BY <1>2 DEF TakesMail
  <2>2. /\ LastIs(Tail(mailbox), "ChangedHistory", history) /\ LastIs(Tail(mailbox), "ChangedMempool", mempool)
        /\ Head(mailbox).kind = "ChangedHistory" /\ ~HasKind(Tail(mailbox), "ChangedHistory")
             => Head(mailbox).contents = history
        /\ Head(mailbox).kind = "ChangedMempool" /\ ~HasKind(Tail(mailbox), "ChangedMempool")
             => Head(mailbox).contents = mempool
    BY <1>0, <2>1, TailLast DEF ReadersInv
  <2>3. \A k : HasKind(mailbox, k) <=> Head(mailbox).kind = k \/ HasKind(Tail(mailbox), k)
    BY <1>0, <2>1, TailHasKind
  <2>. QED  BY <1>2, <2>1, <2>2, <2>3 DEF ReadersInv, TakesMail
<1>. QED  BY <1>1, <1>2, StepMail

\* It holds at the start.
LEMMA InitReaders == Init => ReadersInv
<1>. SUFFICES ASSUME Init PROVE ReadersInv
  OBVIOUS
<1>1. Len(mailbox) = 0 /\ readers = {}
  BY DEF Init, NvsInit
<1>. QED  BY <1>1 DEF ReadersInv, LastIs, HasKind

\* The indices of the mailbox.
LEMMA DomainOfMailbox ==
    ASSUME IInv
    PROVE  DOMAIN mailbox = 1..Len(mailbox)
BY IInvFacts

\* The synchronizer decides what to request by what the node holds as soon as it has
\* read the changes the NodeViewHolder told of.
THEOREM ReadersAlwaysCatchUp == Spec => []ReadersCatchUp
<1>1. IInv /\ ReadersInv /\ [Next]_vars => ReadersInv'
  BY StepReaders
<1>2. IInv /\ ReadersInv => ReadersCatchUp
  BY DomainOfMailbox DEF ReadersInv, ReadersCatchUp, HasKind, InMailbox
<1>. QED  BY <1>1, <1>2, InitReaders, InductiveInvariant, PTL DEF Spec

-----------------------------------------------------------------------------
(* The rebroadcast of transactions held back in slow mode                  *)

RebroadcastInv ==
    /\ rebroadcastQueue # <<>> => RebroadcastEnabled
    /\ rebroadcastQueue # <<>> /\ ~slowMode =>
         rebroadcastTimer \/ HasKind(mailbox, "TransactionRebroadcast")

\* Samples of the processing time may carry it across the threshold any number of
\* times: whenever slow mode is left, the rebroadcast is scheduled.
LEMMA SamplesSchedule ==
    ASSUME slowMode \in BOOLEAN, rebroadcastTimer \in BOOLEAN, NEW n,
           UpdateProcessingTime(n), rebroadcastQueue # <<>>, RebroadcastEnabled, ~slowMode'
    PROVE  rebroadcastTimer' \/ (~slowMode /\ rebroadcastTimer' = rebroadcastTimer)
<1>1. PICK crossings \in Int :
        /\ crossings >= 0
        /\ slowMode' = (slowMode = (crossings % 2 = 0))
        /\ rebroadcastTimer' =
             IF crossings >= (IF slowMode THEN 1 ELSE 2)
             THEN ScheduleRebroadcastIfNeeded(rebroadcastQueue, rebroadcastTimer)
             ELSE rebroadcastTimer
  BY DEF UpdateProcessingTime
<1>2. ScheduleRebroadcastIfNeeded(rebroadcastQueue, rebroadcastTimer)
  BY DEF ScheduleRebroadcastIfNeeded
<1>3. CASE slowMode
  <2>1. ASSUME crossings = 0 PROVE FALSE
    <3>1. crossings % 2 = 0
      BY <2>1
    <3>2. slowMode' <=> slowMode
      BY <1>1, <3>1, Zenon
    <3>. QED  BY <1>3, <3>2
  <2>. QED  BY <1>1, <1>2, <1>3, <2>1
<1>4. CASE ~slowMode
  BY <1>1, <1>2, <1>4
<1>. QED  BY <1>3, <1>4

\* A step that adds nothing to the queue.
LEMMA SlowStep ==
    ASSUME TrackerTypeOK, RebroadcastInv, UNCHANGED rebroadcastQueue,
           UNCHANGED slowVars \/ \E n : UpdateProcessingTime(n),
           HasKind(mailbox, "TransactionRebroadcast") => HasKind(mailbox', "TransactionRebroadcast")
    PROVE  RebroadcastInv'
<1>1. CASE UNCHANGED slowVars
  BY <1>1 DEF RebroadcastInv, slowVars
<1>2. ASSUME NEW n, UpdateProcessingTime(n)
      PROVE  RebroadcastInv'
  <2>1. ASSUME rebroadcastQueue # <<>>, ~slowMode'
        PROVE  rebroadcastTimer' \/ HasKind(mailbox', "TransactionRebroadcast")
    <3>1. RebroadcastEnabled /\ slowMode \in BOOLEAN /\ rebroadcastTimer \in BOOLEAN
      BY <2>1 DEF RebroadcastInv, TrackerTypeOK
    <3>2. rebroadcastTimer' \/ (~slowMode /\ rebroadcastTimer' = rebroadcastTimer)
      BY <1>2, <2>1, <3>1, SamplesSchedule
    <3>. QED  BY <2>1, <3>2 DEF RebroadcastInv
  <2>. QED  BY <2>1 DEF RebroadcastInv
<1>. QED  BY <1>1, <1>2

\* Handling a message keeps the rebroadcast scheduled.
LEMMA HandleRebroadcasts ==
    ASSUME IInv, RebroadcastInv, NvsHandle, UNCHANGED nvhVars
    PROVE  RebroadcastInv'
<1>0. TrackerTypeOK /\ mailbox \in Seq(Message)
  BY IInvFacts DEF TrackerInv
<1>1. ASSUME Head(mailbox).kind # "TransactionRebroadcast"
      PROVE  HasKind(mailbox, "TransactionRebroadcast") => HasKind(mailbox', "TransactionRebroadcast")
  <2>1. TakesMail
    BY HandleMail
  <2>. QED  BY <1>0, <1>1, <2>1, TailHasKind DEF TakesMail
<1>2. CASE HandleTransactionRebroadcast
  <2> DEFINE mods == GetRebroadcastModifiers
             present == IF "mempool" \in readers
                        THEN {i \in DOMAIN mods : mods[i] \in mempoolReader} ELSE {}
             after == AfterGetRebroadcastModifiers
  <2>1. PICK f \in Enumerations(present) : BroadcastTransactions(slowMode, after, IdsAt(mods, f))
    BY <1>2 DEF HandleTransactionRebroadcast
  <2>2. /\ rebroadcastTimer' = ScheduleRebroadcastIfNeeded(rebroadcastQueue', rebroadcastTimer)
        /\ slowMode' = slowMode
    BY <1>2 DEF HandleTransactionRebroadcast
  <2>3. rebroadcastQueue \in Seq(Txs) /\ RebroadcastCount \in 0..Len(rebroadcastQueue)
    BY <1>0, TrackerAssumption DEF TrackerTypeOK, RebroadcastCount
  <2>4. rebroadcastQueue = <<>> => after = <<>>
    BY <2>3 DEF AfterGetRebroadcastModifiers
  <2> HIDE DEF mods, present, after
  <2>5. rebroadcastQueue' # <<>> => RebroadcastEnabled
    BY <2>1, <2>4 DEF BroadcastTransactions, PutInRebroadcastQueue, RebroadcastInv
  <2>6. rebroadcastQueue' # <<>> => rebroadcastTimer'
    BY <2>2, <2>5 DEF ScheduleRebroadcastIfNeeded
  <2>. QED  BY <2>5, <2>6 DEF RebroadcastInv
<1>3. CASE HandleSuccessfulTransaction
  <2> DEFINE t == Head(mailbox).id
  <2>0. Head(mailbox).kind # "TransactionRebroadcast"
    BY <1>3 DEF HandleSuccessfulTransaction, Handles
  <2>1. CASE HandlingTransactionsEnabled
    <3>1. /\ \E n : UpdateProcessingTime(n)
          /\ BroadcastTransactions(slowMode', rebroadcastQueue, <<t>>)
      BY <1>3, <2>1 DEF HandleSuccessfulTransaction, SetHeld, ClearStatus
    <3>2. PICK n : UpdateProcessingTime(n)
      BY <3>1
    <3>3. rebroadcastQueue' # <<>> => RebroadcastEnabled
      BY <3>1 DEF BroadcastTransactions, PutInRebroadcastQueue, RebroadcastInv
    <3>4. ASSUME rebroadcastQueue' # <<>>, ~slowMode'
          PROVE  rebroadcastTimer' \/ HasKind(mailbox', "TransactionRebroadcast")
      <4>1. rebroadcastQueue' = rebroadcastQueue
        BY <3>1, <3>4 DEF BroadcastTransactions
      <4>2. slowMode \in BOOLEAN /\ rebroadcastTimer \in BOOLEAN /\ RebroadcastEnabled
        BY <1>0, <3>3, <3>4 DEF TrackerTypeOK
      <4>3. rebroadcastTimer' \/ (~slowMode /\ rebroadcastTimer' = rebroadcastTimer)
        BY <3>2, <3>4, <4>1, <4>2, SamplesSchedule
      <4>. QED  BY <1>1, <2>0, <3>4, <4>1, <4>3 DEF RebroadcastInv
    <3>. QED  BY <3>3, <3>4 DEF RebroadcastInv
  <2>2. CASE ~HandlingTransactionsEnabled
    <3>1. UNCHANGED rebroadcastQueue /\ UNCHANGED slowVars
      BY <1>3, <2>2 DEF HandleSuccessfulTransaction, trackerVars
    <3>. QED  BY <1>0, <1>1, <2>0, <3>1, SlowStep
  <2>. QED  BY <2>1, <2>2
<1>4. CASE /\ Head(mailbox).kind # "TransactionRebroadcast"
           /\ UNCHANGED rebroadcastQueue
           /\ UNCHANGED slowVars \/ \E n : UpdateProcessingTime(n)
  BY <1>0, <1>1, <1>4, SlowStep
<1>5. CASE HandleCheckDelivery
  <2>1. \/ UNCHANGED trackerVars
        \/ ClearStatus({Head(mailbox).id}) /\ UNCHANGED rebroadcastQueue
        \/ OnStillWaiting(Head(mailbox).peer, Head(mailbox).id)
    BY <1>5 DEF HandleCheckDelivery
  <2>. QED  BY <1>4, <1>5, <2>1 DEF HandleCheckDelivery, Handles, ClearStatus, OnStillWaiting, trackerVars
<1>6. CASE HandleFailedTransaction \/ HandleSyntacticallySuccessful \/ HandleFailedModification
  BY <1>4, <1>6 DEF HandleFailedTransaction, HandleSyntacticallySuccessful, HandleFailedModification,
     Handles, SetHeld, SetInvalid, ClearStatus, trackerVars
<1>7. CASE HandleModifiersProcessingResult
  BY <1>4, <1>7 DEF HandleModifiersProcessingResult, Handles, SetUnknown, ClearStatus
<1>8. CASE HandleSemanticallySuccessful \/ HandleChangedHistory \/ HandleChangedMempool
  BY <1>4, <1>8 DEF HandleSemanticallySuccessful, HandleChangedHistory, HandleChangedMempool, Handles, trackerVars
<1>. QED  BY <1>2, <1>3, <1>5, <1>6, <1>7, <1>8 DEF NvsHandle

\* Every step does.
LEMMA StepRebroadcast ==
    ASSUME IInv, RebroadcastInv, [Next]_vars
    PROVE  RebroadcastInv'
<1>0. TrackerTypeOK /\ mailbox \in Seq(Message)
  BY IInvFacts DEF TrackerInv
<1>1. ASSUME ~(NvsHandle /\ UNCHANGED nvhVars)
      PROVE  HasKind(mailbox, "TransactionRebroadcast") => HasKind(mailbox', "TransactionRebroadcast")
  <2>1. AddsMail
    BY <1>0, <1>1, NextCases, NvhMail, TimeoutMail, ReceiveKeeps, AddsNothing DEF nvhVars, vars, nvsVars
  <2>. QED  BY <1>0, <2>1, ConcatHasKind DEF AddsMail
<1>2. CASE NvsReceive
  <2>1. UNCHANGED rebroadcastQueue /\ (UNCHANGED slowVars \/ \E n : UpdateProcessingTime(n))
    <3>1. ASSUME NEW copies, NEW p, SetRequested(copies, p)
          PROVE  UNCHANGED rebroadcastQueue /\ UNCHANGED slowVars
      BY <3>1 DEF SetRequested
    <3>2. ASSUME NEW good, NEW bad, NEW p, SetReceivedOrInvalid(good, bad, p)
          PROVE  UNCHANGED rebroadcastQueue /\ \E n : UpdateProcessingTime(n)
      BY <3>2 DEF SetReceivedOrInvalid
    <3>3. ASSUME NEW p, NEW ids, ProcessInvOfBlocks(p, ids) \/ ProcessInvOfTransactions(p, ids)
          PROVE  UNCHANGED rebroadcastQueue /\ UNCHANGED slowVars
      BY <3>1, <3>3 DEF ProcessInvOfBlocks, ProcessInvOfTransactions, RequestFrom
    <3>4. ASSUME NEW p, NEW ids, NEW encoding,
                 BlocksFromRemote(p, ids, encoding) \/ TxsFromRemote(p, ids, encoding)
          PROVE  UNCHANGED rebroadcastQueue /\ \E n : UpdateProcessingTime(n)
      BY <3>2, <3>4 DEF BlocksFromRemote, TxsFromRemote
    <3>. QED  BY <1>2, <3>3, <3>4 DEF NvsReceive
  <2>. QED  BY <1>0, <1>2, <2>1, ReceiveKeeps, SlowStep
<1>3. CASE NvsTimeout
  <2>1. CASE RebroadcastTimeout
    <3>1. mailbox' = Append(mailbox, TransactionRebroadcast) /\ UNCHANGED <<rebroadcastQueue, slowMode>>
      BY <2>1 DEF RebroadcastTimeout
    <3>2. TransactionRebroadcast \in Message /\ TransactionRebroadcast.kind = "TransactionRebroadcast"
      BY DEF TransactionRebroadcast, Message
    <3>3. /\ Len(mailbox') \in 1..Len(mailbox') /\ mailbox'[Len(mailbox')] = TransactionRebroadcast
      BY <1>0, <3>1, <3>2, AppendProperties
    <3>4. HasKind(mailbox', "TransactionRebroadcast")
      BY <3>2, <3>3 DEF HasKind
    <3>. QED  BY <3>1, <3>4 DEF RebroadcastInv
  <2>2. CASE ~RebroadcastTimeout
    <3>1. UNCHANGED rebroadcastQueue /\ UNCHANGED slowVars
      BY <1>3, <2>2 DEF NvsTimeout, DeliveryTimeout, OrphanTimeout
    <3>2. HasKind(mailbox, "TransactionRebroadcast") => HasKind(mailbox', "TransactionRebroadcast")
      <4>1. AddsMail
        BY <1>3, TimeoutMail
      <4>. QED  BY <1>0, <4>1, ConcatHasKind DEF AddsMail
    <3>. QED  BY <1>0, <3>1, <3>2, SlowStep
  <2>. QED  BY <2>1, <2>2
<1>4. CASE NvhNext
  <2>1. UNCHANGED rebroadcastQueue /\ UNCHANGED slowVars
    BY <1>4
    DEF NvhNext, NvhGetNodeViewChanges, NvhModifiersFromRemote, NvhApplyCandidate, NvhFinish,
        NvhTransactionsFromRemote, NvhLocallyGeneratedModifier, NvhLocallyGeneratedTransaction,
        NvhEliminateTransaction, nvsOwnVars, trackerVars
  <2>2. HasKind(mailbox, "TransactionRebroadcast") => HasKind(mailbox', "TransactionRebroadcast")
    <3>1. AddsMail
      BY <1>4, NvhMail
    <3>. QED  BY <1>0, <3>1, ConcatHasKind DEF AddsMail
  <2>. QED  BY <1>0, <2>1, <2>2, SlowStep
<1>5. CASE UNCHANGED vars
  BY <1>0, <1>5, SlowStep DEF vars, nvsVars, trackerVars
<1>. QED  BY <1>2, <1>3, <1>4, <1>5, NextCases, HandleRebroadcasts

\* Out of slow mode, transactions wait in the queue only while their rebroadcast is
\* scheduled or about to be handled.
THEOREM RebroadcastAlwaysScheduled == Spec => []RebroadcastIsScheduled
<1>1. Init => RebroadcastInv
  BY DEF Init, NvsInit, TrackerInit, RebroadcastInv
<1>2. IInv /\ RebroadcastInv /\ [Next]_vars => RebroadcastInv'
  BY StepRebroadcast
<1>3. IInv /\ RebroadcastInv => RebroadcastIsScheduled
  BY DomainOfMailbox DEF RebroadcastInv, RebroadcastIsScheduled, HasKind, InMailbox
<1>. QED  BY <1>1, <1>2, <1>3, InductiveInvariant, PTL DEF Spec

-----------------------------------------------------------------------------
(* Messages of a set M in a mailbox: whether there is one, and at most one *)

Occurs(s, M) == \E i \in 1..Len(s) : s[i] \in M
Once(s, M) == \A i, j \in 1..Len(s) : s[i] \in M /\ s[j] \in M => i = j

\* Messages of a set, and their being at most one, in a tail.
LEMMA TailOccurs ==
    ASSUME NEW S, NEW s \in Seq(S), s # <<>>, NEW M
    PROVE  /\ Occurs(s, M) <=> Head(s) \in M \/ Occurs(Tail(s), M)
           /\ Once(s, M) => Once(Tail(s), M) /\ (Head(s) \in M => ~Occurs(Tail(s), M))
<1> DEFINE t == Tail(s)
<1>1. /\ Len(t) = Len(s) - 1 /\ Len(s) \in Nat /\ Len(s) >= 1
      /\ \A i \in 1..(Len(s) - 1) : t[i] = s[i + 1]
      /\ Head(s) = s[1]
  BY TailIndex
<1> HIDE DEF t
<1>2. ASSUME NEW i \in 1..Len(s), s[i] \in M, i # 1
      PROVE  Occurs(t, M)
  <2>1. i - 1 \in 1..Len(t) /\ t[i - 1] = s[(i - 1) + 1] /\ (i - 1) + 1 = i
    BY <1>1, <1>2
  <2>. QED  BY <1>2, <2>1 DEF Occurs
<1>3. \A i \in 1..Len(t) : i + 1 \in 1..Len(s) /\ i + 1 # 1 /\ t[i] = s[i + 1]
  BY <1>1
<1>4. 1 \in 1..Len(s)
  BY <1>1
<1>5. Occurs(s, M) <=> Head(s) \in M \/ Occurs(t, M)
  <2>1. Occurs(s, M) => Head(s) \in M \/ Occurs(t, M)
    BY <1>1, <1>2 DEF Occurs
  <2>2. Head(s) \in M => Occurs(s, M)
    BY <1>1, <1>4 DEF Occurs
  <2>3. Occurs(t, M) => Occurs(s, M)
    BY <1>3 DEF Occurs
  <2>. QED  BY <2>1, <2>2, <2>3
<1>6. ASSUME Once(s, M) PROVE Once(t, M)
  <2>1. ASSUME NEW i \in 1..Len(t), NEW j \in 1..Len(t), t[i] \in M, t[j] \in M
        PROVE  i = j
    <3>1. i + 1 = j + 1
      BY <1>3, <1>6, <2>1 DEF Once
    <3>. QED  BY <3>1
  <2>. QED  BY <2>1 DEF Once
<1>7. ASSUME Once(s, M), Head(s) \in M PROVE ~Occurs(t, M)
  BY <1>1, <1>3, <1>4, <1>7 DEF Once, Occurs
<1>. QED  BY <1>5, <1>6, <1>7 DEF t

\* The same in a concatenation.
LEMMA ConcatOccurs ==
    ASSUME NEW S, NEW s \in Seq(S), NEW e \in Seq(S), NEW M
    PROVE  /\ Occurs(s \o e, M) <=> Occurs(s, M) \/ Occurs(e, M)
           /\ Once(s, M) /\ Once(e, M) /\ ~(Occurs(s, M) /\ Occurs(e, M)) => Once(s \o e, M)
<1> DEFINE c == s \o e
<1>1. /\ Len(s) \in Nat /\ Len(e) \in Nat
      /\ \A i \in 1..Len(s) : i \in 1..Len(c) /\ c[i] = s[i]
      /\ \A i \in 1..Len(e) : Len(s) + i \in 1..Len(c) /\ c[Len(s) + i] = e[i]
      /\ \A i \in 1..Len(c) : i \in 1..Len(s) \/ (i - Len(s) \in 1..Len(e) /\ i > Len(s))
      /\ Len(c) \in Nat
  BY ConcatIndex
<1> HIDE DEF c
<1>2. ASSUME NEW i \in 1..Len(c), i \notin 1..Len(s)
      PROVE  i - Len(s) \in 1..Len(e) /\ c[i] = e[i - Len(s)]
  <2>1. i - Len(s) \in 1..Len(e) /\ Len(s) + (i - Len(s)) = i
    BY <1>1, <1>2
  <2>2. c[Len(s) + (i - Len(s))] = e[i - Len(s)]
    BY <1>1, <2>1
  <2>. QED  BY <2>1, <2>2
<1>3. Occurs(c, M) => Occurs(s, M) \/ Occurs(e, M)
  BY <1>1, <1>2 DEF Occurs
<1>4. Occurs(s, M) \/ Occurs(e, M) => Occurs(c, M)
  BY <1>1 DEF Occurs
<1>5. ASSUME Once(s, M), Once(e, M), ~(Occurs(s, M) /\ Occurs(e, M)),
             NEW i \in 1..Len(c), NEW j \in 1..Len(c), c[i] \in M, c[j] \in M
      PROVE  i = j
  <2>1. CASE i \in 1..Len(s) /\ j \in 1..Len(s)
    BY <1>1, <1>5, <2>1 DEF Once
  <2>2. CASE i \notin 1..Len(s) /\ j \notin 1..Len(s)
    <3>1. i - Len(s) = j - Len(s)
      BY <1>2, <1>5, <2>2 DEF Once
    <3>. QED  BY <1>1, <3>1
  <2>3. CASE i \in 1..Len(s) /\ j \notin 1..Len(s)
    BY <1>1, <1>2, <1>5, <2>3 DEF Occurs
  <2>4. CASE i \notin 1..Len(s) /\ j \in 1..Len(s)
    BY <1>1, <1>2, <1>5, <2>4 DEF Occurs
  <2>. QED  BY <2>1, <2>2, <2>3, <2>4
<1>. QED  BY <1>3, <1>4, <1>5 DEF Once, c

\* The same in a sequence of one.
LEMMA OneOccurs ==
    ASSUME NEW a, NEW M
    PROVE  (Occurs(<<a>>, M) <=> a \in M) /\ Once(<<a>>, M)
<1> DEFINE s == <<a>>
<1>1. Len(s) = 1 /\ s[1] = a
  OBVIOUS
<1> HIDE DEF s
<1>2. 1 \in 1..Len(s) /\ \A i \in 1..Len(s) : i = 1
  BY <1>1
<1>. QED  BY <1>1, <1>2 DEF Occurs, Once, s

\* Occurrence in a sequence of two.
LEMMA TwoOccur ==
    ASSUME NEW a, NEW b, NEW M
    PROVE  Occurs(<<a, b>>, M) <=> a \in M \/ b \in M
<1> DEFINE s == <<a, b>>
<1>1. Len(s) = 2 /\ s[1] = a /\ s[2] = b
  OBVIOUS
<1> HIDE DEF s
<1>2. 1 \in 1..Len(s) /\ 2 \in 1..Len(s) /\ \A i \in 1..Len(s) : i = 1 \/ i = 2
  BY <1>1
<1>. QED  BY <1>1, <1>2 DEF Occurs, s

\* What does not occur occurs once at most.
LEMMA NeverOnce ==
    ASSUME NEW s, NEW M, ~Occurs(s, M)
    PROVE  Once(s, M)
BY DEF Occurs, Once

-----------------------------------------------------------------------------
(* What a step does to the status of modifiers, and to what is on the way  *)

Brings(mods, id) == \E j \in DOMAIN mods : mods[j] = id
At(ids, P) == {ids[i] : i \in P}

\* Messages to the NodeViewHolder that bring the modifier id.
Carriers(id) ==
    {m \in NvhMessage :
        /\ m.kind \in {"ModifiersFromRemote", "TransactionsFromRemote"}
        /\ Brings(m.mods, id)}

\* Reports that the modifier id was thrown out of the cache.
Clearers(id) == {m \in Message : m.kind = "ModifiersProcessingResult" /\ id \in m.cleared}

\* Forwarded, by the messages that carry a modifier.
LEMMA ForwardedOccurs ==
    ASSUME nvhMailbox \in Seq(NvhMessage), NEW id
    PROVE  Forwarded(id) <=> Occurs(nvhMailbox, Carriers(id))
<1>1. DOMAIN nvhMailbox = 1..Len(nvhMailbox) /\ \A i \in 1..Len(nvhMailbox) : nvhMailbox[i] \in NvhMessage
  OBVIOUS
<1>. QED  BY <1>1 DEF Forwarded, Occurs, Carriers, Brings

\* An enumeration of positions leaves none out.
LEMMA EnumerationsReach ==
    ASSUME NEW P, P \subseteq Int, IsFiniteSet(P), NEW f \in Enumerations(P), NEW i \in P
    PROVE  \E n \in DOMAIN f : f[n] = i
<1> DEFINE C == Cardinality(P)
<1>1. C \in Nat /\ f \in [1..C -> P] /\ \A m, n \in 1..C : m < n => f[m] < f[n]
  BY FS_CardinalityType DEF Enumerations
<1> HIDE DEF C
<1>2. ASSUME NEW m \in 1..C, NEW n \in 1..C, f[m] = f[n]
      PROVE  m = n
  <2>1. f[m] \in Int /\ f[n] \in Int
    BY <1>1
  <2>2. ~(m < n) /\ ~(n < m)
    BY <1>1, <1>2, <2>1
  <2>. QED  BY <1>1, <2>2
<1>3. f \in Injection(1..C, P)
  BY <1>1, <1>2 DEF Injection, IsInjective
<1>4. Cardinality(1..C) = C
  BY <1>1, FS_Interval
<1>5. f \in Surjection(1..C, P)
  BY <1>3, <1>4, FS_Injection DEF C
<1>. QED  BY <1>1, <1>5 DEF Surjection

\* A message with the modifiers at the positions P brings these and no other.
LEMMA IdsAtCarried ==
    ASSUME NEW ids, NEW P, P \subseteq Int, IsFiniteSet(P), NEW f \in Enumerations(P), NEW id
    PROVE  Brings(IdsAt(ids, f), id) <=> id \in At(ids, P)
<1>1. f \in [1..Cardinality(P) -> P]
  BY DEF Enumerations
<1>2. DOMAIN IdsAt(ids, f) = DOMAIN f /\ \A j \in DOMAIN f : IdsAt(ids, f)[j] = ids[f[j]] /\ f[j] \in P
  BY <1>1 DEF IdsAt
<1>3. ASSUME NEW i \in P, ids[i] = id
      PROVE  \E j \in DOMAIN IdsAt(ids, f) : IdsAt(ids, f)[j] = id
  <2>1. PICK n \in DOMAIN f : f[n] = i
    BY EnumerationsReach
  <2>. QED  BY <1>2, <1>3, <2>1
<1>. QED  BY <1>2, <1>3 DEF Brings, At

\* Unknown modifiers are asked for.
Asks ==
    /\ \E S \in SUBSET Ids :
          /\ \A id \in S : ~IsReceived(id) /\ ~IsRequested(id) /\ id \notin invalid
          /\ \A id \in Ids : IsRequested(id)' <=> id \in S \/ IsRequested(id)
          /\ ~HandlingTransactionsEnabled => S \cap Txs = {}
    /\ UNCHANGED <<received, invalid, mailbox, nvhMailbox, nvhVars>>

\* Modifiers that were asked for come; `good` are sent on, `bad` are found invalid.
Takes(good, bad) ==
    /\ \A id \in good \cup bad : id \in Ids /\ IsRequested(id) /\ ~IsReceived(id)
    /\ \A id \in Ids : IsRequested(id)' <=> IsRequested(id) /\ id \notin good \cup bad
    /\ \A id \in Ids : IsReceived(id)' <=> IsReceived(id) \/ id \in good \ bad
    /\ invalid' = invalid \cup bad
    /\ \/ good = {} /\ nvhMailbox' = nvhMailbox
       \/ \E m \in NvhMessage :
             /\ nvhMailbox' = nvhMailbox \o <<m>>
             /\ \A id : m \in Carriers(id) <=> id \in good
    /\ UNCHANGED <<mailbox, nvhVars>>

\* An Inv only adds requests, of modifiers that are not known.
LEMMA AskEffect ==
    ASSUME IInv, NEW p \in Peers, UNCHANGED nvhVars,
           \/ \E ids \in IdSeqs(Blocks) : ProcessInvOfBlocks(p, ids)
           \/ \E ids \in IdSeqs(Txs) : ProcessInvOfTransactions(p, ids)
    PROVE  Asks
<1>0. requested \in [Ids -> Peers \cup {NoPeer}] /\ NoPeer \notin Peers
  BY IInvFacts, TrackerAssumption DEF TrackerInv, TrackerTypeOK
<1>1. PICK ids, kept : /\ RequestFrom(p, ids, kept)
                       /\ \A i \in kept : ids[i] \in Ids
                       /\ ~HandlingTransactionsEnabled => \A i \in kept : ids[i] \in Blocks
  <2>1. ASSUME NEW ids \in IdSeqs(Blocks), ProcessInvOfBlocks(p, ids)
        PROVE  \E kept : /\ RequestFrom(p, ids, kept)
                         /\ \A i \in kept : ids[i] \in Ids
                         /\ ~HandlingTransactionsEnabled => \A i \in kept : ids[i] \in Blocks
    <3> DEFINE kept == NewModifierIds(ids, historyReader, GetPeerLimit(p))
    <3>1. \A i \in kept : ids[i] \in Blocks
      BY <2>1, IdSeqsFacts DEF NewModifierIds
    <3>2. RequestFrom(p, ids, kept)
      BY <2>1 DEF ProcessInvOfBlocks
    <3> HIDE DEF kept
    <3>. QED  BY <3>1, <3>2 DEF Ids
  <2>2. ASSUME NEW ids \in IdSeqs(Txs), ProcessInvOfTransactions(p, ids)
        PROVE  \E kept : /\ RequestFrom(p, ids, kept)
                         /\ \A i \in kept : ids[i] \in Ids
                         /\ ~HandlingTransactionsEnabled => \A i \in kept : ids[i] \in Blocks
    <3> DEFINE kept == NewModifierIds(ids, mempoolReader, GetPeerLimit(p))
    <3>1. \A i \in kept : ids[i] \in Txs
      BY <2>2, IdSeqsFacts DEF NewModifierIds
    <3>2. RequestFrom(p, ids, kept) /\ HandlingTransactionsEnabled
      BY <2>2 DEF ProcessInvOfTransactions
    <3> HIDE DEF kept
    <3>. QED  BY <3>1, <3>2 DEF Ids
  <2>. QED  BY <2>1, <2>2
<1> DEFINE new == {ids[i] : i \in kept}
           copies == [id \in new |-> Cardinality({i \in kept : ids[i] = id})]
           asked == {id \in new : Status(id, {}) = "Unknown"}
<1>2. SetRequested(copies, p) /\ UNCHANGED <<mailbox, nvhMailbox>> /\ DOMAIN copies = new
  BY <1>1 DEF RequestFrom
<1>3. new \subseteq Ids /\ (~HandlingTransactionsEnabled => new \subseteq Blocks)
  BY <1>1
<1> HIDE DEF new, copies
<1>4. /\ requested' = [id \in Ids |-> IF id \in asked THEN p ELSE requested[id]]
      /\ UNCHANGED <<received, invalid>>
  BY <1>2 DEF SetRequested
<1>5. /\ asked \subseteq Ids
      /\ \A id \in asked : ~IsReceived(id) /\ ~IsRequested(id) /\ id \notin invalid
  BY <1>3 DEF Status
<1>6. ~HandlingTransactionsEnabled => asked \cap Txs = {}
  BY <1>3, TrackerAssumption
<1> HIDE DEF asked
<1>7. \A id \in Ids : IsRequested(id)' <=> id \in asked \/ IsRequested(id)
  BY <1>0, <1>4 DEF IsRequested
<1>. QED  BY <1>2, <1>4, <1>5, <1>6, <1>7 DEF Asks

\* A request ends as Received or invalid.
LEMMA SetReceivedOrInvalidEffect ==
    ASSUME TrackerInv, NEW p \in Peers, NEW good, NEW bad,
           \A id \in good \cup bad : id \in Ids /\ IsRequested(id) /\ ~IsReceived(id),
           SetReceivedOrInvalid(good, bad, p)
    PROVE  /\ \A id \in Ids : IsRequested(id)' <=> IsRequested(id) /\ id \notin good \cup bad
           /\ \A id \in Ids : IsReceived(id)' <=> IsReceived(id) \/ id \in good \ bad
           /\ invalid' = invalid \cup bad
<1>0. p # NoPeer
  BY TrackerAssumption
<1>1. /\ requested' = [id \in Ids |-> IF id \in good \cup bad THEN NoPeer ELSE requested[id]]
      /\ received' = [id \in Ids |-> IF id \in good \ bad THEN p ELSE received[id]]
      /\ invalid' = invalid \cup bad
  BY DEF SetReceivedOrInvalid
<1>. QED  BY <1>0, <1>1 DEF IsRequested, IsReceived

\* Modifiers with blocks: the good ones are forwarded together, once each.
LEMMA BlocksEffect ==
    ASSUME IInv, NEW p \in Peers, NEW ids \in IdSeqs(Blocks), NEW encoding,
           BlocksFromRemote(p, ids, encoding), UNCHANGED nvhVars
    PROVE  \E good, bad \in SUBSET Ids : Takes(good, bad)
<1>1. PICK rejected \in SUBSET Parsed(ids, encoding) :
        /\ SetReceivedOrInvalid({ids[i] : i \in Parsed(ids, encoding) \ rejected},
                                {ids[i] : i \in rejected}, p)
        /\ \E f \in Enumerations(Parsed(ids, encoding) \ rejected) :
              nvhMailbox' = IF Parsed(ids, encoding) \ rejected = {} THEN nvhMailbox
                            ELSE Append(nvhMailbox, ModifiersFromRemote(IdsAt(ids, f)))
        /\ UNCHANGED <<mailbox, readerVars>>
  BY DEF BlocksFromRemote
<1> DEFINE valid == Parsed(ids, encoding) \ rejected
           good == At(ids, valid)
           bad == At(ids, rejected)
<1>2. \A i \in Parsed(ids, encoding) :
        i \in DOMAIN ids /\ ids[i] \in Blocks /\ IsRequested(ids[i]) /\ ~IsReceived(ids[i])
  BY ParsedFacts, IdSeqsFacts
<1>3. \A id \in good \cup bad : id \in Ids /\ IsRequested(id) /\ ~IsReceived(id)
  BY <1>2 DEF Ids, At
<1>4. SetReceivedOrInvalid(good, bad, p)
  BY <1>1 DEF At
<1>5. PICK f \in Enumerations(valid) :
        nvhMailbox' = IF valid = {} THEN nvhMailbox
                      ELSE Append(nvhMailbox, ModifiersFromRemote(IdsAt(ids, f)))
  BY <1>1
<1>6. IsFiniteSet(valid) /\ valid \subseteq Int
  <2>1. valid \subseteq DOMAIN ids
    BY <1>2
  <2>2. DOMAIN ids \subseteq Int
    BY DEF IdSeqs
  <2>. QED  BY <2>1, <2>2, IdSeqsFacts, FS_Subset
<1>7. \A i \in valid : ids[i] \in Blocks
  BY <1>2
<1>8. valid = {} => good = {}
  BY DEF At
<1> DEFINE m == ModifiersFromRemote(IdsAt(ids, f))
<1>9. /\ IdsAt(ids, f) \in Seq(Blocks)
      /\ \A id : Brings(IdsAt(ids, f), id) <=> id \in good
  <2>1. IdsAt(ids, f) \in Seq(Blocks)
    BY <1>5, <1>6, <1>7, IdsAtIsSeq
  <2>2. ASSUME NEW id
        PROVE  Brings(IdsAt(ids, f), id) <=> id \in good
    <3> HIDE DEF valid
    <3>. QED  BY <1>5, <1>6, IdsAtCarried
  <2>. QED  BY <2>1, <2>2
<1>10. m \in NvhMessage /\ m.kind = "ModifiersFromRemote" /\ m.mods = IdsAt(ids, f)
  BY <1>9 DEF ModifiersFromRemote, NvhMessage
<1> HIDE DEF valid, good, bad, m
<1>11. \A id : m \in Carriers(id) <=> id \in good
  BY <1>9, <1>10 DEF Carriers
<1>12. nvhMailbox \in Seq(NvhMessage) /\ TrackerInv
  BY IInvFacts DEF RestTypeOK
<1>13. \/ good = {} /\ nvhMailbox' = nvhMailbox
       \/ nvhMailbox' = nvhMailbox \o <<m>>
  <2>1. CASE valid = {}
    BY <1>5, <1>8, <2>1
  <2>2. CASE valid # {}
    BY <1>5, <1>10, <1>12, <2>2, AppendIsConcat DEF m
  <2>. QED  BY <2>1, <2>2
<1>14. /\ \A id \in Ids : IsRequested(id)' <=> IsRequested(id) /\ id \notin good \cup bad
       /\ \A id \in Ids : IsReceived(id)' <=> IsReceived(id) \/ id \in good \ bad
       /\ invalid' = invalid \cup bad
  BY <1>3, <1>4, <1>12, SetReceivedOrInvalidEffect
<1>15. Takes(good, bad)
  BY <1>1, <1>3, <1>10, <1>11, <1>13, <1>14 DEF Takes
<1>16. good \in SUBSET Ids /\ bad \in SUBSET Ids
  BY <1>3
<1>. QED  BY <1>15, <1>16

\* Modifiers with transactions: the good ones are forwarded one by one.
LEMMA TxsEffect ==
    ASSUME IInv, NEW p \in Peers, NEW ids \in IdSeqs(Txs), NEW encoding,
           TxsFromRemote(p, ids, encoding), UNCHANGED nvhVars
    PROVE  \E good, bad \in SUBSET Ids : Takes(good, bad)
<1> DEFINE parsed == Parsed(ids, encoding)
           good == At(ids, parsed)
           bad == {}
<1>1. \A i \in parsed :
        i \in DOMAIN ids /\ ids[i] \in Txs /\ IsRequested(ids[i]) /\ ~IsReceived(ids[i])
  BY ParsedFacts, IdSeqsFacts
<1>2. \A id \in good \cup bad : id \in Ids /\ IsRequested(id) /\ ~IsReceived(id)
  BY <1>1 DEF Ids, At
<1>3. SetReceivedOrInvalid(good, bad, p) /\ UNCHANGED mailbox
  BY DEF At, TxsFromRemote
<1>4. PICK f \in Enumerations(parsed) :
        nvhMailbox' = Append(nvhMailbox, TransactionsFromRemote(IdsAt(ids, f)))
  BY DEF TxsFromRemote
<1>5. IsFiniteSet(parsed) /\ parsed \subseteq Int
  <2>1. parsed \subseteq DOMAIN ids
    BY <1>1
  <2>2. DOMAIN ids \subseteq Int
    BY DEF IdSeqs
  <2>. QED  BY <2>1, <2>2, IdSeqsFacts, FS_Subset
<1> DEFINE m == TransactionsFromRemote(IdsAt(ids, f))
<1>6. /\ IdsAt(ids, f) \in Seq(Txs)
      /\ \A id : Brings(IdsAt(ids, f), id) <=> id \in good
  <2>1. IdsAt(ids, f) \in Seq(Txs)
    BY <1>1, <1>4, <1>5, IdsAtIsSeq
  <2>2. ASSUME NEW id
        PROVE  Brings(IdsAt(ids, f), id) <=> id \in good
    <3> HIDE DEF parsed
    <3>. QED  BY <1>4, <1>5, IdsAtCarried
  <2>. QED  BY <2>1, <2>2
<1>7. m \in NvhMessage /\ m.kind = "TransactionsFromRemote" /\ m.mods = IdsAt(ids, f)
  BY <1>6 DEF TransactionsFromRemote, NvhMessage
<1> HIDE DEF parsed, good, bad, m
<1>8. \A id : m \in Carriers(id) <=> id \in good
  BY <1>6, <1>7 DEF Carriers
<1>9. nvhMailbox \in Seq(NvhMessage) /\ TrackerInv
  BY IInvFacts DEF RestTypeOK
<1>10. nvhMailbox' = nvhMailbox \o <<m>>
  BY <1>4, <1>7, <1>9, AppendIsConcat DEF m
<1>11. /\ \A id \in Ids : IsRequested(id)' <=> IsRequested(id) /\ id \notin good \cup bad
       /\ \A id \in Ids : IsReceived(id)' <=> IsReceived(id) \/ id \in good \ bad
       /\ invalid' = invalid \cup bad
  BY <1>2, <1>3, <1>9, SetReceivedOrInvalidEffect
<1>12. Takes(good, bad)
  BY <1>2, <1>3, <1>7, <1>8, <1>10, <1>11 DEF Takes
<1>13. good \in SUBSET Ids /\ bad \in SUBSET Ids
  BY <1>2
<1>. QED  BY <1>12, <1>13

\* What a message of a peer may do, in sum.
LEMMA ReceiveEffect ==
    ASSUME IInv, NvsReceive
    PROVE  Asks \/ \E good, bad \in SUBSET Ids : Takes(good, bad)
BY AskEffect, BlocksEffect, TxsEffect DEF NvsReceive

\* How the message m that is handled settles the modifiers S and finds `bad` invalid.
SettledBy(m, S, bad) ==
    \/ m.kind = "CheckDelivery" /\ bad = {} /\ \A id \in S : IsRequested(id)
    \/ m.kind \in {"SyntacticallySuccessfulModifier", "SuccessfulTransaction"} /\ S = {m.id} /\ bad = {}
    \/ /\ m.kind \in {"SyntacticallyFailedModification", "SemanticallyFailedModification", "FailedTransaction"}
       /\ S = {m.id} /\ bad = {m.id}
    \/ /\ m.kind = "ModifiersProcessingResult" /\ bad = {}
       /\ S \subseteq m.cleared /\ \A id \in m.cleared : IsReceived(id) => id \in S
    \/ /\ m.kind \in {"SemanticallySuccessfulModifier", "ChangedHistory", "ChangedMempool", "TransactionRebroadcast"}
       /\ S = {} /\ bad = {}
    \/ /\ m.kind \in {"SuccessfulTransaction", "FailedTransaction"} /\ ~HandlingTransactionsEnabled
       /\ S = {} /\ bad = {}

Clears(S, bad) ==
    /\ \A id \in Ids : IsRequested(id)' <=> IsRequested(id) /\ id \notin S
    /\ \A id \in Ids : IsReceived(id)' <=> IsReceived(id) /\ id \notin S
    /\ invalid' = invalid \cup bad

Settles(S, bad) ==
    /\ mailbox # <<>> /\ mailbox' = Tail(mailbox) /\ Head(mailbox) \in Message
    /\ SettledBy(Head(mailbox), S, bad)
    /\ Clears(S, bad)
    /\ UNCHANGED <<nvhMailbox, nvhVars>>

\* clearStatus forgets requests and receptions.
LEMMA ClearStatusClears ==
    ASSUME NEW S, NEW bad, ClearStatus(S), invalid' = invalid \cup bad
    PROVE  Clears(S, bad)
<1>1. /\ requested' = [id \in Ids |-> IF id \in S THEN NoPeer ELSE requested[id]]
      /\ received' = [id \in Ids |-> IF id \in S THEN NoPeer ELSE received[id]]
  BY DEF ClearStatus
<1>. QED  BY <1>1 DEF Clears, IsRequested, IsReceived

\* So does, of no modifier, a step that leaves the tracker alone.
LEMMA NothingClears ==
    ASSUME UNCHANGED <<requested, received, invalid>>
    PROVE  Clears({}, {})
BY DEF Clears, IsRequested, IsReceived

\* A check only ends requests.
LEMMA CheckDeliveryEffect ==
    ASSUME IInv, HandleCheckDelivery, UNCHANGED nvhVars
    PROVE  \E S, bad \in SUBSET Ids : bad \subseteq S /\ Settles(S, bad)
<1> DEFINE m == Head(mailbox)
<1>1. /\ mailbox # <<>> /\ mailbox' = Tail(mailbox) /\ UNCHANGED nvhMailbox
      /\ m \in Message /\ m.kind = "CheckDelivery"
  BY HandlesFacts DEF HandleCheckDelivery
<1>2. m.peer \in Peers /\ m.id \in Ids
  BY <1>1, MessageFields
<1>3. requested \in [Ids -> Peers \cup {NoPeer}] /\ NoPeer \notin Peers
  BY IInvFacts, TrackerAssumption DEF TrackerInv, TrackerTypeOK
<1>4. SUFFICES \E S \in SUBSET Ids : (\A id \in S : IsRequested(id)) /\ Clears(S, {})
  BY <1>1 DEF Settles, SettledBy
<1>5. CASE UNCHANGED trackerVars
  <2>1. Clears({}, {})
    BY <1>5, NothingClears DEF trackerVars, requestVars
  <2>. QED  BY <2>1
<1>6. CASE Status(m.id, {}) = "Requested" /\ ClearStatus({m.id}) /\ UNCHANGED invalid
  <2>1. IsRequested(m.id)
    BY <1>6 DEF Status
  <2>2. invalid' = invalid \cup {}
    BY <1>6
  <2>3. Clears({m.id}, {})
    BY <1>6, <2>2, ClearStatusClears
  <2>. QED  BY <1>2, <2>1, <2>3
<1>7. CASE Status(m.id, {}) = "Requested" /\ OnStillWaiting(m.peer, m.id)
  <2>1. IsRequested(m.id) /\ UNCHANGED <<received, invalid>>
    BY <1>7 DEF Status, OnStillWaiting
  <2>2. requested' = [requested EXCEPT ![m.id] = m.peer] \/ requested' = [requested EXCEPT ![m.id] = NoPeer]
    BY <1>7 DEF OnStillWaiting
  <2> HIDE DEF m
  <2>3. CASE requested' = [requested EXCEPT ![m.id] = m.peer]
    <3>1. \A id \in Ids : IsRequested(id)' <=> IsRequested(id)
      BY <1>2, <1>3, <2>1, <2>3 DEF IsRequested
    <3>2. Clears({}, {})
      BY <2>1, <3>1 DEF Clears, IsReceived
    <3>. QED  BY <3>2
  <2>4. CASE requested' = [requested EXCEPT ![m.id] = NoPeer]
    <3>1. \A id \in Ids : IsRequested(id)' <=> IsRequested(id) /\ id \notin {m.id}
      BY <1>2, <1>3, <2>4 DEF IsRequested
    <3>2. ~IsReceived(m.id)
      BY <1>2, <2>1, IInvFacts DEF TrackerInv, StatusIsUnambiguous
    <3>3. \A id \in Ids : IsReceived(id)' <=> IsReceived(id) /\ id \notin {m.id}
      BY <2>1, <3>2 DEF IsReceived
    <3>4. Clears({m.id}, {})
      BY <2>1, <3>1, <3>3 DEF Clears
    <3>. QED  BY <1>2, <2>1, <3>4
  <2>. QED  BY <2>2, <2>3, <2>4
<1>. QED  BY <1>5, <1>6, <1>7 DEF HandleCheckDelivery

\* An event that concerns one modifier, or the report of those thrown out.
LEMMA EventEffect ==
    ASSUME IInv, UNCHANGED nvhVars, NEW kind, Handles(kind), NEW S \in SUBSET Ids, NEW bad \in SUBSET S,
           SettledBy(Head(mailbox), S, bad), Clears(S, bad)
    PROVE  \E T, b \in SUBSET Ids : b \subseteq T /\ Settles(T, b)
<1>1. Settles(S, bad)
  BY HandlesFacts DEF Settles
<1>2. bad \in SUBSET Ids
  OBVIOUS
<1>. QED  BY <1>1, <1>2

\* ModifiersProcessingResult is about blocks.
LEMMA ReportFields ==
    ASSUME NEW m \in Message, m.kind = "ModifiersProcessingResult"
    PROVE  m.cleared \subseteq Blocks
BY DEF Message, BlockEvents, TransactionRebroadcast

\* What handling a message may do: a status ends only by a message that says so.
LEMMA HandleEffect ==
    ASSUME IInv, NvsHandle, UNCHANGED nvhVars
    PROVE  \E S, bad \in SUBSET Ids : bad \subseteq S /\ Settles(S, bad)
<1> DEFINE m == Head(mailbox)
           none == {}
           one == {m.id}
<1>0. none \in SUBSET Ids /\ none \in SUBSET none /\ none \in SUBSET one /\ one \in SUBSET one
  OBVIOUS
<1>1. CASE HandleCheckDelivery
  BY <1>1, CheckDeliveryEffect
<1>2. CASE HandleSuccessfulTransaction
  <2>1. Handles("SuccessfulTransaction") /\ m.kind = "SuccessfulTransaction" /\ m.id \in Txs
    BY <1>2, HandlesFacts, MessageFields DEF HandleSuccessfulTransaction
  <2>2. CASE HandlingTransactionsEnabled
    <3>1. ClearStatus(one) /\ invalid' = invalid \cup none
      BY <1>2, <2>2 DEF HandleSuccessfulTransaction, SetHeld
    <3>2. SettledBy(m, one, none) /\ one \in SUBSET Ids
      BY <2>1 DEF SettledBy, Ids
    <3> HIDE DEF m, none, one
    <3>3. Clears(one, none)
      BY <3>1, ClearStatusClears
    <3>. QED  BY <1>0, <2>1, <3>2, <3>3, EventEffect DEF m
  <2>3. CASE ~HandlingTransactionsEnabled
    <3>1. Clears(none, none)
      BY <1>2, <2>3, NothingClears DEF HandleSuccessfulTransaction, trackerVars, requestVars
    <3>2. SettledBy(m, none, none)
      BY <2>1, <2>3 DEF SettledBy
    <3> HIDE DEF m, none, one
    <3>. QED  BY <1>0, <2>1, <3>1, <3>2, EventEffect DEF m
  <2>. QED  BY <2>2, <2>3
<1>3. CASE HandleFailedTransaction
  <2>1. Handles("FailedTransaction") /\ m.kind = "FailedTransaction" /\ m.id \in Txs
    BY <1>3, HandlesFacts, MessageFields DEF HandleFailedTransaction
  <2>2. CASE HandlingTransactionsEnabled
    <3>1. ClearStatus(one) /\ invalid' = invalid \cup one
      BY <1>3, <2>2 DEF HandleFailedTransaction, SetInvalid
    <3>2. SettledBy(m, one, one) /\ one \in SUBSET Ids
      BY <2>1 DEF SettledBy, Ids
    <3> HIDE DEF m, none, one
    <3>3. Clears(one, one)
      BY <3>1, ClearStatusClears
    <3>. QED  BY <1>0, <2>1, <3>2, <3>3, EventEffect DEF m
  <2>3. CASE ~HandlingTransactionsEnabled
    <3>1. Clears(none, none)
      BY <1>3, <2>3, NothingClears DEF HandleFailedTransaction, trackerVars, requestVars
    <3>2. SettledBy(m, none, none)
      BY <2>1, <2>3 DEF SettledBy
    <3> HIDE DEF m, none, one
    <3>. QED  BY <1>0, <2>1, <3>1, <3>2, EventEffect DEF m
  <2>. QED  BY <2>2, <2>3
<1>4. CASE HandleSyntacticallySuccessful
  <2>1. /\ Handles("SyntacticallySuccessfulModifier") /\ m.kind = "SyntacticallySuccessfulModifier"
        /\ m.id \in Blocks
    BY <1>4, HandlesFacts, MessageFields DEF HandleSyntacticallySuccessful, BlockEvents
  <2>2. ClearStatus(one) /\ invalid' = invalid \cup none
    BY <1>4 DEF HandleSyntacticallySuccessful, SetHeld
  <2>3. SettledBy(m, one, none) /\ one \in SUBSET Ids
    BY <2>1 DEF SettledBy, Ids
  <2> HIDE DEF m, none, one
  <2>4. Clears(one, none)
    BY <2>2, ClearStatusClears
  <2>. QED  BY <1>0, <2>1, <2>3, <2>4, EventEffect DEF m
<1>5. CASE HandleFailedModification
  <2>1. PICK kind : /\ kind \in {"SyntacticallyFailedModification", "SemanticallyFailedModification"}
                    /\ Handles(kind)
    BY <1>5 DEF HandleFailedModification
  <2>2. m.kind = kind /\ m.id \in Blocks
    BY <2>1, HandlesFacts, MessageFields DEF BlockEvents
  <2>3. ClearStatus(one) /\ invalid' = invalid \cup one
    BY <1>5 DEF HandleFailedModification, SetInvalid
  <2>4. SettledBy(m, one, one) /\ one \in SUBSET Ids
    BY <2>1, <2>2 DEF SettledBy, Ids
  <2> HIDE DEF m, none, one
  <2>5. Clears(one, one)
    BY <2>3, ClearStatusClears
  <2>. QED  BY <1>0, <2>1, <2>4, <2>5, EventEffect DEF m
<1>6. CASE HandleModifiersProcessingResult
  <2> DEFINE S == {id \in m.cleared : IsCorrectTransition(Status(id, {}), "Unknown")}
  <2>1. /\ Handles("ModifiersProcessingResult") /\ m.kind = "ModifiersProcessingResult"
        /\ m.cleared \subseteq Blocks
    <3>1. Handles("ModifiersProcessingResult") /\ m.kind = "ModifiersProcessingResult" /\ m \in Message
      BY <1>6, HandlesFacts DEF HandleModifiersProcessingResult
    <3>. QED  BY <3>1, ReportFields
  <2>2. ClearStatus(S) /\ invalid' = invalid \cup none
    BY <1>6 DEF HandleModifiersProcessingResult, SetUnknown
  <2>3. \A id \in m.cleared : IsReceived(id) => id \in S
    BY DEF IsCorrectTransition, Status
  <2>4. SettledBy(m, S, none) /\ S \in SUBSET Ids /\ none \in SUBSET S
    BY <2>1, <2>3 DEF SettledBy, Ids
  <2> HIDE DEF m, none, one, S
  <2>5. Clears(S, none)
    BY <2>2, ClearStatusClears
  <2>. QED  BY <2>1, <2>4, <2>5, EventEffect DEF m
<1>7. ASSUME NEW kind, Handles(kind), UNCHANGED <<requested, received, invalid>>,
             kind \in {"SemanticallySuccessfulModifier", "ChangedHistory", "ChangedMempool",
                       "TransactionRebroadcast"}
      PROVE  \E S, bad \in SUBSET Ids : bad \subseteq S /\ Settles(S, bad)
  <2>1. m.kind = kind
    BY <1>7, HandlesFacts
  <2>2. Clears(none, none) /\ SettledBy(m, none, none)
    BY <1>7, <2>1, NothingClears DEF SettledBy
  <2> HIDE DEF m, none, one
  <2>. QED  BY <1>0, <1>7, <2>2, EventEffect DEF m
<1>8. CASE HandleSemanticallySuccessful \/ HandleChangedHistory \/ HandleChangedMempool
           \/ HandleTransactionRebroadcast
  <2>1. UNCHANGED <<requested, received, invalid>>
    BY <1>8 DEF HandleSemanticallySuccessful, HandleChangedHistory, HandleChangedMempool,
                HandleTransactionRebroadcast, trackerVars, requestVars
  <2>2. PICK kind \in {"SemanticallySuccessfulModifier", "ChangedHistory", "ChangedMempool",
                       "TransactionRebroadcast"} : Handles(kind)
    BY <1>8 DEF HandleSemanticallySuccessful, HandleChangedHistory, HandleChangedMempool,
                HandleTransactionRebroadcast
  <2>. QED  BY <1>7, <2>1, <2>2
<1>. QED  BY <1>1, <1>2, <1>3, <1>4, <1>5, <1>6, <1>8 DEF NvsHandle

\* What a timer may do.
LEMMA TimeoutEffect ==
    ASSUME IInv, NvsTimeout
    PROVE  /\ \E m \in Message : /\ mailbox' = mailbox \o <<m>>
                                 /\ m.kind \in {"CheckDelivery", "TransactionRebroadcast"}
           /\ UNCHANGED <<requested, received, invalid, nvhMailbox, nvhVars>>
<1>0. mailbox \in Seq(Message) /\ TrackerInv
  BY IInvFacts
<1>1. UNCHANGED <<requested, received, invalid, nvhMailbox, nvhVars>>
  BY DEF NvsTimeout, DeliveryTimeout, OrphanTimeout, RebroadcastTimeout, requestVars
<1>2. PICK m \in Message : /\ mailbox' = Append(mailbox, m)
                           /\ m.kind \in {"CheckDelivery", "TransactionRebroadcast"}
  <2>1. ASSUME NEW i \in Ids, DeliveryTimeout(i)
        PROVE  /\ CheckDelivery(requested[i], i) \in Message
               /\ CheckDelivery(requested[i], i).kind = "CheckDelivery"
    <3>1. requested[i] \in Peers
      BY <1>0, <2>1, TrackerAssumption
      DEF DeliveryTimeout, TrackerInv, TrackerTypeOK, ChecksAreBounded, IsRequested
    <3>. QED  BY <3>1, TimerMessages DEF CheckDelivery
  <2>2. ASSUME NEW p \in Peers, NEW i \in Ids
        PROVE  CheckDelivery(p, i) \in Message /\ CheckDelivery(p, i).kind = "CheckDelivery"
    BY TimerMessages DEF CheckDelivery
  <2>3. TransactionRebroadcast \in Message /\ TransactionRebroadcast.kind = "TransactionRebroadcast"
    BY DEF TransactionRebroadcast, Message
  <2>. QED  BY <2>1, <2>2, <2>3 DEF NvsTimeout, DeliveryTimeout, OrphanTimeout, RebroadcastTimeout
<1>3. mailbox' = mailbox \o <<m>>
  BY <1>0, <1>2, AppendIsConcat
<1>. QED  BY <1>1, <1>2, <1>3

\* No step of the NodeViewHolder touches the tracker.
LEMMA NvhKeepsTracker ==
    ASSUME NvhNext
    PROVE  UNCHANGED <<requested, received, invalid>>
BY DEF NvhNext, NvhGetNodeViewChanges, NvhModifiersFromRemote, NvhApplyCandidate, NvhFinish,
       NvhTransactionsFromRemote, NvhLocallyGeneratedModifier, NvhLocallyGeneratedTransaction,
       NvhEliminateTransaction, nvsOwnVars, trackerVars, requestVars

-----------------------------------------------------------------------------
(* The cache                                                               *)

CacheInv ==
    /\ modifiersCache \in Caches(Blocks)
    /\ IsQueued(modifiersCache)
    /\ ~applying => Cardinality(Keys(modifiersCache)) <= CacheMaxSize

\* The modifiers of the message that the NodeViewHolder puts in the cache.
LEMMA ModifiersMessage ==
    ASSUME IInv, NvhReceives("ModifiersFromRemote")
    PROVE  /\ nvhMailbox # <<>> /\ nvhMailbox \in Seq(NvhMessage) /\ Head(nvhMailbox) \in NvhMessage
           /\ Head(nvhMailbox).kind = "ModifiersFromRemote"
           /\ Head(nvhMailbox).mods \in Seq(Blocks)
<1>1. /\ nvhMailbox # <<>> /\ nvhMailbox \in Seq(NvhMessage) /\ Head(nvhMailbox) \in NvhMessage
      /\ Head(nvhMailbox).kind = "ModifiersFromRemote"
  BY IInvFacts, TailIndex DEF NvhReceives, RestTypeOK
<1>. QED  BY <1>1 DEF NvhMessage, GetNodeViewChanges

\* The cache's invariant is kept.
LEMMA StepCache ==
    ASSUME IInv, CacheInv, [Next]_vars
    PROVE  CacheInv'
<1>0. modifiersCache \in Caches(Blocks) /\ IsQueued(modifiersCache)
  BY DEF CacheInv
<1>1. CASE UNCHANGED <<modifiersCache, applying>>
  BY <1>1 DEF CacheInv
<1>2. CASE NvhModifiersFromRemote
  <2>1. Head(nvhMailbox).mods \in Seq(Blocks)
    BY <1>2, ModifiersMessage DEF NvhModifiersFromRemote
  <2>2. modifiersCache' = PutAll(modifiersCache, Head(nvhMailbox).mods) /\ applying'
    BY <1>2 DEF NvhModifiersFromRemote
  <2>3. modifiersCache' \in Caches(Blocks) /\ IsQueued(modifiersCache')
    BY <1>0, <2>1, <2>2, PutAllFacts
  <2>. QED  BY <2>2, <2>3 DEF CacheInv
<1>3. CASE NvhApplyCandidate
  <2>1. modifiersCache' = PopCandidate(modifiersCache, Verdict) /\ applying /\ applying' = applying
    BY <1>3 DEF NvhApplyCandidate
  <2>2. modifiersCache' \in Caches(Blocks) /\ IsQueued(modifiersCache')
    BY <1>0, <2>1, PopCandidateFacts
  <2>. QED  BY <2>1, <2>2 DEF CacheInv
<1>4. CASE NvhFinish
  <2> DEFINE left == PopCandidate(modifiersCache, Verdict)
  <2>1. modifiersCache' = CleanOverfull(left)
    BY <1>4 DEF NvhFinish
  <2>2. left \in Caches(Blocks) /\ IsQueued(left)
    BY <1>0, PopCandidateFacts
  <2> HIDE DEF left
  <2>3. /\ modifiersCache' \in Caches(Blocks) /\ IsQueued(modifiersCache')
        /\ Cardinality(Keys(modifiersCache')) <= CacheMaxSize
    BY <2>1, <2>2, CleanOverfullFacts
  <2>. QED  BY <2>3 DEF CacheInv
<1>5. \/ UNCHANGED <<modifiersCache, applying>>
      \/ NvhModifiersFromRemote \/ NvhApplyCandidate \/ NvhFinish
  <2>1. CASE NvhNext
    BY <2>1 DEF NvhNext, NvhGetNodeViewChanges, NvhTransactionsFromRemote, NvhLocallyGeneratedModifier,
                NvhLocallyGeneratedTransaction, NvhEliminateTransaction, nvhVars
  <2>2. CASE ~NvhNext
    <3>1. UNCHANGED nvhVars
      BY <2>2, NextCases, ReceiveKeeps, TimeoutEffect DEF vars
    <3>. QED  BY <3>1 DEF nvhVars
  <2>. QED  BY <2>1, <2>2
<1>. QED  BY <1>1, <1>2, <1>3, <1>4, <1>5

\* It holds at the start.
LEMMA InitCache == Init => CacheInv
<1>. SUFFICES ASSUME Init PROVE CacheInv
  OBVIOUS
<1>1. modifiersCache = EmptyCache
  BY DEF Init
<1>2. EmptyCache \in Caches(Blocks) /\ EmptyCache.entries = <<>> /\ EmptyCache.evictionQueue = <<>>
  BY DEF EmptyCache, Caches
<1>3. Keys(EmptyCache) = {}
  BY <1>2 DEF Keys, ToSet
<1>4. IsQueued(EmptyCache)
  BY <1>3 DEF IsQueued
<1>5. Cardinality({}) <= CacheMaxSize
  BY FS_EmptySet, CacheAssumption
<1>. QED  BY <1>1, <1>2, <1>3, <1>4, <1>5 DEF CacheInv

\* Between two messages the cache is within its limit, and eviction finds every key.
THEOREM CacheAlwaysBounded == Spec => []CacheIsBounded
<1>1. IInv /\ CacheInv /\ [Next]_vars => CacheInv'
  BY StepCache
<1>2. CacheInv => CacheIsBounded
  BY DEF CacheInv, CacheIsBounded, IsQueued
<1>. QED  BY <1>1, <1>2, InitCache, InductiveInvariant, PTL DEF Spec

-----------------------------------------------------------------------------
(* The events of the NodeViewHolder, by what they say of a modifier        *)

\* The block id was appended to the history.
Appended(id) == {m \in Message : m.kind = "SyntacticallySuccessfulModifier" /\ m.id = id}

\* The events by which the status Received of the modifier id ends.
Outcomes(id) ==
    {m \in Message :
        \/ m.kind \in {"SyntacticallySuccessfulModifier", "SyntacticallyFailedModification",
                       "SuccessfulTransaction", "FailedTransaction"} /\ m.id = id
        \/ m.kind = "ModifiersProcessingResult" /\ id \in m.cleared}

\* OutcomeInMailbox, by the messages that settle a modifier.
LEMMA OutcomeOccurs ==
    ASSUME mailbox \in Seq(Message), NEW id
    PROVE  OutcomeInMailbox(id) <=> Occurs(mailbox, Outcomes(id))
<1>1. DOMAIN mailbox = 1..Len(mailbox) /\ \A i \in 1..Len(mailbox) : mailbox[i] \in Message
  OBVIOUS
<1>. QED  BY <1>1 DEF OutcomeInMailbox, InMailbox, Occurs, Outcomes

\* Events that say nothing of blocks that enter the history or are thrown out.
Quiet(e) == \A id : ~Occurs(e, Clearers(id)) /\ ~Occurs(e, Appended(id))

\* Only two kinds of messages are about a block in hand.
LEMMA LoudKinds ==
    ASSUME NEW m, NEW id
    PROVE  /\ m.kind # "ModifiersProcessingResult" => m \notin Clearers(id)
           /\ m.kind # "SyntacticallySuccessfulModifier" => m \notin Appended(id)
BY DEF Clearers, Appended

\* Messages that are not about a modifier change nothing for it.
LEMMA MailKeeps ==
    ASSUME NEW s \in Seq(Message), NEW e \in Seq(Message), NEW M, ~Occurs(e, M)
    PROVE  /\ Occurs(s \o e, M) <=> Occurs(s, M)
           /\ Once(s, M) => Once(s \o e, M)
BY ConcatOccurs, NeverOnce

\* Among the events of an update only the first is about a block in hand.
LEMMA UpdateEventsOccur ==
    ASSUME IInv, NEW b \in Blocks, PmodModify(b), NEW v, PublishesUpdate(b, v),
           NEW e \in {HistoryChanges(b, v), ViewChanges(b, v)}, NEW id
    PROVE  ~Occurs(e, Clearers(id)) /\ (Occurs(e, Appended(id)) => id = b)
<1>0. PICK a, ch, cm, f :
        /\ a = AppendedEvent(b) /\ ch = HistoryEvent(b) /\ cm = PoolEvent(mempool')
        /\ f = <<AppendedEvent(b)>> \o v
  OBVIOUS
<1>1. /\ a.kind = "SyntacticallySuccessfulModifier" /\ a.id = b
      /\ ch.kind = "ChangedHistory" /\ cm.kind = "ChangedMempool"
  BY <1>0 DEF AppendedEvent, HistoryEvent, PoolEvent, Event, Changed
<1>2. /\ v \in Seq(Message) /\ a \in Message /\ ch \in Message /\ cm \in Message
      /\ \A i \in 1..Len(v) : v[i].kind \in VerdictKinds
  BY <1>0, PmodEventsAreMessages DEF PublishesUpdate
<1>3. <<a>> \in Seq(Message) /\ <<ch>> \in Seq(Message) /\ <<ch, cm>> \in Seq(Message)
  BY <1>2
<1>4. f \in Seq(Message)
  BY <1>0, <1>2, <1>3, ConcatProperties
<1>5. ~Occurs(v, Clearers(id)) /\ ~Occurs(v, Appended(id))
  <2>1. \A i \in 1..Len(v) : v[i].kind # "ModifiersProcessingResult" /\ v[i].kind # "SyntacticallySuccessfulModifier"
    BY <1>2 DEF VerdictKinds
  <2>. QED  BY <2>1, LoudKinds DEF Occurs
<1>6. ~Occurs(f, Clearers(id)) /\ (Occurs(f, Appended(id)) => id = b)
  <2>1. a \notin Clearers(id) /\ (a \in Appended(id) => id = b)
    BY <1>1, LoudKinds DEF Appended
  <2>2. \A M : Occurs(<<a>>, M) <=> a \in M
    BY OneOccurs
  <2>3. \A M : Occurs(f, M) <=> Occurs(<<a>>, M) \/ Occurs(v, M)
    BY <1>0, <1>2, <1>3, ConcatOccurs
  <2>. QED  BY <1>5, <2>1, <2>2, <2>3
<1>7. /\ ch \notin Clearers(id) /\ ch \notin Appended(id)
      /\ cm \notin Clearers(id) /\ cm \notin Appended(id)
  BY <1>1, LoudKinds
<1>8. \A M : /\ Occurs(f \o <<ch>>, M) <=> Occurs(f, M) \/ ch \in M
             /\ Occurs(f \o <<ch, cm>>, M) <=> Occurs(f, M) \/ ch \in M \/ cm \in M
  BY <1>3, <1>4, ConcatOccurs, OneOccurs, TwoOccur
<1>9. e \in {f \o <<ch>>, f \o <<ch, cm>>}
  BY <1>0, Zenon DEF HistoryChanges, ViewChanges
<1>. QED  BY <1>6, <1>7, <1>8, <1>9

\* pmodModify: the block is in the history afterwards, or its outcome is published.
LEMMA PmodEffect ==
    ASSUME IInv, NEW b \in Blocks, PmodModify(b)
    PROVE  \E e \in Seq(Message) :
              /\ mailbox' = mailbox \o e
              /\ \A id : ~Occurs(e, Clearers(id))
              /\ \A id : Occurs(e, Appended(id)) => id \in history'
              /\ history \subseteq history' /\ history' \subseteq history \cup {b}
              /\ mempool' \subseteq mempool
              /\ b \in history' \/ Occurs(e, Outcomes(b))
<1>1. /\ mailbox \in Seq(Message) /\ FailedEvent(b) \in Message /\ mempool' \subseteq mempool
      /\ \A v \in Seq(Message) :
            HistoryChanges(b, v) \in Seq(Message) /\ ViewChanges(b, v) \in Seq(Message)
  BY PmodEventsAreMessages
<1>2. CASE UNCHANGED <<history, mempool, mailbox>> /\ b \in history
  <2> DEFINE none == <<>>
  <2>1. none \in Seq(Message) /\ mailbox \o none = mailbox /\ Len(none) = 0
    BY <1>1, ConcatEmptySeq
  <2>2. \A M : ~Occurs(none, M)
    BY <2>1 DEF Occurs
  <2> HIDE DEF none
  <2>. QED  BY <1>2, <2>1, <2>2, Zenon
<1>3. CASE Publish(<<FailedEvent(b)>>) /\ UNCHANGED <<history, mempool>>
  <2>1. PICK failed : failed = FailedEvent(b)
    OBVIOUS
  <2>2. failed.kind = "SyntacticallyFailedModification" /\ failed.id = b /\ failed \in Message
    BY <1>1, <2>1 DEF FailedEvent, Event
  <2>3. failed \in Outcomes(b)
    BY <2>2, Zenon DEF Outcomes
  <2>4. \A id : failed \notin Clearers(id) /\ failed \notin Appended(id)
    BY <2>2, LoudKinds
  <2> DEFINE e == <<failed>>
  <2>5. e \in Seq(Message) /\ \A M : Occurs(e, M) <=> failed \in M
    BY <2>2, OneOccurs
  <2>6. mailbox' = mailbox \o e
    BY <1>3, <2>1 DEF Publish
  <2> HIDE DEF e
  <2>. QED  BY <1>3, <2>3, <2>4, <2>5, <2>6
<1>4. ASSUME NEW v, PublishesUpdate(b, v)
      PROVE  \E e \in Seq(Message) :
                /\ mailbox' = mailbox \o e
                /\ \A id : ~Occurs(e, Clearers(id))
                /\ \A id : Occurs(e, Appended(id)) => id \in history'
                /\ history \subseteq history' /\ history' \subseteq history \cup {b}
                /\ b \in history'
  <2>1. PICK e \in {HistoryChanges(b, v), ViewChanges(b, v)} : mailbox' = mailbox \o e
    BY <1>4 DEF PublishesUpdate, Publish
  <2>2. \A id : ~Occurs(e, Clearers(id)) /\ (Occurs(e, Appended(id)) => id = b)
    BY <1>4, UpdateEventsOccur
  <2>3. e \in Seq(Message)
    BY <1>1, <1>4, <2>1, Zenon DEF PublishesUpdate
  <2>4. history' = history \cup {b}
    BY <1>4 DEF PublishesUpdate
  <2>. QED  BY <2>1, <2>2, <2>3, <2>4
<1>5. CASE \E v : PublishesUpdate(b, v)
  BY <1>1, <1>4, <1>5, Zenon
<1>. QED  BY <1>2, <1>3, <1>5, PmodModifyCases, Zenon

\* One or two events that are quiet.
LEMMA QuietOne ==
    ASSUME NEW a \in Message,
           a.kind \notin {"ModifiersProcessingResult", "SyntacticallySuccessfulModifier"}
    PROVE  <<a>> \in Seq(Message) /\ Quiet(<<a>>)
<1>1. \A M : Occurs(<<a>>, M) <=> a \in M
  BY OneOccurs
<1>. QED  BY <1>1, LoudKinds DEF Quiet

\* Two messages of other kinds are such messages.
LEMMA QuietTwo ==
    ASSUME NEW a \in Message, NEW c \in Message,
           a.kind \notin {"ModifiersProcessingResult", "SyntacticallySuccessfulModifier"},
           c.kind \notin {"ModifiersProcessingResult", "SyntacticallySuccessfulModifier"}
    PROVE  <<a, c>> \in Seq(Message) /\ Quiet(<<a, c>>)
<1>1. \A M : Occurs(<<a, c>>, M) <=> a \in M \/ c \in M
  BY TwoOccur
<1>. QED  BY <1>1, LoudKinds DEF Quiet

\* txModify: the outcome is published, whatever it is.
LEMMA TxEffect ==
    ASSUME IInv, NEW t \in Txs, TxModify(t)
    PROVE  /\ mempool' \in {mempool, mempool \cup {t}}
           /\ \E e \in Seq(Message) : mailbox' = mailbox \o e /\ Quiet(e) /\ Occurs(e, Outcomes(t))
<1> DEFINE cm == Changed("ChangedMempool", mempool')
           good == Event("SuccessfulTransaction", t)
           failed == FailedTransaction(t, TRUE)
<1>1. mempool' \in {mempool, mempool \cup {t}} /\ mempool' \subseteq Txs
  BY IInvFacts DEF TxModify, RestTypeOK
<1>2. cm \in Message /\ good \in Message /\ failed \in Message
  <2>1. cm \in Message
    BY <1>1 DEF Changed, Message
  <2>2. good \in Message
    BY DEF Event, Message
  <2>. QED  BY <2>1, <2>2, FailedTransactionsAreMessages
<1>3. /\ cm.kind = "ChangedMempool" /\ good.kind = "SuccessfulTransaction" /\ good.id = t
      /\ failed.kind = "FailedTransaction" /\ failed.id = t
  BY DEF Changed, Event, FailedTransaction
<1>4. mailbox' = mailbox \o <<cm, good>> \/ mailbox' = mailbox \o <<failed>>
  BY DEF TxModify, Publish
<1> HIDE DEF cm, good, failed
<1>5. good \in Outcomes(t) /\ failed \in Outcomes(t)
  BY <1>2, <1>3 DEF Outcomes
<1>6. <<cm, good>> \in Seq(Message) /\ Quiet(<<cm, good>>) /\ Occurs(<<cm, good>>, Outcomes(t))
  BY <1>2, <1>3, <1>5, QuietTwo, TwoOccur
<1>7. <<failed>> \in Seq(Message) /\ Quiet(<<failed>>) /\ Occurs(<<failed>>, Outcomes(t))
  BY <1>2, <1>3, <1>5, QuietOne, OneOccurs
<1>. QED  BY <1>1, <1>4, <1>6, <1>7

\* The answer to GetNodeViewChanges.
LEMMA ChangesEffect ==
    ASSUME IInv, NvhGetNodeViewChanges
    PROVE  \E e \in Seq(Message) : mailbox' = mailbox \o e /\ Quiet(e)
<1> DEFINE a == Changed("ChangedHistory", history)
           c == Changed("ChangedMempool", mempool)
<1>1. a \in Message /\ c \in Message /\ a.kind = "ChangedHistory" /\ c.kind = "ChangedMempool"
  BY IInvFacts DEF Changed, Message, RestTypeOK
<1>2. mailbox' = mailbox \o <<a, c>>
  BY DEF NvhGetNodeViewChanges, Publish
<1> HIDE DEF a, c
<1>. QED  BY <1>1, <1>2, QuietTwo

\* Transactions made or removed locally.
LEMMA LocalTxEffect ==
    ASSUME IInv, NEW t \in Txs, NvhLocallyGeneratedTransaction(t) \/ NvhEliminateTransaction(t)
    PROVE  /\ \E e \in Seq(Message) : mailbox' = mailbox \o e /\ Quiet(e)
           /\ UNCHANGED <<nvhMailbox, history, modifiersCache, applying>>
           /\ mempool' \subseteq mempool \cup {t}
<1> DEFINE failed == FailedTransaction(t, FALSE)
           cm == Changed("ChangedMempool", mempool')
<1>1. UNCHANGED <<nvhMailbox, history, modifiersCache, applying>>
  BY DEF NvhLocallyGeneratedTransaction, NvhEliminateTransaction
<1>2. failed \in Message /\ failed.kind = "FailedTransaction" /\ cm.kind = "ChangedMempool"
  BY FailedTransactionsAreMessages DEF FailedTransaction, Changed
<1>3. \/ TxModify(t)
      \/ mailbox' = mailbox \o <<failed>> /\ UNCHANGED mempool
      \/ mailbox' = mailbox \o <<cm, failed>> /\ mempool' = mempool \ {t}
  BY DEF NvhLocallyGeneratedTransaction, NvhEliminateTransaction, Publish
<1>4. mempool' = mempool \ {t} => cm \in Message
  BY IInvFacts DEF Changed, Message, RestTypeOK
<1> HIDE DEF failed, cm
<1>5. CASE TxModify(t)
  BY <1>1, <1>5, TxEffect
<1>6. CASE mailbox' = mailbox \o <<failed>> /\ UNCHANGED mempool
  BY <1>1, <1>2, <1>6, QuietOne
<1>7. CASE mailbox' = mailbox \o <<cm, failed>> /\ mempool' = mempool \ {t}
  BY <1>1, <1>2, <1>4, <1>7, QuietTwo
<1>. QED  BY <1>3, <1>5, <1>6, <1>7

-----------------------------------------------------------------------------
(* A block that was taken in is in one place at a time                     *)

\* Until the history has it or it is found invalid, a block is on the way to the
\* cache, in it, or reported as thrown out of it, in one of these places and once;
\* and as long as it is, it is Received, so that it cannot come a second time.
HandOf(b) ==
    LET forwarded == Occurs(nvhMailbox, Carriers(b))
        cached == b \in Keys(modifiersCache)
        reported == Occurs(mailbox, Clearers(b))
    IN  /\ Occurs(mailbox, Appended(b)) => b \in history
        /\ b \notin history \cup invalid =>
             /\ forwarded \/ cached \/ reported => IsReceived(b)
             /\ ~(forwarded /\ cached) /\ ~(forwarded /\ reported) /\ ~(cached /\ reported)
             /\ Once(nvhMailbox, Carriers(b)) /\ Once(mailbox, Clearers(b))

HandInv == \A b \in Blocks : HandOf(b)

\* A block that is taken in was Requested, so it was not in hand before, and it now is,
\* once.
LEMMA HandTakes ==
    ASSUME IInv, NEW b \in Blocks, HandOf(b), NEW good, NEW bad, Takes(good, bad)
    PROVE  HandOf(b)'
<1>0. nvhMailbox \in Seq(NvhMessage) /\ b \in Ids
  BY IInvFacts DEF RestTypeOK, Ids
<1>1. UNCHANGED <<mailbox, history, modifiersCache>> /\ invalid' = invalid \cup bad
  BY DEF Takes, nvhVars
<1>2. IsReceived(b)' <=> IsReceived(b) \/ b \in good \ bad
  BY <1>0 DEF Takes
<1>3. b \in good => ~IsReceived(b)
  BY DEF Takes
<1>4. CASE good = {} /\ nvhMailbox' = nvhMailbox
  BY <1>1, <1>2, <1>4 DEF HandOf
<1>5. ASSUME NEW m \in NvhMessage, nvhMailbox' = nvhMailbox \o <<m>>, m \in Carriers(b) <=> b \in good
      PROVE  HandOf(b)'
  <2>1. <<m>> \in Seq(NvhMessage)
    OBVIOUS
  <2>2. (Occurs(<<m>>, Carriers(b)) <=> b \in good) /\ Once(<<m>>, Carriers(b))
    BY <1>5, OneOccurs
  <2>3. /\ Occurs(nvhMailbox', Carriers(b)) <=> Occurs(nvhMailbox, Carriers(b)) \/ b \in good
        /\ Once(nvhMailbox, Carriers(b)) /\ ~(Occurs(nvhMailbox, Carriers(b)) /\ b \in good)
             => Once(nvhMailbox', Carriers(b))
    BY <1>0, <1>5, <2>1, <2>2, ConcatOccurs
  <2>. QED  BY <1>1, <1>2, <1>3, <2>3 DEF HandOf
<1>. QED  BY <1>4, <1>5 DEF Takes

\* A status is cleared only when the block has left the NodeViewHolder's hands.
LEMMA HandSettles ==
    ASSUME IInv, NEW b \in Blocks, HandOf(b), NEW S, NEW bad, Settles(S, bad)
    PROVE  HandOf(b)'
<1> DEFINE m == Head(mailbox)
<1>0. mailbox \in Seq(Message) /\ b \in Ids /\ b \notin Txs
  BY IInvFacts, TrackerAssumption DEF Ids
<1>1. /\ UNCHANGED <<nvhMailbox, history, modifiersCache>> /\ invalid' = invalid \cup bad
      /\ mailbox # <<>> /\ mailbox' = Tail(mailbox) /\ m \in Message
      /\ IsReceived(b)' <=> IsReceived(b) /\ b \notin S
      /\ SettledBy(m, S, bad)
  BY <1>0 DEF Settles, Clears, nvhVars
<1>2. /\ Occurs(mailbox, Appended(b)) <=> m \in Appended(b) \/ Occurs(mailbox', Appended(b))
      /\ Occurs(mailbox, Clearers(b)) <=> m \in Clearers(b) \/ Occurs(mailbox', Clearers(b))
      /\ Once(mailbox, Clearers(b)) =>
           Once(mailbox', Clearers(b)) /\ (m \in Clearers(b) => ~Occurs(mailbox', Clearers(b)))
  BY <1>0, <1>1, TailOccurs
<1> HIDE DEF m
<1>3. CASE b \notin S
  BY <1>1, <1>2, <1>3 DEF HandOf
<1>4. CASE b \in S /\ (b \in history \/ b \in invalid \cup bad)
  BY <1>1, <1>2, <1>4 DEF HandOf
<1>5. CASE b \in S /\ b \notin history \cup invalid \cup bad
  <2>1. m.kind = "SyntacticallySuccessfulModifier" => m.id # b
    BY <1>1, <1>2, <1>5 DEF HandOf, Appended
  <2>2. m.kind = "SuccessfulTransaction" => m.id # b
    BY <1>0, <1>1, MessageFields
  <2>3. \/ IsRequested(b)
        \/ m.kind = "ModifiersProcessingResult" /\ b \in m.cleared
    BY <1>1, <1>5, <2>1, <2>2 DEF SettledBy
  <2>4. CASE IsRequested(b)
    <3>1. ~IsReceived(b)
      BY <1>0, <2>4, IInvFacts DEF TrackerInv, StatusIsUnambiguous
    <3>. QED  BY <1>1, <1>2, <1>5, <3>1 DEF HandOf
  <2>5. CASE m.kind = "ModifiersProcessingResult" /\ b \in m.cleared
    <3>1. m \in Clearers(b)
      BY <1>1, <2>5 DEF Clearers
    <3>. QED  BY <1>1, <1>2, <1>5, <3>1 DEF HandOf
  <2>. QED  BY <2>3, <2>4, <2>5
<1>. QED  BY <1>1, <1>3, <1>4, <1>5

\* Events that are added.
LEMMA HandMail ==
    ASSUME IInv, NEW b \in Blocks, HandOf(b), NEW e \in Seq(Message), mailbox' = mailbox \o e,
           ~Occurs(e, Clearers(b)), Occurs(e, Appended(b)) => b \in history',
           history \subseteq history', UNCHANGED <<received, invalid>>,
           Occurs(nvhMailbox', Carriers(b)) => Occurs(nvhMailbox, Carriers(b)),
           Once(nvhMailbox, Carriers(b)) => Once(nvhMailbox', Carriers(b)),
           b \in Keys(modifiersCache') => b \in Keys(modifiersCache)
    PROVE  HandOf(b)'
<1>0. mailbox \in Seq(Message)
  BY IInvFacts
<1>1. /\ Occurs(mailbox', Appended(b)) <=> Occurs(mailbox, Appended(b)) \/ Occurs(e, Appended(b))
  BY <1>0, ConcatOccurs
<1>2. /\ Occurs(mailbox', Clearers(b)) <=> Occurs(mailbox, Clearers(b))
      /\ Once(mailbox, Clearers(b)) => Once(mailbox', Clearers(b))
  BY <1>0, MailKeeps
<1>. QED  BY <1>1, <1>2 DEF HandOf, IsReceived

\* Blocks are carried by ModifiersFromRemote only.
LEMMA CarriersOfBlocks ==
    ASSUME NEW b \in Blocks, NEW m \in NvhMessage, m.kind # "ModifiersFromRemote"
    PROVE  m \notin Carriers(b)
<1>1. m.kind = "TransactionsFromRemote" => m.mods \in Seq(Txs)
  BY DEF NvhMessage, GetNodeViewChanges
<1>2. m.kind = "TransactionsFromRemote" => ~Brings(m.mods, b)
  BY <1>1, TrackerAssumption DEF Brings
<1>. QED  BY <1>2 DEF Carriers

\* Taking the first message, which brings no block, from the NodeViewHolder's mailbox.
LEMMA HeadBringsNone ==
    ASSUME IInv, NEW b \in Blocks, nvhMailbox # <<>>, Head(nvhMailbox).kind # "ModifiersFromRemote",
           NEW t \in Seq(NvhMessage), ~Occurs(t, Carriers(b)), NEW s, s = t \o Tail(nvhMailbox)
    PROVE  /\ Occurs(s, Carriers(b)) => Occurs(nvhMailbox, Carriers(b))
           /\ Once(nvhMailbox, Carriers(b)) => Once(s, Carriers(b))
<1>1. nvhMailbox \in Seq(NvhMessage)
  BY IInvFacts DEF RestTypeOK
<1>2. Head(nvhMailbox) \in NvhMessage /\ Tail(nvhMailbox) \in Seq(NvhMessage)
  BY <1>1, TailIndex
<1>3. Head(nvhMailbox) \notin Carriers(b)
  BY <1>2, CarriersOfBlocks
<1>4. /\ Occurs(Tail(nvhMailbox), Carriers(b)) <=> Occurs(nvhMailbox, Carriers(b))
      /\ Once(nvhMailbox, Carriers(b)) => Once(Tail(nvhMailbox), Carriers(b))
  BY <1>1, <1>3, TailOccurs
<1>5. /\ Occurs(s, Carriers(b)) <=> Occurs(Tail(nvhMailbox), Carriers(b))
      /\ Once(Tail(nvhMailbox), Carriers(b)) => Once(s, Carriers(b))
  BY <1>2, ConcatOccurs, NeverOnce
<1>. QED  BY <1>4, <1>5

\* The NodeViewHolder moves a block from its mailbox to the cache and on, to the
\* history or into its report.
LEMMA HandNvh ==
    ASSUME IInv, CacheInv, NEW b \in Blocks, HandOf(b), NvhNext
    PROVE  HandOf(b)'
<1>0. /\ mailbox \in Seq(Message) /\ nvhMailbox \in Seq(NvhMessage) /\ history \subseteq history
      /\ UNCHANGED <<received, invalid>> /\ modifiersCache \in Caches(Blocks)
  BY IInvFacts, NvhKeepsTracker DEF RestTypeOK, CacheInv
<1> DEFINE none == <<>>
<1>a. none \in Seq(Message) /\ mailbox \o none = mailbox /\ \A M : ~Occurs(none, M)
  BY <1>0, ConcatEmptySeq DEF Occurs
<1>b. none \in Seq(NvhMessage) /\ (nvhMailbox # <<>> => none \o Tail(nvhMailbox) = Tail(nvhMailbox))
  BY <1>0, ConcatEmptySeq, TailIndex
<1> HIDE DEF none
<1>1. CASE NvhGetNodeViewChanges
  <2>1. PICK e \in Seq(Message) : mailbox' = mailbox \o e /\ Quiet(e)
    BY <1>1, ChangesEffect
  <2>2. /\ UNCHANGED <<history, modifiersCache>> /\ nvhMailbox # <<>> /\ nvhMailbox' = Tail(nvhMailbox)
        /\ Head(nvhMailbox).kind = "GetNodeViewChanges"
    BY <1>1 DEF NvhGetNodeViewChanges, NvhReceives, nvhVars
  <2>3. /\ Occurs(nvhMailbox', Carriers(b)) => Occurs(nvhMailbox, Carriers(b))
        /\ Once(nvhMailbox, Carriers(b)) => Once(nvhMailbox', Carriers(b))
    BY <1>a, <1>b, <2>2, HeadBringsNone
  <2>. QED  BY <1>0, <2>1, <2>2, <2>3, HandMail DEF Quiet
<1>2. CASE NvhModifiersFromRemote
  <2> DEFINE m == Head(nvhMailbox)
  <2>1. /\ nvhMailbox # <<>> /\ nvhMailbox' = Tail(nvhMailbox)
        /\ modifiersCache' = PutAll(modifiersCache, m.mods) /\ UNCHANGED <<mailbox, history>>
    BY <1>2 DEF NvhModifiersFromRemote, NvhReceives
  <2>2. m \in NvhMessage /\ m.kind = "ModifiersFromRemote" /\ m.mods \in Seq(Blocks)
    BY <1>2, ModifiersMessage DEF NvhModifiersFromRemote
  <2>3. /\ Occurs(nvhMailbox, Carriers(b)) <=> m \in Carriers(b) \/ Occurs(nvhMailbox', Carriers(b))
        /\ Once(nvhMailbox, Carriers(b)) =>
             Once(nvhMailbox', Carriers(b)) /\ (m \in Carriers(b) => ~Occurs(nvhMailbox', Carriers(b)))
    BY <1>0, <2>1, TailOccurs
  <2>4. Keys(modifiersCache') = Keys(modifiersCache) \cup ToSet(m.mods)
    BY <1>0, <2>1, <2>2, PutAllFacts
  <2>5. m \in Carriers(b) <=> b \in ToSet(m.mods)
    BY <2>2 DEF Carriers, Brings, ToSet
  <2> HIDE DEF m
  <2>. QED  BY <1>0, <2>1, <2>3, <2>4, <2>5 DEF HandOf, IsReceived
<1>3. CASE NvhApplyCandidate
  <2>1. PICK c \in Blocks : PmodModify(c)
    BY <1>3 DEF NvhApplyCandidate
  <2>2. PICK e \in Seq(Message) :
          /\ mailbox' = mailbox \o e
          /\ \A id : ~Occurs(e, Clearers(id))
          /\ \A id : Occurs(e, Appended(id)) => id \in history'
          /\ history \subseteq history'
    BY <2>1, PmodEffect
  <2>3. UNCHANGED nvhMailbox /\ modifiersCache' = PopCandidate(modifiersCache, Verdict)
    BY <1>3 DEF NvhApplyCandidate
  <2>4. b \in Keys(modifiersCache') => b \in Keys(modifiersCache)
    BY <1>0, <2>3, PopCandidateFacts
  <2>. QED  BY <1>0, <2>2, <2>3, <2>4, HandMail
<1>4. CASE NvhFinish
  <2> DEFINE left == PopCandidate(modifiersCache, Verdict)
             m == ModifiersProcessingResult({id \in Blocks : id \in ClearedKeys(left)})
  <2>1. /\ modifiersCache' = CleanOverfull(left) /\ mailbox' = mailbox \o <<m>>
        /\ UNCHANGED <<nvhMailbox, history>>
    BY <1>4 DEF NvhFinish, Publish
  <2>2. /\ m \in Message /\ m.kind = "ModifiersProcessingResult"
        /\ m.cleared = {id \in Blocks : id \in ClearedKeys(left)}
    BY DEF ModifiersProcessingResult, Message
  <2>3. left \in Caches(Blocks) /\ Keys(left) \subseteq Keys(modifiersCache)
    BY <1>0, PopCandidateFacts
  <2> HIDE DEF left, m
  <2>4. Keys(modifiersCache') = Keys(left) \ ClearedKeys(left) /\ ClearedKeys(left) \subseteq Keys(left)
    BY <2>1, <2>3, CleanOverfullFacts
  <2>5. m \in Clearers(b) <=> b \in ClearedKeys(left)
    BY <2>2 DEF Clearers
  <2>6. m \notin Appended(b)
    BY <2>2, LoudKinds
  <2>7. /\ <<m>> \in Seq(Message) /\ ~Occurs(<<m>>, Appended(b)) /\ Once(<<m>>, Clearers(b))
        /\ Occurs(<<m>>, Clearers(b)) <=> b \in ClearedKeys(left)
    BY <2>2, <2>5, <2>6, OneOccurs
  <2>8. /\ Occurs(mailbox', Appended(b)) <=> Occurs(mailbox, Appended(b))
        /\ Occurs(mailbox', Clearers(b)) <=> Occurs(mailbox, Clearers(b)) \/ b \in ClearedKeys(left)
        /\ Once(mailbox, Clearers(b)) /\ ~(Occurs(mailbox, Clearers(b)) /\ b \in ClearedKeys(left))
             => Once(mailbox', Clearers(b))
    BY <1>0, <2>1, <2>7, ConcatOccurs
  <2>. QED  BY <1>0, <2>1, <2>3, <2>4, <2>8 DEF HandOf, IsReceived
<1>5. CASE NvhTransactionsFromRemote
  <2> DEFINE txs == Head(nvhMailbox).mods
  <2>1. /\ nvhMailbox # <<>> /\ Head(nvhMailbox).kind = "TransactionsFromRemote"
        /\ UNCHANGED <<history, modifiersCache>>
    BY <1>5 DEF NvhTransactionsFromRemote, NvhReceives
  <2>2. txs \in Seq(Txs)
    <3>1. Head(nvhMailbox) \in NvhMessage
      BY <1>0, <2>1, TailIndex
    <3>. QED  BY <2>1, <3>1 DEF NvhMessage, GetNodeViewChanges
  <2>3. CASE txs = <<>>
    <3>1. mailbox' = mailbox /\ nvhMailbox' = Tail(nvhMailbox)
      BY <1>5, <2>3 DEF NvhTransactionsFromRemote
    <3>2. /\ Occurs(nvhMailbox', Carriers(b)) => Occurs(nvhMailbox, Carriers(b))
          /\ Once(nvhMailbox, Carriers(b)) => Once(nvhMailbox', Carriers(b))
      BY <1>a, <1>b, <2>1, <3>1, HeadBringsNone
    <3>. QED  BY <1>0, <1>a, <2>1, <3>1, <3>2, HandMail
  <2>4. CASE txs # <<>>
    <3> DEFINE m == TransactionsFromRemote(Tail(txs))
    <3>1. /\ nvhMailbox' = <<m>> \o Tail(nvhMailbox) /\ TxModify(Head(txs)) /\ Head(txs) \in Txs
          /\ Tail(txs) \in Seq(Txs)
      BY <1>5, <2>2, <2>4, TailIndex DEF NvhTransactionsFromRemote
    <3>2. PICK e \in Seq(Message) : mailbox' = mailbox \o e /\ Quiet(e)
      BY <3>1, TxEffect
    <3>3. m \in NvhMessage /\ m.kind = "TransactionsFromRemote"
      BY <3>1 DEF TransactionsFromRemote, NvhMessage
    <3> HIDE DEF m
    <3>4. <<m>> \in Seq(NvhMessage) /\ ~Occurs(<<m>>, Carriers(b))
      BY <3>3, CarriersOfBlocks, OneOccurs
    <3>5. /\ Occurs(nvhMailbox', Carriers(b)) => Occurs(nvhMailbox, Carriers(b))
          /\ Once(nvhMailbox, Carriers(b)) => Once(nvhMailbox', Carriers(b))
      BY <2>1, <3>1, <3>4, HeadBringsNone
    <3>. QED  BY <1>0, <2>1, <3>2, <3>5, HandMail DEF Quiet
  <2>. QED  BY <2>3, <2>4
<1>6. ASSUME NEW c \in Blocks, NvhLocallyGeneratedModifier(c)
      PROVE  HandOf(b)'
  <2>1. PmodModify(c) /\ UNCHANGED <<nvhMailbox, modifiersCache>>
    BY <1>6 DEF NvhLocallyGeneratedModifier
  <2>2. PICK e \in Seq(Message) :
          /\ mailbox' = mailbox \o e
          /\ \A id : ~Occurs(e, Clearers(id))
          /\ \A id : Occurs(e, Appended(id)) => id \in history'
          /\ history \subseteq history'
    BY <2>1, PmodEffect
  <2>. QED  BY <1>0, <2>1, <2>2, HandMail
<1>7. ASSUME NEW t \in Txs, NvhLocallyGeneratedTransaction(t) \/ NvhEliminateTransaction(t)
      PROVE  HandOf(b)'
  <2>1. PICK e \in Seq(Message) : mailbox' = mailbox \o e /\ Quiet(e)
    BY <1>7, LocalTxEffect
  <2>2. UNCHANGED <<nvhMailbox, history, modifiersCache>>
    BY <1>7, LocalTxEffect
  <2>. QED  BY <1>0, <2>1, <2>2, HandMail DEF Quiet
<1>. QED  BY <1>1, <1>2, <1>3, <1>4, <1>5, <1>6, <1>7 DEF NvhNext

\* Every step keeps the place of a block in hand.
LEMMA StepHand ==
    ASSUME IInv, CacheInv, HandInv, [Next]_vars
    PROVE  HandInv'
<1>. SUFFICES ASSUME NEW b \in Blocks PROVE HandOf(b)'
  BY DEF HandInv
<1>0. HandOf(b) /\ mailbox \in Seq(Message)
  BY IInvFacts DEF HandInv
<1>1. CASE NvsReceive
  <2>1. CASE Asks
    BY <1>0, <2>1 DEF Asks, HandOf, IsReceived, nvhVars
  <2>. QED  BY <1>0, <1>1, <2>1, ReceiveEffect, HandTakes
<1>2. CASE NvsTimeout
  <2>1. UNCHANGED <<received, invalid, nvhMailbox, history, modifiersCache>>
    BY <1>2, TimeoutEffect DEF nvhVars
  <2>2. PICK m \in Message : /\ mailbox' = mailbox \o <<m>>
                             /\ m.kind \in {"CheckDelivery", "TransactionRebroadcast"}
    BY <1>2, TimeoutEffect
  <2>3. <<m>> \in Seq(Message) /\ Quiet(<<m>>)
    BY <2>2, QuietOne
  <2>. QED  BY <1>0, <2>1, <2>2, <2>3, HandMail DEF Quiet
<1>3. CASE NvsHandle /\ UNCHANGED nvhVars
  BY <1>0, <1>3, HandleEffect, HandSettles
<1>4. CASE NvhNext
  BY <1>0, <1>4, HandNvh
<1>5. CASE UNCHANGED vars
  BY <1>0, <1>5 DEF HandOf, IsReceived, vars, nvsVars, nvhVars, trackerVars
<1>. QED  BY <1>1, <1>2, <1>3, <1>4, <1>5, NextCases

\* Nothing is in hand at the start.
LEMMA InitHand == Init => HandInv
<1>. SUFFICES ASSUME Init, NEW b \in Blocks PROVE HandOf(b)
  BY DEF HandInv
<1>1. mailbox = <<>> /\ nvhMailbox = <<GetNodeViewChanges>> /\ modifiersCache = EmptyCache
  BY DEF Init, NvsInit
<1>2. ~Occurs(mailbox, Appended(b)) /\ ~Occurs(mailbox, Clearers(b)) /\ Once(mailbox, Clearers(b))
  BY <1>1 DEF Occurs, Once
<1>3. GetNodeViewChanges \notin Carriers(b)
  BY DEF Carriers, GetNodeViewChanges
<1>4. ~Occurs(nvhMailbox, Carriers(b)) /\ Once(nvhMailbox, Carriers(b))
  BY <1>1, <1>3, OneOccurs
<1>5. b \notin Keys(modifiersCache)
  BY <1>1 DEF EmptyCache, Keys, ToSet
<1>. QED  BY <1>2, <1>4, <1>5 DEF HandOf

\* A block that waits to be applied is Received, so that it is not asked for again,
\* unless the history has it already or it was found invalid.
THEOREM InHandAlwaysReceived == Spec => []InHandIsReceived
<1>1. IInv /\ CacheInv /\ [Next]_vars => CacheInv'
  BY StepCache
<1>2. IInv /\ CacheInv /\ HandInv /\ [Next]_vars => HandInv'
  BY StepHand
<1>3. IInv /\ HandInv => InHandIsReceived
  <2>1. IInv => nvhMailbox \in Seq(NvhMessage)
    BY IInvFacts DEF RestTypeOK
  <2>. QED  BY <2>1, ForwardedOccurs DEF HandInv, HandOf, InHandIsReceived, InHand
<1>. QED  BY <1>1, <1>2, <1>3, InitCache, InitHand, InductiveInvariant, PTL DEF Spec

-----------------------------------------------------------------------------
(* What is Received is under way                                           *)

\* A transaction is neither asked for nor taken in when transactions are off: the
\* event that settles it would be ignored.
WayOf(id) ==
    /\ IsReceived(id) =>
         \/ Occurs(nvhMailbox, Carriers(id))
         \/ id \in Keys(modifiersCache)
         \/ Occurs(mailbox, Outcomes(id))
         \/ id \in history
    /\ id \in Txs /\ ~HandlingTransactionsEnabled => ~IsRequested(id) /\ ~IsReceived(id)

\* A block of which applicableTry says that it is malformed leaves the cache without
\* a word, so the others are meant.
WayInv == \A id \in Ids \ Malformed : WayOf(id)

\* What is taken in is forwarded.
LEMMA WayTakes ==
    ASSUME IInv, NEW id \in Ids, WayOf(id), NEW good, NEW bad, Takes(good, bad)
    PROVE  WayOf(id)'
<1>0. nvhMailbox \in Seq(NvhMessage)
  BY IInvFacts DEF RestTypeOK
<1>1. /\ UNCHANGED <<mailbox, history, modifiersCache>>
      /\ IsReceived(id)' <=> IsReceived(id) \/ id \in good \ bad
      /\ IsRequested(id)' => IsRequested(id)
      /\ id \in good => IsRequested(id)
  BY DEF Takes, nvhVars
<1>2. Occurs(nvhMailbox, Carriers(id)) \/ id \in good => Occurs(nvhMailbox', Carriers(id))
  <2>1. CASE good = {} /\ nvhMailbox' = nvhMailbox
    BY <2>1
  <2>2. ASSUME NEW m \in NvhMessage, nvhMailbox' = nvhMailbox \o <<m>>, m \in Carriers(id) <=> id \in good
        PROVE  Occurs(nvhMailbox, Carriers(id)) \/ id \in good => Occurs(nvhMailbox', Carriers(id))
    <3>1. <<m>> \in Seq(NvhMessage) /\ (Occurs(<<m>>, Carriers(id)) <=> id \in good)
      BY <2>2, OneOccurs
    <3>. QED  BY <1>0, <2>2, <3>1, ConcatOccurs
  <2>. QED  BY <2>1, <2>2 DEF Takes
<1>. QED  BY <1>1, <1>2 DEF WayOf

\* What was settled is not Received any more.
LEMMA WaySettles ==
    ASSUME IInv, NEW id \in Ids, WayOf(id), NEW S, NEW bad, Settles(S, bad)
    PROVE  WayOf(id)'
<1> DEFINE m == Head(mailbox)
<1>0. mailbox \in Seq(Message)
  BY IInvFacts
<1>1. /\ UNCHANGED <<nvhMailbox, history, modifiersCache>>
      /\ mailbox # <<>> /\ mailbox' = Tail(mailbox) /\ m \in Message
      /\ IsReceived(id)' <=> IsReceived(id) /\ id \notin S
      /\ IsRequested(id)' => IsRequested(id)
      /\ SettledBy(m, S, bad)
  BY DEF Settles, Clears, nvhVars
<1>2. Occurs(mailbox, Outcomes(id)) <=> m \in Outcomes(id) \/ Occurs(mailbox', Outcomes(id))
  BY <1>0, <1>1, TailOccurs
<1> HIDE DEF m
<1>3. ASSUME m \in Outcomes(id), IsReceived(id)
      PROVE  id \in S
  <2>1. \/ m.kind \in {"SyntacticallySuccessfulModifier", "SyntacticallyFailedModification"} /\ m.id = id
        \/ m.kind \in {"SuccessfulTransaction", "FailedTransaction"} /\ m.id = id /\ id \in Txs
        \/ m.kind = "ModifiersProcessingResult" /\ id \in m.cleared
    BY <1>1, <1>3, MessageFields DEF Outcomes
  <2>2. id \in Txs => HandlingTransactionsEnabled
    BY <1>3 DEF WayOf
  <2>. QED  BY <1>1, <1>3, <2>1, <2>2 DEF SettledBy
<1>. QED  BY <1>1, <1>2, <1>3 DEF WayOf

\* Events are added, nothing is lost on the way to the cache or in it.
LEMMA WayMail ==
    ASSUME IInv, NEW id \in Ids, WayOf(id), NEW e \in Seq(Message), mailbox' = mailbox \o e,
           history \subseteq history', UNCHANGED <<requested, received>>,
           Occurs(nvhMailbox, Carriers(id)) =>
             Occurs(nvhMailbox', Carriers(id)) \/ id \in Keys(modifiersCache') \/ Occurs(e, Outcomes(id)),
           id \in Keys(modifiersCache) =>
             id \in Keys(modifiersCache') \/ id \in history' \/ Occurs(e, Outcomes(id))
    PROVE  WayOf(id)'
<1>0. mailbox \in Seq(Message)
  BY IInvFacts
<1>1. Occurs(mailbox', Outcomes(id)) <=> Occurs(mailbox, Outcomes(id)) \/ Occurs(e, Outcomes(id))
  BY <1>0, ConcatOccurs
<1>. QED  BY <1>1 DEF WayOf, IsReceived, IsRequested

\* What the first message of the NodeViewHolder carried.
LEMMA HeadLeaves ==
    ASSUME IInv, NEW id, nvhMailbox # <<>>
    PROVE  /\ Head(nvhMailbox) \in NvhMessage
           /\ Tail(nvhMailbox) \in Seq(NvhMessage)
           /\ Occurs(nvhMailbox, Carriers(id)) <=>
                Head(nvhMailbox) \in Carriers(id) \/ Occurs(Tail(nvhMailbox), Carriers(id))
<1>1. nvhMailbox \in Seq(NvhMessage)
  BY IInvFacts DEF RestTypeOK
<1>. QED  BY <1>1, TailIndex, TailOccurs

\* The scan stops at one candidate, and only malformed entries are dropped.
LEMMA OneCandidate ==
    ASSUME NEW c \in Caches(Blocks), NEW verdict, NEW x \in CandidateKey(c, verdict),
           NEW y \in CandidateKey(c, verdict)
    PROVE  x = y
<1>1. c.entries \in Seq(Blocks)
  BY DEF Caches
<1>2. PICK i \in Scanned(c, verdict) \cap Applicable(c, verdict) : x = c.entries[i]
  BY DEF CandidateKey
<1>3. PICK j \in Scanned(c, verdict) \cap Applicable(c, verdict) : y = c.entries[j]
  BY DEF CandidateKey
<1>4. i \in DOMAIN c.entries /\ j \in DOMAIN c.entries /\ i <= j /\ j <= i
  BY <1>2, <1>3 DEF Scanned
<1>5. i = j
  BY <1>1, <1>4
<1>. QED  BY <1>2, <1>3, <1>5

\* popCandidate drops only malformed blocks in silence.
LEMMA OnlyMalformedDropped ==
    ASSUME NEW c \in Caches(Blocks), NEW x \in DroppedKeys(c, Verdict)
    PROVE  x \in Malformed
<1>1. c.entries \in Seq(Blocks)
  BY DEF Caches
<1>2. PICK i \in DOMAIN c.entries : x = c.entries[i] /\ Verdict[c.entries[i]] = "malformed"
  BY DEF DroppedKeys, Scanned
<1>3. c.entries[i] \in Blocks
  BY <1>1
<1>4. Verdict[c.entries[i]] = ApplicableTry(history, x)
  BY <1>2, <1>3 DEF Verdict
<1>. QED  BY <1>2, <1>4 DEF ApplicableTry

\* The NodeViewHolder passes every modifier on or reports it, but for malformed blocks.
LEMMA WayNvh ==
    ASSUME IInv, CacheInv, NEW id \in Ids, id \notin Malformed, WayOf(id), NvhNext
    PROVE  WayOf(id)'
<1>0. /\ mailbox \in Seq(Message) /\ nvhMailbox \in Seq(NvhMessage) /\ history \subseteq history
      /\ UNCHANGED <<requested, received, invalid>> /\ modifiersCache \in Caches(Blocks)
  BY IInvFacts, NvhKeepsTracker DEF RestTypeOK, CacheInv
<1> DEFINE none == <<>>
<1>a. none \in Seq(Message) /\ mailbox \o none = mailbox
  BY <1>0, ConcatEmptySeq
<1> HIDE DEF none
<1>1. CASE NvhGetNodeViewChanges
  <2>1. PICK e \in Seq(Message) : mailbox' = mailbox \o e
    BY <1>1, ChangesEffect
  <2>2. /\ UNCHANGED <<history, modifiersCache>> /\ nvhMailbox # <<>> /\ nvhMailbox' = Tail(nvhMailbox)
        /\ Head(nvhMailbox).kind = "GetNodeViewChanges"
    BY <1>1 DEF NvhGetNodeViewChanges, NvhReceives, nvhVars
  <2>3. Occurs(nvhMailbox, Carriers(id)) => Occurs(nvhMailbox', Carriers(id))
    BY <2>2, HeadLeaves DEF Carriers
  <2>. QED  BY <1>0, <2>1, <2>2, <2>3, WayMail
<1>2. CASE NvhModifiersFromRemote
  <2> DEFINE m == Head(nvhMailbox)
  <2>1. /\ nvhMailbox # <<>> /\ nvhMailbox' = Tail(nvhMailbox)
        /\ modifiersCache' = PutAll(modifiersCache, m.mods) /\ UNCHANGED <<mailbox, history>>
    BY <1>2 DEF NvhModifiersFromRemote, NvhReceives
  <2>2. m \in NvhMessage /\ m.kind = "ModifiersFromRemote" /\ m.mods \in Seq(Blocks)
    BY <1>2, ModifiersMessage DEF NvhModifiersFromRemote
  <2>3. Occurs(nvhMailbox, Carriers(id)) <=> m \in Carriers(id) \/ Occurs(nvhMailbox', Carriers(id))
    BY <2>1, HeadLeaves
  <2>4. Keys(modifiersCache') = Keys(modifiersCache) \cup ToSet(m.mods)
    BY <1>0, <2>1, <2>2, PutAllFacts
  <2>5. m \in Carriers(id) <=> id \in ToSet(m.mods)
    BY <2>2 DEF Carriers, Brings, ToSet
  <2> HIDE DEF m
  <2>. QED  BY <1>0, <1>a, <2>1, <2>3, <2>4, <2>5, WayMail
<1>3. CASE NvhApplyCandidate
  <2>1. PICK c \in Blocks : c \in CandidateKey(modifiersCache, Verdict) /\ PmodModify(c)
    BY <1>3 DEF NvhApplyCandidate
  <2>2. PICK e \in Seq(Message) :
          /\ mailbox' = mailbox \o e
          /\ history \subseteq history'
          /\ c \in history' \/ Occurs(e, Outcomes(c))
    BY <2>1, PmodEffect
  <2>3. UNCHANGED nvhMailbox /\ modifiersCache' = PopCandidate(modifiersCache, Verdict)
    BY <1>3 DEF NvhApplyCandidate
  <2>4. ASSUME id \in Keys(modifiersCache), id \notin Keys(modifiersCache')
        PROVE  id = c
    <3>1. id \in CandidateKey(modifiersCache, Verdict) \cup DroppedKeys(modifiersCache, Verdict)
      BY <1>0, <2>3, <2>4, PopCandidateFacts
    <3>2. id \notin DroppedKeys(modifiersCache, Verdict)
      BY <1>0, OnlyMalformedDropped
    <3>. QED  BY <1>0, <2>1, <3>1, <3>2, OneCandidate
  <2>. QED  BY <1>0, <2>2, <2>3, <2>4, WayMail
<1>4. CASE NvhFinish
  <2> DEFINE left == PopCandidate(modifiersCache, Verdict)
             m == ModifiersProcessingResult({i \in Blocks : i \in ClearedKeys(left)})
  <2>1. /\ modifiersCache' = CleanOverfull(left) /\ mailbox' = mailbox \o <<m>>
        /\ UNCHANGED <<nvhMailbox, history>> /\ CandidateKey(modifiersCache, Verdict) = {}
    BY <1>4 DEF NvhFinish, Publish
  <2>2. /\ m \in Message /\ m.kind = "ModifiersProcessingResult"
        /\ m.cleared = {i \in Blocks : i \in ClearedKeys(left)}
    BY DEF ModifiersProcessingResult, Message
  <2>3. left \in Caches(Blocks) /\ (id \in Keys(modifiersCache) => id \in Keys(left))
    BY <1>0, <2>1, PopCandidateFacts, OnlyMalformedDropped
  <2> HIDE DEF left, m
  <2>4. Keys(modifiersCache') = Keys(left) \ ClearedKeys(left) /\ Keys(left) \subseteq Blocks
    BY <2>1, <2>3, CleanOverfullFacts, KeysType
  <2>5. id \in Keys(left) /\ id \in ClearedKeys(left) => m \in Outcomes(id)
    BY <2>2, <2>4 DEF Outcomes
  <2>6. <<m>> \in Seq(Message) /\ (Occurs(<<m>>, Outcomes(id)) <=> m \in Outcomes(id))
    BY <2>2, OneOccurs
  <2>. QED  BY <1>0, <2>1, <2>3, <2>4, <2>5, <2>6, WayMail
<1>5. CASE NvhTransactionsFromRemote
  <2> DEFINE h == Head(nvhMailbox)
             txs == h.mods
  <2>1. nvhMailbox # <<>> /\ h.kind = "TransactionsFromRemote" /\ UNCHANGED <<history, modifiersCache>>
    BY <1>5 DEF NvhTransactionsFromRemote, NvhReceives
  <2>2. h \in NvhMessage /\ Tail(nvhMailbox) \in Seq(NvhMessage)
    BY <2>1, HeadLeaves
  <2>3. txs \in Seq(Txs)
    BY <2>1, <2>2 DEF NvhMessage, GetNodeViewChanges
  <2>4. Occurs(nvhMailbox, Carriers(id)) <=> h \in Carriers(id) \/ Occurs(Tail(nvhMailbox), Carriers(id))
    BY <2>1, HeadLeaves
  <2>5. CASE txs = <<>>
    <3>1. mailbox' = mailbox /\ nvhMailbox' = Tail(nvhMailbox)
      BY <1>5, <2>5 DEF NvhTransactionsFromRemote
    <3>2. h \notin Carriers(id)
      BY <2>5 DEF Carriers, Brings
    <3>. QED  BY <1>0, <1>a, <2>1, <2>4, <3>1, <3>2, WayMail
  <2>6. CASE txs # <<>>
    <3> DEFINE m == TransactionsFromRemote(Tail(txs))
    <3>1. /\ nvhMailbox' = <<m>> \o Tail(nvhMailbox) /\ TxModify(Head(txs)) /\ Head(txs) \in Txs
          /\ Tail(txs) \in Seq(Txs)
      BY <1>5, <2>3, <2>6, TailIndex DEF NvhTransactionsFromRemote
    <3>2. PICK e \in Seq(Message) : mailbox' = mailbox \o e /\ Occurs(e, Outcomes(Head(txs)))
      BY <3>1, TxEffect
    <3>3. m \in NvhMessage /\ m.kind = "TransactionsFromRemote" /\ m.mods = Tail(txs)
      BY <3>1 DEF TransactionsFromRemote, NvhMessage
    <3>4. h \in Carriers(id) => id = Head(txs) \/ m \in Carriers(id)
      <4>1. SUFFICES ASSUME NEW j \in DOMAIN txs, txs[j] = id, id # Head(txs)
                     PROVE  Brings(Tail(txs), id)
        BY <3>3 DEF Carriers, Brings
      <4>2. j - 1 \in DOMAIN Tail(txs) /\ Tail(txs)[j - 1] = txs[(j - 1) + 1] /\ (j - 1) + 1 = j
        BY <2>3, <2>6, <4>1, TailIndex
      <4>. QED  BY <4>1, <4>2 DEF Brings
    <3> HIDE DEF m, txs, h
    <3>5. <<m>> \in Seq(NvhMessage) /\ (Occurs(<<m>>, Carriers(id)) <=> m \in Carriers(id))
      BY <3>3, OneOccurs
    <3>6. Occurs(nvhMailbox', Carriers(id)) <=>
            Occurs(<<m>>, Carriers(id)) \/ Occurs(Tail(nvhMailbox), Carriers(id))
      BY <2>2, <3>1, <3>5, ConcatOccurs
    <3>7. Occurs(nvhMailbox, Carriers(id)) => Occurs(nvhMailbox', Carriers(id)) \/ Occurs(e, Outcomes(id))
      BY <2>4, <3>2, <3>4, <3>5, <3>6
    <3>. QED  BY <1>0, <2>1, <3>2, <3>7, WayMail
  <2>. QED  BY <2>5, <2>6
<1>6. ASSUME NEW c \in Blocks, NvhLocallyGeneratedModifier(c)
      PROVE  WayOf(id)'
  <2>1. PmodModify(c) /\ UNCHANGED <<nvhMailbox, modifiersCache>>
    BY <1>6 DEF NvhLocallyGeneratedModifier
  <2>2. PICK e \in Seq(Message) : mailbox' = mailbox \o e /\ history \subseteq history'
    BY <2>1, PmodEffect
  <2>. QED  BY <1>0, <2>1, <2>2, WayMail
<1>7. ASSUME NEW t \in Txs, NvhLocallyGeneratedTransaction(t) \/ NvhEliminateTransaction(t)
      PROVE  WayOf(id)'
  <2>1. PICK e \in Seq(Message) : mailbox' = mailbox \o e
    BY <1>7, LocalTxEffect
  <2>2. UNCHANGED <<nvhMailbox, history, modifiersCache>>
    BY <1>7, LocalTxEffect
  <2>. QED  BY <1>0, <2>1, <2>2, WayMail
<1>. QED  BY <1>1, <1>2, <1>3, <1>4, <1>5, <1>6, <1>7 DEF NvhNext

\* Every step keeps a Received modifier under way.
LEMMA StepWay ==
    ASSUME IInv, CacheInv, WayInv, [Next]_vars
    PROVE  WayInv'
<1>. SUFFICES ASSUME NEW id \in Ids, id \notin Malformed PROVE WayOf(id)'
  BY DEF WayInv
<1>0. WayOf(id) /\ mailbox \in Seq(Message)
  BY IInvFacts DEF WayInv
<1>1. CASE NvsReceive
  <2>1. CASE Asks
    <3>1. UNCHANGED <<received, mailbox, nvhMailbox, modifiersCache, history>>
      BY <2>1 DEF Asks, nvhVars
    <3>2. id \in Txs /\ ~HandlingTransactionsEnabled => (IsRequested(id)' => IsRequested(id))
      BY <2>1 DEF Asks
    <3>. QED  BY <1>0, <3>1, <3>2 DEF WayOf, IsReceived
  <2>. QED  BY <1>0, <1>1, <2>1, ReceiveEffect, WayTakes
<1>2. CASE NvsTimeout
  <2>1. UNCHANGED <<requested, received, nvhMailbox, history, modifiersCache>>
    BY <1>2, TimeoutEffect DEF nvhVars
  <2>2. PICK m \in Message : mailbox' = mailbox \o <<m>>
    BY <1>2, TimeoutEffect
  <2>3. <<m>> \in Seq(Message)
    OBVIOUS
  <2>. QED  BY <1>0, <2>1, <2>2, <2>3, WayMail
<1>3. CASE NvsHandle /\ UNCHANGED nvhVars
  BY <1>0, <1>3, HandleEffect, WaySettles
<1>4. CASE NvhNext
  BY <1>0, <1>4, WayNvh
<1>5. CASE UNCHANGED vars
  BY <1>0, <1>5 DEF WayOf, IsReceived, IsRequested, vars, nvsVars, nvhVars, trackerVars, requestVars
<1>. QED  BY <1>1, <1>2, <1>3, <1>4, <1>5, NextCases

\* Nothing is Received at the start.
LEMMA InitWay == Init => WayInv
<1>. SUFFICES ASSUME Init, NEW id \in Ids PROVE WayOf(id)
  BY DEF WayInv
<1>1. ~IsReceived(id) /\ ~IsRequested(id)
  BY DEF Init, NvsInit, TrackerInit, IsReceived, IsRequested
<1>. QED  BY <1>1 DEF WayOf

\* What the invariant says of a Received modifier.
LEMMA WayMeans ==
    ASSUME IInv, WayInv, NEW id \in Ids \ Malformed, IsReceived(id)
    PROVE  InHand(id) \/ OutcomeInMailbox(id) \/ id \in history
<1>1. mailbox \in Seq(Message) /\ nvhMailbox \in Seq(NvhMessage)
  BY IInvFacts DEF RestTypeOK
<1>. QED  BY <1>1, ForwardedOccurs, OutcomeOccurs DEF WayInv, WayOf, InHand

\* The invariants hold for ever.
LEMMA AlwaysWay == Spec => [](IInv /\ WayInv)
<1>1. IInv /\ CacheInv /\ [Next]_vars => CacheInv'
  BY StepCache
<1>2. IInv /\ CacheInv /\ WayInv /\ [Next]_vars => WayInv'
  BY StepWay
<1>. QED  BY <1>1, <1>2, InitCache, InitWay, InductiveInvariant, PTL DEF Spec

\* When no block is malformed, a modifier that is Received is waiting to be applied,
\* the event that settles it is on the way, or the history got it by another way: no
\* modifier stays Received with nobody left to settle it.
THEOREM ReceivedAlwaysUnderWayOrHeld ==
    ASSUME Malformed = {}
    PROVE  Spec => []ReceivedIsUnderWayOrHeld
<1>1. IInv /\ WayInv => ReceivedIsUnderWayOrHeld
  BY WayMeans DEF ReceivedIsUnderWayOrHeld
<1>. QED  BY <1>1, AlwaysWay, PTL

\* For transactions nothing need be assumed, not even that no block is malformed: as
\* long as one is Received it is waiting to be applied or its verdict is on the way.
THEOREM ReceivedTxAlwaysUnderWay == Spec => []ReceivedTxIsUnderWay
<1>1. IInv /\ WayInv => ReceivedTxIsUnderWay
  <2>. SUFFICES ASSUME IInv, WayInv, NEW tx \in Txs, IsReceived(tx)
                PROVE  InHand(tx) \/ OutcomeInMailbox(tx)
    BY DEF ReceivedTxIsUnderWay
  <2>1. tx \in Ids \ Malformed /\ tx \notin history
    BY IInvFacts, TrackerAssumption, SynchronizerAssumption DEF RestTypeOK, Ids
  <2>. QED  BY <2>1, WayMeans
<1>. QED  BY <1>1, AlwaysWay, PTL

-----------------------------------------------------------------------------
(* What is invalid stays so, and the life of a modifier                    *)

\* The NodeViewHolder only takes modifiers out of its mailbox.
LEMMA NvhForwards ==
    ASSUME IInv, NvhNext, NEW id
    PROVE  Occurs(nvhMailbox', Carriers(id)) => Occurs(nvhMailbox, Carriers(id))
<1>0. nvhMailbox \in Seq(NvhMessage)
  BY IInvFacts DEF RestTypeOK
<1>1. CASE UNCHANGED nvhMailbox
  BY <1>1
<1>2. CASE nvhMailbox # <<>> /\ nvhMailbox' = Tail(nvhMailbox)
  BY <1>2, HeadLeaves
<1>3. CASE NvhTransactionsFromRemote /\ Head(nvhMailbox).mods # <<>>
  <2> DEFINE h == Head(nvhMailbox)
             txs == h.mods
             m == TransactionsFromRemote(Tail(txs))
  <2>1. nvhMailbox # <<>> /\ h.kind = "TransactionsFromRemote" /\ nvhMailbox' = <<m>> \o Tail(nvhMailbox)
    BY <1>3 DEF NvhTransactionsFromRemote, NvhReceives
  <2>2. h \in NvhMessage /\ Tail(nvhMailbox) \in Seq(NvhMessage)
    BY <2>1, HeadLeaves
  <2>3. txs \in Seq(Txs) /\ txs # <<>>
    BY <1>3, <2>1, <2>2 DEF NvhMessage, GetNodeViewChanges
  <2>4. Tail(txs) \in Seq(Txs)
    BY <2>3, TailIndex
  <2>5. m \in NvhMessage /\ m.kind = "TransactionsFromRemote" /\ m.mods = Tail(txs)
    BY <2>4 DEF TransactionsFromRemote, NvhMessage
  <2>6. m \in Carriers(id) => h \in Carriers(id)
    <3>1. SUFFICES ASSUME NEW j \in DOMAIN Tail(txs), Tail(txs)[j] = id
                   PROVE  Brings(txs, id)
      BY <2>1, <2>2, <2>5 DEF Carriers, Brings
    <3>2. j + 1 \in DOMAIN txs /\ Tail(txs)[j] = txs[j + 1]
      BY <2>3, <3>1, TailIndex
    <3>. QED  BY <3>1, <3>2 DEF Brings
  <2>7. Occurs(nvhMailbox, Carriers(id)) <=> h \in Carriers(id) \/ Occurs(Tail(nvhMailbox), Carriers(id))
    BY <2>1, HeadLeaves
  <2> HIDE DEF h, txs, m
  <2>8. <<m>> \in Seq(NvhMessage) /\ (Occurs(<<m>>, Carriers(id)) <=> m \in Carriers(id))
    BY <2>5, OneOccurs
  <2>9. Occurs(nvhMailbox', Carriers(id)) <=>
          Occurs(<<m>>, Carriers(id)) \/ Occurs(Tail(nvhMailbox), Carriers(id))
    BY <2>1, <2>2, <2>8, ConcatOccurs
  <2>. QED  BY <2>6, <2>7, <2>8, <2>9
<1>4. \/ UNCHANGED nvhMailbox
      \/ nvhMailbox # <<>> /\ nvhMailbox' = Tail(nvhMailbox)
      \/ NvhTransactionsFromRemote /\ Head(nvhMailbox).mods # <<>>
  BY DEF NvhNext, NvhGetNodeViewChanges, NvhModifiersFromRemote, NvhApplyCandidate, NvhFinish,
         NvhTransactionsFromRemote, NvhLocallyGeneratedModifier, NvhLocallyGeneratedTransaction,
         NvhEliminateTransaction, NvhReceives
<1>. QED  BY <1>1, <1>2, <1>3, <1>4

\* No step requests, forwards or forgets an invalid modifier.
LEMMA StepInvalid ==
    ASSUME IInv, [Next]_vars, NEW id \in invalid
    PROVE  id \in invalid' /\ ~IsRequested(id)' /\ (Forwarded(id)' => Forwarded(id))
<1>0. /\ id \in Ids /\ ~IsRequested(id) /\ nvhMailbox \in Seq(NvhMessage)
  BY IInvFacts DEF RestTypeOK, TrackerInv, TrackerTypeOK, StatusIsUnambiguous
<1>1. IInv' /\ nvhMailbox' \in Seq(NvhMessage)
  <2>1. IInv'
    BY NextPreservesIInv
  <2>. QED  BY <2>1 DEF IInv, TypeOK
<1>2. /\ Forwarded(id) <=> Occurs(nvhMailbox, Carriers(id))
      /\ Forwarded(id)' <=> Occurs(nvhMailbox', Carriers(id))
  <2>1. Forwarded(id)' <=> Occurs(nvhMailbox', Carriers(id))
    <3>1. DOMAIN nvhMailbox' = 1..Len(nvhMailbox') /\ \A i \in 1..Len(nvhMailbox') : nvhMailbox'[i] \in NvhMessage
      BY <1>1
    <3>. QED  BY <3>1 DEF Forwarded, Occurs, Carriers, Brings
  <2>. QED  BY <1>0, <2>1, ForwardedOccurs
<1>3. invalid \subseteq invalid' /\ (Occurs(nvhMailbox', Carriers(id)) => Occurs(nvhMailbox, Carriers(id)))
  <2>1. CASE Asks
    BY <2>1 DEF Asks
  <2>2. ASSUME NEW good, NEW bad, Takes(good, bad)
        PROVE  invalid \subseteq invalid' /\ (Occurs(nvhMailbox', Carriers(id)) => Occurs(nvhMailbox, Carriers(id)))
    <3>1. id \notin good
      BY <1>0, <2>2 DEF Takes
    <3>2. ASSUME NEW m \in NvhMessage, nvhMailbox' = nvhMailbox \o <<m>>, m \notin Carriers(id)
          PROVE  Occurs(nvhMailbox', Carriers(id)) => Occurs(nvhMailbox, Carriers(id))
      <4>1. <<m>> \in Seq(NvhMessage) /\ ~Occurs(<<m>>, Carriers(id))
        BY <3>2, OneOccurs
      <4>. QED  BY <1>0, <3>2, <4>1, ConcatOccurs
    <3>. QED  BY <2>2, <3>1, <3>2 DEF Takes
  <2>3. ASSUME NEW S, NEW bad, Settles(S, bad)
        PROVE  invalid \subseteq invalid' /\ UNCHANGED nvhMailbox
    BY <2>3 DEF Settles, Clears
  <2>4. CASE NvsTimeout
    BY <2>4, TimeoutEffect
  <2>5. CASE NvhNext
    BY <2>5, NvhKeepsTracker, NvhForwards
  <2>6. CASE UNCHANGED vars
    BY <2>6 DEF vars, nvsVars, trackerVars
  <2>. QED  BY <2>1, <2>2, <2>3, <2>4, <2>5, <2>6, NextCases, ReceiveEffect, HandleEffect
<1>4. ~IsRequested(id)'
  <2>1. id \in invalid'
    BY <1>3
  <2>. QED  BY <1>0, <1>1, <2>1 DEF IInv, StatusIsUnambiguous
<1>. QED  BY <1>2, <1>3, <1>4

\* A modifier that was found invalid is never asked for and never sent on again.
THEOREM InvalidStaysInvalid == Spec => InvalidIsForEver
<1>1. IInv /\ [Next]_vars =>
        [\A id \in invalid :
            id \in invalid' /\ ~IsRequested(id)' /\ (Forwarded(id)' => Forwarded(id))]_vars
  BY StepInvalid
<1>. QED  BY <1>1, InductiveInvariant, PTL DEF Spec, InvalidIsForEver

\* The refinement mapping.
StatusMap == [id \in Ids |-> Status(id, {})]
HandMap == {id \in Ids : InHand(id)}
HeldMap == history \cup mempool

\* InHand, by the messages that carry a modifier.
LEMMA InHandFacts ==
    ASSUME IInv, NEW id
    PROVE  InHand(id) <=> Occurs(nvhMailbox, Carriers(id)) \/ id \in Keys(modifiersCache)
BY IInvFacts, ForwardedOccurs DEF InHand, RestTypeOK

\* Who changes the status of modifiers only ...
LEMMA LifeAsks ==
    ASSUME IInv, Asks
    PROVE  Life!Ask
<1>1. PICK S \in SUBSET Ids :
        /\ \A id \in S : ~IsReceived(id) /\ ~IsRequested(id) /\ id \notin invalid
        /\ \A id \in Ids : IsRequested(id)' <=> id \in S \/ IsRequested(id)
  BY DEF Asks
<1>2. UNCHANGED <<received, invalid, nvhMailbox, modifiersCache, history, mempool>>
  BY DEF Asks, nvhVars
<1>3. HandMap' = HandMap /\ HeldMap' = HeldMap
  BY <1>2 DEF HandMap, HeldMap, InHand, Forwarded
<1>4. \A id \in S : id \in Ids /\ StatusMap[id] = "Unknown"
  BY <1>1 DEF StatusMap, Status
<1>5. ASSUME NEW id \in Ids
      PROVE  Status(id, {})' = IF id \in S THEN "Requested" ELSE StatusMap[id]
  <2>1. StatusMap[id] = Status(id, {})
    BY DEF StatusMap
  <2>2. (IsReceived(id)' <=> IsReceived(id)) /\ (id \in invalid' <=> id \in invalid)
    BY <1>2 DEF IsReceived
  <2>. QED  BY <1>1, <2>1, <2>2 DEF Status
<1>6. StatusMap' = [id \in Ids |-> IF id \in S THEN "Requested" ELSE StatusMap[id]]
  BY <1>5 DEF StatusMap
<1>7. S \subseteq {id \in Ids : StatusMap[id] = "Unknown"}
  BY <1>4
<1>. QED  BY <1>3, <1>6, <1>7 DEF Life!Ask, Life!SetStatus, Life!InStatus, StatusMap, HandMap, HeldMap

\* The same after a step.
LEMMA PrimedInHand ==
    ASSUME IInv', NEW id
    PROVE  InHand(id)' <=> Occurs(nvhMailbox', Carriers(id)) \/ id \in Keys(modifiersCache')
<1>1. nvhMailbox' \in Seq(NvhMessage)
  BY DEF IInv, TypeOK
<1>2. /\ DOMAIN nvhMailbox' = 1..Len(nvhMailbox')
      /\ \A i \in 1..Len(nvhMailbox') : nvhMailbox'[i] \in NvhMessage
  BY <1>1
<1>. QED  BY <1>2 DEF InHand, Forwarded, Occurs, Carriers, Brings

\* ... and takes modifiers in.
LEMMA LifeTakes ==
    ASSUME IInv, IInv', NEW good \in SUBSET Ids, NEW bad \in SUBSET Ids, Takes(good, bad)
    PROVE  Life!TakeIn
<1> DEFINE S == good \cup bad
<1>0. nvhMailbox \in Seq(NvhMessage)
  BY IInvFacts DEF RestTypeOK
<1>1. /\ \A id \in S : id \in Ids /\ IsRequested(id) /\ ~IsReceived(id)
      /\ \A id \in Ids : IsRequested(id)' <=> IsRequested(id) /\ id \notin S
      /\ \A id \in Ids : IsReceived(id)' <=> IsReceived(id) \/ id \in good \ bad
      /\ invalid' = invalid \cup bad
      /\ UNCHANGED <<history, mempool, modifiersCache>>
  BY DEF Takes, nvhVars
<1>2. HeldMap' = HeldMap
  BY <1>1 DEF HeldMap
<1>3. \A id \in S : id \in Ids /\ StatusMap[id] = "Requested"
  BY <1>1 DEF StatusMap, Status
<1>4. ASSUME NEW id \in Ids
      PROVE  Status(id, {})' =
               IF id \in bad THEN "Invalid" ELSE IF id \in S THEN "Received" ELSE StatusMap[id]
  <2>1. StatusMap[id] = Status(id, {})
    BY DEF StatusMap
  <2>2. /\ IsReceived(id)' <=> IsReceived(id) \/ (id \in good /\ id \notin bad)
        /\ IsRequested(id)' <=> IsRequested(id) /\ id \notin S
        /\ id \in invalid' <=> id \in invalid \/ id \in bad
        /\ id \in S => IsRequested(id) /\ ~IsReceived(id)
        /\ id \in S <=> id \in good \/ id \in bad
    BY <1>1
  <2> HIDE DEF S
  <2>. QED  BY <2>1, <2>2 DEF Status
<1>5. StatusMap' = [id \in Ids |-> IF id \in bad THEN "Invalid"
                                   ELSE IF id \in S THEN "Received" ELSE StatusMap[id]]
  BY <1>4 DEF StatusMap
<1>6. ASSUME NEW id \in Ids
      PROVE  InHand(id)' <=> InHand(id) \/ id \in good
  <2>1. Occurs(nvhMailbox', Carriers(id)) <=> Occurs(nvhMailbox, Carriers(id)) \/ id \in good
    <3>1. CASE good = {} /\ nvhMailbox' = nvhMailbox
      BY <3>1
    <3>2. ASSUME NEW m \in NvhMessage, nvhMailbox' = nvhMailbox \o <<m>>, m \in Carriers(id) <=> id \in good
          PROVE  Occurs(nvhMailbox', Carriers(id)) <=> Occurs(nvhMailbox, Carriers(id)) \/ id \in good
      <4>1. <<m>> \in Seq(NvhMessage) /\ (Occurs(<<m>>, Carriers(id)) <=> id \in good)
        BY <3>2, OneOccurs
      <4>. QED  BY <1>0, <3>2, <4>1, ConcatOccurs
    <3>. QED  BY <3>1, <3>2 DEF Takes
  <2>2. InHand(id)' <=> Occurs(nvhMailbox', Carriers(id)) \/ id \in Keys(modifiersCache')
    BY PrimedInHand
  <2>. QED  BY <1>1, <2>1, <2>2, InHandFacts
<1>7. HandMap' = HandMap \cup good
  BY <1>6 DEF HandMap
<1> HIDE DEF S
<1>8. S \subseteq {id \in Ids : StatusMap[id] = "Requested"} /\ bad \subseteq S
  BY <1>3 DEF S
<1>9. HandMap \cup (S \ bad) \subseteq HandMap' /\ HandMap' \subseteq HandMap \cup S
  BY <1>7 DEF S
<1>. QED  BY <1>2, <1>5, <1>8, <1>9 DEF Life!TakeIn, Life!InStatus, StatusMap, HandMap, HeldMap

\* A message is handled.
LEMMA LifeSettles ==
    ASSUME IInv, NEW S \in SUBSET Ids, NEW bad \in SUBSET Ids, bad \subseteq S, Settles(S, bad)
    PROVE  Life!Settle \/ Life!Reject
<1>1. /\ \A id \in Ids : IsRequested(id)' <=> IsRequested(id) /\ id \notin S
      /\ \A id \in Ids : IsReceived(id)' <=> IsReceived(id) /\ id \notin S
      /\ invalid' = invalid \cup bad
      /\ UNCHANGED <<nvhMailbox, history, mempool, modifiersCache>>
  BY DEF Settles, Clears, nvhVars
<1>2. HandMap' = HandMap /\ HeldMap' = HeldMap
  BY <1>1 DEF HandMap, HeldMap, InHand, Forwarded
<1>3. bad = {} \/ \E x : S = {x} /\ bad = {x}
  BY DEF Settles, SettledBy
<1>4. \A id \in Ids : StatusMap[id] = Status(id, {})
  BY DEF StatusMap
<1>5. CASE bad = {}
  <2> DEFINE T == {id \in S : IsRequested(id) \/ IsReceived(id)}
  <2>1. T \subseteq {id \in Ids : StatusMap[id] = "Requested"} \cup {id \in Ids : StatusMap[id] = "Received"}
    BY <1>4 DEF Status
  <2>2. ASSUME NEW id \in Ids
        PROVE  Status(id, {})' = IF id \in T THEN "Unknown" ELSE StatusMap[id]
    <3>1. /\ IsRequested(id)' <=> IsRequested(id) /\ id \notin S
          /\ IsReceived(id)' <=> IsReceived(id) /\ id \notin S
          /\ id \in invalid' <=> id \in invalid
          /\ id \in T <=> id \in S /\ (IsRequested(id) \/ IsReceived(id))
          /\ id \in invalid => ~IsRequested(id) /\ ~IsReceived(id)
          /\ StatusMap[id] = Status(id, {})
      BY <1>1, <1>4, <1>5, IInvFacts DEF TrackerInv, StatusIsUnambiguous
    <3> HIDE DEF T
    <3>. QED  BY <3>1 DEF Status
  <2> HIDE DEF T
  <2>3. StatusMap' = [id \in Ids |-> IF id \in T THEN "Unknown" ELSE StatusMap[id]]
    BY <2>2 DEF StatusMap
  <2>4. Life!Settle
    BY <1>2, <2>1, <2>3 DEF Life!Settle, Life!SetStatus, Life!InStatus, StatusMap, HandMap, HeldMap
  <2>. QED  BY <2>4
<1>6. ASSUME NEW x, S = {x}, bad = {x}
      PROVE  Life!Reject
  <2>1. x \in Ids
    BY <1>6
  <2>2. ASSUME NEW id \in Ids
        PROVE  Status(id, {})' = IF id \in {x} THEN "Invalid" ELSE StatusMap[id]
    <3>1. /\ IsRequested(id)' <=> IsRequested(id) /\ id # x
          /\ IsReceived(id)' <=> IsReceived(id) /\ id # x
          /\ id \in invalid' <=> id \in invalid \/ id = x
          /\ StatusMap[id] = Status(id, {})
      BY <1>1, <1>4, <1>6
    <3>. QED  BY <3>1 DEF Status
  <2>3. StatusMap' = [id \in Ids |-> IF id \in {x} THEN "Invalid" ELSE StatusMap[id]]
    BY <2>2 DEF StatusMap
  <2>. QED  BY <1>2, <2>1, <2>3 DEF Life!Reject, Life!SetStatus, StatusMap, HandMap, HeldMap
<1>. QED  BY <1>3, <1>5, <1>6

\* The NodeViewHolder works off what it has.
LEMMA LifeNvh ==
    ASSUME IInv, IInv', CacheInv, NvhNext
    PROVE  Life!Hold \/ Life!Release
<1>0. nvhMailbox \in Seq(NvhMessage) /\ modifiersCache \in Caches(Blocks) /\ Keys(modifiersCache) \subseteq Blocks
  BY IInvFacts, KeysType DEF RestTypeOK, CacheInv
<1>1. StatusMap' = StatusMap
  BY NvhKeepsTracker DEF StatusMap, Status, IsReceived, IsRequested
<1>2. HandMap' \subseteq HandMap
  <2>. SUFFICES ASSUME NEW id \in Ids, InHand(id)'
                PROVE  InHand(id)
    BY DEF HandMap
  <2>1. Occurs(nvhMailbox', Carriers(id)) \/ id \in Keys(modifiersCache')
    BY PrimedInHand
  <2>2. Occurs(nvhMailbox', Carriers(id)) => Occurs(nvhMailbox, Carriers(id))
    BY NvhForwards
  <2>3. CASE UNCHANGED modifiersCache
    BY <2>1, <2>2, <2>3, InHandFacts
  <2>4. CASE NvhModifiersFromRemote
    <3> DEFINE m == Head(nvhMailbox)
    <3>1. nvhMailbox # <<>> /\ modifiersCache' = PutAll(modifiersCache, m.mods)
      BY <2>4 DEF NvhModifiersFromRemote, NvhReceives
    <3>2. m \in NvhMessage /\ m.kind = "ModifiersFromRemote" /\ m.mods \in Seq(Blocks)
      BY <2>4, ModifiersMessage DEF NvhModifiersFromRemote
    <3>3. Keys(modifiersCache') = Keys(modifiersCache) \cup ToSet(m.mods)
      BY <1>0, <3>1, <3>2, PutAllFacts
    <3>4. id \in ToSet(m.mods) => m \in Carriers(id)
      BY <3>2 DEF Carriers, Brings, ToSet
    <3>5. m \in Carriers(id) => Occurs(nvhMailbox, Carriers(id))
      BY <3>1, HeadLeaves
    <3>. QED  BY <2>1, <2>2, <3>3, <3>4, <3>5, InHandFacts
  <2>5. CASE NvhApplyCandidate
    <3>1. Keys(modifiersCache') \subseteq Keys(modifiersCache)
      BY <1>0, <2>5, PopCandidateFacts DEF NvhApplyCandidate
    <3>. QED  BY <2>1, <2>2, <3>1, InHandFacts
  <2>6. CASE NvhFinish
    <3> DEFINE left == PopCandidate(modifiersCache, Verdict)
    <3>1. modifiersCache' = CleanOverfull(left)
      BY <2>6 DEF NvhFinish
    <3>2. left \in Caches(Blocks) /\ Keys(left) \subseteq Keys(modifiersCache)
      BY <1>0, PopCandidateFacts
    <3> HIDE DEF left
    <3>3. Keys(modifiersCache') \subseteq Keys(modifiersCache)
      BY <3>1, <3>2, CleanOverfullFacts
    <3>. QED  BY <2>1, <2>2, <3>3, InHandFacts
  <2>7. UNCHANGED modifiersCache \/ NvhModifiersFromRemote \/ NvhApplyCandidate \/ NvhFinish
    BY DEF NvhNext, NvhGetNodeViewChanges, NvhTransactionsFromRemote, NvhLocallyGeneratedModifier,
           NvhLocallyGeneratedTransaction, NvhEliminateTransaction, nvhVars
  <2>. QED  BY <2>3, <2>4, <2>5, <2>6, <2>7
<1>3. \/ HeldMap' \subseteq HeldMap
      \/ \E x \in HandMap \cup LocalModifiers : HeldMap' \subseteq HeldMap \cup {x}
  <2>1. ASSUME NEW b \in Blocks, PmodModify(b)
        PROVE  HeldMap' \subseteq HeldMap \cup {b}
    <3>1. history' \subseteq history \cup {b} /\ mempool' \subseteq mempool
      BY <2>1, PmodEffect
    <3>. QED  BY <3>1 DEF HeldMap
  <2>2. CASE NvhApplyCandidate
    <3>1. PICK b \in Blocks : b \in CandidateKey(modifiersCache, Verdict) /\ PmodModify(b)
      BY <2>2 DEF NvhApplyCandidate
    <3>2. b \in Keys(modifiersCache)
      BY <1>0, <3>1, PopCandidateFacts
    <3>3. b \in HandMap
      BY <3>2, InHandFacts DEF HandMap, Ids
    <3>. QED  BY <2>1, <3>1, <3>3
  <2>3. CASE NvhTransactionsFromRemote
    <3> DEFINE h == Head(nvhMailbox)
               txs == h.mods
    <3>1. nvhMailbox # <<>> /\ h.kind = "TransactionsFromRemote" /\ UNCHANGED history
      BY <2>3 DEF NvhTransactionsFromRemote, NvhReceives
    <3>2. h \in NvhMessage
      BY <3>1, HeadLeaves
    <3>3. txs \in Seq(Txs)
      BY <3>1, <3>2 DEF NvhMessage, GetNodeViewChanges
    <3>4. CASE txs = <<>>
      <4>1. UNCHANGED mempool
        BY <2>3, <3>4 DEF NvhTransactionsFromRemote
      <4>. QED  BY <3>1, <4>1 DEF HeldMap
    <3>5. CASE txs # <<>>
      <4>1. Head(txs) \in Txs /\ TxModify(Head(txs)) /\ Head(txs) = txs[1] /\ 1 \in DOMAIN txs
        BY <2>3, <3>3, <3>5, TailIndex DEF NvhTransactionsFromRemote
      <4>2. mempool' \subseteq mempool \cup {Head(txs)}
        BY <4>1, TxEffect
      <4>3. h \in Carriers(Head(txs))
        BY <3>1, <3>2, <4>1 DEF Carriers, Brings
      <4>4. Head(txs) \in HandMap
        BY <3>1, <4>1, <4>3, HeadLeaves, InHandFacts DEF HandMap, Ids
      <4>. QED  BY <3>1, <4>2, <4>4 DEF HeldMap
    <3>. QED  BY <3>4, <3>5
  <2>4. ASSUME NEW b \in LocalModifiers \cap Blocks, NvhLocallyGeneratedModifier(b)
        PROVE  \E x \in HandMap \cup LocalModifiers : HeldMap' \subseteq HeldMap \cup {x}
    BY <2>1, <2>4 DEF NvhLocallyGeneratedModifier
  <2>5. ASSUME NEW t \in LocalModifiers \cap Txs, NvhLocallyGeneratedTransaction(t) \/ NvhEliminateTransaction(t)
        PROVE  \E x \in HandMap \cup LocalModifiers : HeldMap' \subseteq HeldMap \cup {x}
    <3>1. history' = history /\ mempool' \subseteq mempool \cup {t}
      BY <2>5, LocalTxEffect
    <3>. QED  BY <2>5, <3>1 DEF HeldMap
  <2>6. CASE NvhGetNodeViewChanges \/ NvhModifiersFromRemote \/ NvhFinish
    <3>1. UNCHANGED <<history, mempool>>
      BY <2>6 DEF NvhGetNodeViewChanges, NvhModifiersFromRemote, NvhFinish, nvhVars
    <3>. QED  BY <3>1 DEF HeldMap
  <2>. QED  BY <2>2, <2>3, <2>4, <2>5, <2>6 DEF NvhNext
<1>4. CASE HeldMap' \subseteq HeldMap
  BY <1>1, <1>2, <1>4 DEF Life!Release, StatusMap, HandMap, HeldMap
<1>5. ASSUME NEW x \in HandMap \cup LocalModifiers, HeldMap' \subseteq HeldMap \cup {x}, x \in HeldMap'
      PROVE  Life!Hold
  BY <1>1, <1>2, <1>5 DEF Life!Hold, StatusMap, HandMap, HeldMap
<1>. QED  BY <1>3, <1>4, <1>5

\* Every step is a step of ModifierLife, or none.
LEMMA LifeStep ==
    ASSUME IInv, IInv', CacheInv, [Next]_vars
    PROVE  [Life!LifeNext]_(Life!lifeVars)
<1>1. CASE Asks
  BY <1>1, LifeAsks DEF Life!LifeNext
<1>2. ASSUME NEW good \in SUBSET Ids, NEW bad \in SUBSET Ids, Takes(good, bad)
      PROVE  Life!LifeNext
  BY <1>2, LifeTakes DEF Life!LifeNext
<1>3. ASSUME NEW S \in SUBSET Ids, NEW bad \in SUBSET Ids, bad \subseteq S, Settles(S, bad)
      PROVE  Life!LifeNext
  BY <1>3, LifeSettles DEF Life!LifeNext
<1>4. CASE NvhNext
  BY <1>4, LifeNvh DEF Life!LifeNext
<1>5. CASE NvsTimeout \/ UNCHANGED vars
  <2>1. UNCHANGED <<requested, received, invalid, nvhMailbox, modifiersCache, history, mempool>>
    BY <1>5, TimeoutEffect DEF vars, nvsVars, nvhVars, trackerVars, requestVars
  <2>2. StatusMap' = StatusMap /\ HandMap' = HandMap /\ HeldMap' = HeldMap
    BY <2>1 DEF StatusMap, HandMap, HeldMap, Status, IsReceived, IsRequested, InHand, Forwarded
  <2>. QED  BY <2>2 DEF Life!lifeVars, StatusMap, HandMap, HeldMap
<1>6. Asks \/ (\E good, bad \in SUBSET Ids : Takes(good, bad))
      \/ (\E S, bad \in SUBSET Ids : bad \subseteq S /\ Settles(S, bad))
      \/ NvhNext \/ NvsTimeout \/ UNCHANGED vars
  BY NextCases, ReceiveEffect, HandleEffect
<1>. QED  BY <1>1, <1>2, <1>3, <1>4, <1>5, <1>6

\* Initial states are initial states of ModifierLife.
LEMMA LifeStart == Init => Life!LifeInit
<1>. SUFFICES ASSUME Init PROVE Life!LifeInit
  OBVIOUS
<1>1. \A id \in Ids : ~IsReceived(id) /\ ~IsRequested(id) /\ id \notin invalid
  BY DEF Init, NvsInit, TrackerInit, IsReceived, IsRequested
<1>2. StatusMap = [id \in Ids |-> "Unknown"]
  BY <1>1 DEF StatusMap, Status
<1>3. \A id : ~Forwarded(id)
  <2>1. nvhMailbox = <<GetNodeViewChanges>>
    BY DEF Init, NvsInit
  <2>2. \A i \in DOMAIN nvhMailbox : nvhMailbox[i].kind = "GetNodeViewChanges"
    BY <2>1 DEF GetNodeViewChanges
  <2>. QED  BY <2>2 DEF Forwarded
<1>4. Keys(modifiersCache) = {}
  BY DEF Init, EmptyCache, Keys, ToSet
<1>5. HandMap = {} /\ HeldMap = {}
  BY <1>3, <1>4 DEF HandMap, HeldMap, InHand, Init
<1>. QED  BY <1>2, <1>5 DEF Life!LifeInit, StatusMap, HandMap, HeldMap

\* Synchronizer, tracker, cache and NodeViewHolder together implement ModifierLife.
THEOREM LifeIsAlwaysLegal == Spec => LifeIsLegal
<1>1. IInv /\ CacheInv /\ [Next]_vars => CacheInv'
  BY StepCache
<1>2. IInv /\ IInv' /\ CacheInv /\ [Next]_vars => [Life!LifeNext]_(Life!lifeVars)
  BY LifeStep
<1>. QED  BY <1>1, <1>2, InitCache, LifeStart, InductiveInvariant, PTL DEF Spec, LifeIsLegal, Life!LifeSpec

-----------------------------------------------------------------------------
(* Sums over the peers                                                     *)

\* The element that a sum over s takes first.
First(s) == CHOOSE p \in s : TRUE

\* g gives the sum of f over every set of peers.
SumsUp(g, f) ==
    g = [s \in SUBSET Peers |-> IF s = {} THEN 0 ELSE f[First(s)] + g[s \ {First(s)}]]

\* The sum of f over all peers.
Total(f) == (CHOOSE g : SumsUp(g, f))[Peers]

\* What a nonempty set of peers loses.
LEMMA FirstFacts ==
    ASSUME NEW s \in SUBSET Peers, s # {}
    PROVE  /\ First(s) \in s /\ First(s) \in Peers /\ s \ {First(s)} \in SUBSET Peers
           /\ IsFiniteSet(s) /\ Cardinality(s) \in Nat \ {0}
           /\ Cardinality(s \ {First(s)}) = Cardinality(s) - 1
<1>1. First(s) \in s
  BY DEF First
<1>2. IsFiniteSet(s)
  BY TrackerAssumption, FS_Subset
<1>3. Cardinality(s) \in Nat /\ Cardinality(s) # 0
  BY <1>2, FS_CardinalityType, FS_EmptySet
<1>4. Cardinality(s \ {First(s)}) = Cardinality(s) - 1
  BY <1>1, <1>2, FS_RemoveElement
<1>. QED  BY <1>1, <1>2, <1>3, <1>4

\* A set of peers has a size, at most that of all peers; only the empty set has none.
LEMMA SizeOfPeers ==
    ASSUME NEW s \in SUBSET Peers
    PROVE  /\ Cardinality(s) \in Nat /\ Cardinality(Peers) \in Nat
           /\ Cardinality(s) <= Cardinality(Peers)
           /\ Cardinality(s) <= 0 => s = {}
<1>1. IsFiniteSet(s) /\ IsFiniteSet(Peers) /\ Cardinality(s) <= Cardinality(Peers)
  BY TrackerAssumption, FS_Subset
<1>2. Cardinality(s) \in Nat /\ Cardinality(Peers) \in Nat
  BY <1>1, FS_CardinalityType
<1>3. Cardinality(s) = 0 => s = {}
  BY <1>1, FS_EmptySet
<1>. QED  BY <1>1, <1>2, <1>3

\* What holds of the empty set, and of a set if it holds of the set without its first
\* element, holds of all sets of peers.
LEMMA PeersInduction ==
    ASSUME NEW P, {} \in P,
           \A s \in SUBSET Peers : s # {} /\ s \ {First(s)} \in P => s \in P
    PROVE  \A s \in SUBSET Peers : s \in P
<1> DEFINE N == Cardinality(Peers)
           Q == {n \in 0..N : \A s \in SUBSET Peers : Cardinality(s) <= n => s \in P}
<1>0. N \in Nat /\ \A s \in SUBSET Peers : Cardinality(s) \in 0..N /\ (Cardinality(s) <= 0 => s = {})
  BY SizeOfPeers
<1> HIDE DEF N
<1>1. 0 \in Q
  <2>1. ASSUME NEW s \in SUBSET Peers, Cardinality(s) <= 0
        PROVE  s \in P
    <3>1. s = {}
      BY <1>0, <2>1
    <3>. QED  BY <3>1
  <2>. QED  BY <1>0, <2>1
<1>2. ASSUME NEW n \in 1..N, n - 1 \in Q
      PROVE  n \in Q
  <2>1. ASSUME NEW s \in SUBSET Peers, Cardinality(s) <= n
        PROVE  s \in P
    <3>1. CASE s = {}
      BY <3>1
    <3>2. CASE s # {}
      <4>1. s \ {First(s)} \in SUBSET Peers /\ Cardinality(s \ {First(s)}) <= n - 1
        BY <1>0, <2>1, <3>2, FirstFacts
      <4>2. s \ {First(s)} \in P
        BY <1>2, <4>1
      <4>. QED  BY <3>2, <4>2
    <3>. QED  BY <3>1, <3>2
  <2>2. n \in 0..N
    BY <1>0
  <2>. QED  BY <2>1, <2>2
<1> HIDE DEF Q
<1>3. N \in Q
  <2>1. \A n \in 1..N : n - 1 \in Q => n \in Q
    BY <1>2
  <2>2. \A n \in 0..N : n \in Q
    BY <1>0, <1>1, <2>1, Climb
  <2>. QED  BY <1>0, <2>2
<1>. QED  BY <1>0, <1>3 DEF Q

\* A sum over sets of peers exists.
LEMMA SumsExist ==
    ASSUME NEW f \in [Peers -> Nat]
    PROVE  \E g \in [SUBSET Peers -> Nat] : SumsUp(g, f)
<1> DEFINE N == Cardinality(Peers)
           Rest(g, s) == IF s = {} THEN 0 ELSE f[First(s)] + g[s \ {First(s)}]
           Def(g, n) == \A s \in SUBSET Peers : Cardinality(s) <= n => g[s] = Rest(g, s)
           G == [SUBSET Peers -> Nat]
           Q == {n \in 0..N : \E g \in G : Def(g, n)}
<1>0. N \in Nat /\ \A s \in SUBSET Peers : Cardinality(s) \in 0..N /\ (Cardinality(s) <= 0 => s = {})
  BY SizeOfPeers
<1> HIDE DEF N
<1>1. ASSUME NEW g \in G, NEW s \in SUBSET Peers
      PROVE  Rest(g, s) \in Nat
  <2>1. CASE s # {}
    <3>1. First(s) \in Peers /\ s \ {First(s)} \in SUBSET Peers
      BY <2>1, FirstFacts
    <3>2. f[First(s)] \in Nat /\ g[s \ {First(s)}] \in Nat
      BY <3>1
    <3>. QED  BY <2>1, <3>2
  <2>. QED  BY <2>1
<1>2. 0 \in Q
  <2> DEFINE g == [s \in SUBSET Peers |-> 0]
  <2>1. ASSUME NEW s \in SUBSET Peers, Cardinality(s) <= 0
        PROVE  g[s] = Rest(g, s)
    <3>1. s = {}
      BY <1>0, <2>1
    <3>. QED  BY <3>1
  <2>2. g \in G
    OBVIOUS
  <2> HIDE DEF g
  <2>. QED  BY <1>0, <2>1, <2>2
<1>3. ASSUME NEW n \in 1..N, n - 1 \in Q
      PROVE  n \in Q
  <2>1. PICK g \in G : Def(g, n - 1)
    BY <1>3
  <2> DEFINE h == [s \in SUBSET Peers |-> IF Cardinality(s) = n THEN Rest(g, s) ELSE g[s]]
  <2>2. h \in G
    <3> HIDE DEF Rest
    <3>. QED  BY <1>1
  <2>3. ASSUME NEW s \in SUBSET Peers, Cardinality(s) <= n
        PROVE  h[s] = Rest(h, s)
    <3>1. h[s] = Rest(g, s)
      <4>1. CASE Cardinality(s) = n
        BY <4>1
      <4>2. CASE Cardinality(s) # n
        <5>1. Cardinality(s) <= n - 1
          BY <1>0, <2>3, <4>2
        <5>2. g[s] = Rest(g, s)
          BY <2>1, <5>1
        <5>. QED  BY <4>2, <5>2
      <4>. QED  BY <4>1, <4>2
    <3>2. CASE s = {}
      BY <3>1, <3>2
    <3>3. CASE s # {}
      <4>1. s \ {First(s)} \in SUBSET Peers /\ Cardinality(s \ {First(s)}) # n
        BY <1>0, <2>3, <3>3, FirstFacts
      <4>2. h[s \ {First(s)}] = g[s \ {First(s)}]
        BY <4>1
      <4>. QED  BY <3>1, <4>2
    <3>. QED  BY <3>2, <3>3
  <2>4. n \in 0..N
    BY <1>0
  <2> HIDE DEF h, Rest
  <2>. QED  BY <2>2, <2>3, <2>4
<1> HIDE DEF Q
<1>4. N \in Q
  <2>1. \A n \in 1..N : n - 1 \in Q => n \in Q
    BY <1>3
  <2>2. \A n \in 0..N : n \in Q
    BY <1>0, <1>2, <2>1, Climb
  <2>. QED  BY <1>0, <2>2
<1>5. PICK g \in G : Def(g, N)
  BY <1>4 DEF Q
<1>6. \A s \in SUBSET Peers : g[s] = Rest(g, s)
  <2>1. \A s \in SUBSET Peers : Cardinality(s) <= N
    BY <1>0
  <2> HIDE DEF Rest
  <2>. QED  BY <1>5, <2>1
<1>7. g = [s \in SUBSET Peers |-> Rest(g, s)]
  <2> HIDE DEF Rest
  <2>. QED  BY <1>6
<1>. QED  BY <1>7 DEF SumsUp

\* The sum over sets of peers, with its equation.
LEMMA TotalFacts ==
    ASSUME NEW f \in [Peers -> Nat]
    PROVE  \E g : /\ Total(f) = g[Peers] /\ g[{}] = 0
                  /\ \A s \in SUBSET Peers :
                        s # {} => g[s] = f[First(s)] + g[s \ {First(s)}]
                  /\ \A s \in SUBSET Peers : g[s] \in Nat
<1> DEFINE g == CHOOSE h : SumsUp(h, f)
<1>1. SumsUp(g, f)
  BY SumsExist
<1>2. Total(f) = g[Peers]
  BY DEF Total
<1> HIDE DEF g
<1>3. /\ g[{}] = 0
      /\ \A s \in SUBSET Peers : s # {} => g[s] = f[First(s)] + g[s \ {First(s)}]
  BY <1>1 DEF SumsUp
<1>4. \A s \in SUBSET Peers : g[s] \in Nat
  <2> DEFINE P == {s \in SUBSET Peers : g[s] \in Nat}
  <2>1. {} \in P
    BY <1>3
  <2>2. ASSUME NEW s \in SUBSET Peers, s # {}, s \ {First(s)} \in P
        PROVE  s \in P
    <3>1. First(s) \in Peers
      BY <2>2, FirstFacts
    <3>2. f[First(s)] \in Nat /\ g[s \ {First(s)}] \in Nat
      BY <2>2, <3>1
    <3>3. g[s] = f[First(s)] + g[s \ {First(s)}]
      BY <1>3, <2>2
    <3>. QED  BY <3>2, <3>3
  <2> HIDE DEF P
  <2>3. \A s \in SUBSET Peers : s \in P
    BY <2>1, <2>2, PeersInduction
  <2>. QED  BY <2>3 DEF P
<1>. QED  BY <1>2, <1>3, <1>4

\* Sums compare as their terms do.
LEMMA SumsCompare ==
    ASSUME NEW f \in [Peers -> Nat], NEW a \in [Peers -> Nat],
           NEW g \in [Peers -> Nat], NEW b \in [Peers -> Nat],
           \A p \in Peers : f[p] + a[p] <= g[p] + b[p]
    PROVE  /\ Total(f) \in Nat /\ Total(a) \in Nat /\ Total(g) \in Nat /\ Total(b) \in Nat
           /\ Total(f) + Total(a) <= Total(g) + Total(b)
<1>1. PICK F : /\ Total(f) = F[Peers] /\ F[{}] = 0
               /\ \A s \in SUBSET Peers : s # {} => F[s] = f[First(s)] + F[s \ {First(s)}]
               /\ \A s \in SUBSET Peers : F[s] \in Nat
  BY TotalFacts
<1>2. PICK A : /\ Total(a) = A[Peers] /\ A[{}] = 0
               /\ \A s \in SUBSET Peers : s # {} => A[s] = a[First(s)] + A[s \ {First(s)}]
               /\ \A s \in SUBSET Peers : A[s] \in Nat
  BY TotalFacts
<1>3. PICK G : /\ Total(g) = G[Peers] /\ G[{}] = 0
               /\ \A s \in SUBSET Peers : s # {} => G[s] = g[First(s)] + G[s \ {First(s)}]
               /\ \A s \in SUBSET Peers : G[s] \in Nat
  BY TotalFacts
<1>4. PICK B : /\ Total(b) = B[Peers] /\ B[{}] = 0
               /\ \A s \in SUBSET Peers : s # {} => B[s] = b[First(s)] + B[s \ {First(s)}]
               /\ \A s \in SUBSET Peers : B[s] \in Nat
  BY TotalFacts
<1> DEFINE P == {s \in SUBSET Peers : F[s] + A[s] <= G[s] + B[s]}
<1>5. {} \in P
  BY <1>1, <1>2, <1>3, <1>4
<1>6. ASSUME NEW s \in SUBSET Peers, s # {}, s \ {First(s)} \in P
      PROVE  s \in P
  <2> DEFINE t == s \ {First(s)}
             q == First(s)
  <2>1. q \in Peers /\ t \in SUBSET Peers
    BY <1>6, FirstFacts
  <2>2. F[s] = f[q] + F[t] /\ A[s] = a[q] + A[t] /\ G[s] = g[q] + G[t] /\ B[s] = b[q] + B[t]
    BY <1>1, <1>2, <1>3, <1>4, <1>6
  <2>3. F[t] + A[t] <= G[t] + B[t]
    BY <1>6
  <2>4. f[q] + a[q] <= g[q] + b[q]
    BY <2>1
  <2>5. /\ f[q] \in Nat /\ a[q] \in Nat /\ g[q] \in Nat /\ b[q] \in Nat
        /\ F[t] \in Nat /\ A[t] \in Nat /\ G[t] \in Nat /\ B[t] \in Nat
    BY <1>1, <1>2, <1>3, <1>4, <2>1
  <2> HIDE DEF q, t
  <2>6. F[s] + A[s] <= G[s] + B[s]
    BY <2>2, <2>3, <2>4, <2>5
  <2>. QED  BY <2>6
<1> HIDE DEF P
<1>7. \A s \in SUBSET Peers : s \in P
  BY <1>5, <1>6, PeersInduction
<1>8. F[Peers] + A[Peers] <= G[Peers] + B[Peers]
  BY <1>7 DEF P
<1>. QED  BY <1>1, <1>2, <1>3, <1>4, <1>8


\* The function that is n for one peer and 0 for the others.
Alone(q, n) == [p \in Peers |-> IF p = q THEN n ELSE 0]

\* Its sum is n.
LEMMA TotalAlone ==
    ASSUME NEW q, NEW n \in Nat
    PROVE  /\ Alone(q, n) \in [Peers -> Nat]
           /\ Total(Alone(q, n)) = IF q \in Peers THEN n ELSE 0
<1> DEFINE f == Alone(q, n)
<1>1. f \in [Peers -> Nat] /\ \A p \in Peers : f[p] = IF p = q THEN n ELSE 0
  BY DEF Alone
<1> HIDE DEF f
<1>2. PICK g : /\ Total(f) = g[Peers] /\ g[{}] = 0
               /\ \A s \in SUBSET Peers : s # {} => g[s] = f[First(s)] + g[s \ {First(s)}]
               /\ \A s \in SUBSET Peers : g[s] \in Nat
  BY <1>1, TotalFacts
<1> DEFINE P == {s \in SUBSET Peers : g[s] = IF q \in s THEN n ELSE 0}
<1>3. {} \in P
  BY <1>2
<1>4. ASSUME NEW s \in SUBSET Peers, s # {}, s \ {First(s)} \in P
      PROVE  s \in P
  <2>1. First(s) \in s /\ First(s) \in Peers
    BY <1>4, FirstFacts
  <2>2. g[s] = f[First(s)] + g[s \ {First(s)}]
    BY <1>2, <1>4
  <2>3. f[First(s)] = (IF First(s) = q THEN n ELSE 0)
    BY <1>1, <2>1
  <2>4. g[s \ {First(s)}] = IF q \in s \ {First(s)} THEN n ELSE 0
    BY <1>4
  <2>5. g[s] = IF q \in s THEN n ELSE 0
    BY <2>1, <2>2, <2>3, <2>4
  <2>. QED  BY <2>5
<1> HIDE DEF P
<1>5. \A s \in SUBSET Peers : s \in P
  BY <1>3, <1>4, PeersInduction
<1>6. g[Peers] = IF q \in Peers THEN n ELSE 0
  BY <1>5 DEF P
<1>. QED  BY <1>1, <1>2, <1>6 DEF f

\* How many of the ids X each peer has by the map r.
Shares(r, X) == [p \in Peers |-> Cardinality({id \in X : r[id] = p})]

\* Together they have all that are mapped to peers.
LEMMA TotalShares ==
    ASSUME NEW r, NEW X \in SUBSET Ids
    PROVE  /\ Shares(r, X) \in [Peers -> Nat]
           /\ Total(Shares(r, X)) = Cardinality({id \in X : r[id] \in Peers})
<1> DEFINE f == Shares(r, X)
           Mine(p) == {id \in X : r[id] = p}
           Of(s) == {id \in X : r[id] \in s}
<1>0. \A T \in SUBSET X : IsFiniteSet(T) /\ Cardinality(T) \in Nat
  BY TrackerAssumption, FS_Subset, FS_CardinalityType
<1>1. f \in [Peers -> Nat] /\ \A p \in Peers : f[p] = Cardinality(Mine(p))
  BY <1>0 DEF Shares
<1> HIDE DEF f
<1>2. PICK g : /\ Total(f) = g[Peers] /\ g[{}] = 0
               /\ \A s \in SUBSET Peers : s # {} => g[s] = f[First(s)] + g[s \ {First(s)}]
               /\ \A s \in SUBSET Peers : g[s] \in Nat
  BY <1>1, TotalFacts
<1> DEFINE P == {s \in SUBSET Peers : g[s] = Cardinality(Of(s))}
<1>3. {} \in P
  <2>1. Of({}) = {}
    OBVIOUS
  <2>2. Cardinality(Of({})) = 0
    BY <2>1, FS_EmptySet
  <2>. QED  BY <1>2, <2>2
<1>4. ASSUME NEW s \in SUBSET Peers, s # {}, s \ {First(s)} \in P
      PROVE  s \in P
  <2> DEFINE q == First(s)
             t == s \ {First(s)}
  <2>1. q \in s /\ q \in Peers /\ t = s \ {q}
    BY <1>4, FirstFacts
  <2>2. g[s] = f[q] + g[t] /\ g[t] = Cardinality(Of(t)) /\ f[q] = Cardinality(Mine(q))
    BY <1>1, <1>2, <1>4, <2>1
  <2> HIDE DEF q, t
  <2>3. Of(s) = Mine(q) \cup Of(t) /\ Mine(q) \cap Of(t) = {}
    BY <2>1
  <2>4. IsFiniteSet(Mine(q)) /\ IsFiniteSet(Of(t)) /\ Cardinality(Mine(q)) \in Nat /\ Cardinality(Of(t)) \in Nat
    BY <1>0
  <2>5. Cardinality(Of(s)) = Cardinality(Mine(q)) + Cardinality(Of(t))
    <3> HIDE DEF Mine, Of
    <3>1. Cardinality(Mine(q) \cap Of(t)) = 0
      BY <2>3, FS_EmptySet
    <3>2. Cardinality(Mine(q) \cup Of(t)) = Cardinality(Mine(q)) + Cardinality(Of(t)) - Cardinality(Mine(q) \cap Of(t))
      BY <2>4, FS_Union
    <3>. QED  BY <2>3, <2>4, <3>1, <3>2
  <2> HIDE DEF Of
  <2>. QED  BY <2>2, <2>5
<1> HIDE DEF P
<1>5. \A s \in SUBSET Peers : s \in P
  BY <1>3, <1>4, PeersInduction
<1>6. g[Peers] = Cardinality(Of(Peers))
  BY <1>5 DEF P
<1>. QED  BY <1>1, <1>2, <1>6 DEF f

-----------------------------------------------------------------------------
(* What the methods of the tracker do to the counters                      *)

\* The modifiers that are Requested.
Requests == {id \in Ids : IsRequested(id)}

\* The property in these terms.
LEMMA CountedMeans ==
    /\ RequestsAreCounted <=> Cardinality(Requests) <= Total(peerLimits)
    /\ RequestsAreCounted' <=> Cardinality(Requests') <= Total(peerLimits')
<1>1. RequestsAreCounted <=> Cardinality(Requests) <= Total(peerLimits)
  BY Zenon DEF RequestsAreCounted, Requests, MapThenSumSet, MapThenFoldSet, Total, SumsUp, First
<1>2. RequestsAreCounted' <=> Cardinality(Requests') <= Total(peerLimits')
  BY Zenon DEF RequestsAreCounted, Requests, MapThenSumSet, MapThenFoldSet, Total, SumsUp, First
<1>. QED  BY <1>1, <1>2

\* The sets of ids that the counters are about are finite.
LEMMA CountsOfIds ==
    /\ Requests \subseteq Ids
    /\ \A T \in SUBSET Ids : IsFiniteSet(T) /\ Cardinality(T) \in Nat
BY TrackerAssumption, FS_Subset, FS_CardinalityType DEF Requests

\* setRequested adds the new requests to the counter of the peer asked.
LEMMA SetRequestedCounts ==
    ASSUME IInv, RequestsAreCounted, NEW copies, DOMAIN copies \subseteq Ids, NEW cp \in Peers,
           SetRequested(copies, cp)
    PROVE  RequestsAreCounted'
<1> DEFINE asked == {id \in DOMAIN copies : Status(id, {}) = "Unknown"}
           n == Cardinality(asked)
<1>1. /\ requested' = [id \in Ids |-> IF id \in asked THEN cp ELSE requested[id]]
      /\ peerLimits' = [peerLimits EXCEPT ![cp] = @ + n]
  BY DEF SetRequested
<1>2. asked \in SUBSET Ids /\ \A id \in asked : ~IsRequested(id)
  BY DEF Status
<1>3. peerLimits \in [Peers -> Nat] /\ cp # NoPeer
  BY IInvFacts, TrackerAssumption DEF TrackerInv, TrackerTypeOK
<1>4. IsFiniteSet(asked) /\ n \in Nat /\ IsFiniteSet(Requests) /\ Cardinality(Requests) \in Nat
  BY <1>2, CountsOfIds
<1> HIDE DEF asked
<1>5. Requests' = Requests \cup asked /\ Requests \cap asked = {}
  BY <1>1, <1>2, <1>3 DEF Requests, IsRequested
<1>6. Cardinality(Requests') = Cardinality(Requests) + n
  <2>1. Cardinality(Requests \cap asked) = 0
    BY <1>5, FS_EmptySet
  <2>2. Cardinality(Requests \cup asked) = Cardinality(Requests) + n - Cardinality(Requests \cap asked)
    BY <1>4, FS_Union
  <2> HIDE DEF n
  <2>. QED  BY <1>4, <1>5, <2>1, <2>2
<1> HIDE DEF n
<1>7. Total(peerLimits) \in Nat /\ Total(peerLimits') \in Nat /\ Total(peerLimits) + n <= Total(peerLimits')
  <2> DEFINE a == Alone(cp, n)
             b == Alone(cp, 0)
  <2>1. a \in [Peers -> Nat] /\ Total(a) = n /\ b \in [Peers -> Nat] /\ Total(b) = 0
    BY <1>4, TotalAlone
  <2>2. peerLimits' \in [Peers -> Nat]
    BY <1>1, <1>3, <1>4
  <2>3. \A p \in Peers : peerLimits[p] + a[p] <= peerLimits'[p] + b[p]
    BY <1>1, <1>3, <1>4 DEF Alone
  <2> HIDE DEF a, b
  <2>4. /\ Total(peerLimits) \in Nat /\ Total(peerLimits') \in Nat
        /\ Total(peerLimits) + Total(a) <= Total(peerLimits') + Total(b)
    BY <1>3, <2>1, <2>2, <2>3, SumsCompare
  <2>. QED  BY <1>4, <2>1, <2>4
<1>8. Cardinality(Requests) <= Total(peerLimits)
  BY CountedMeans
<1>9. Cardinality(Requests') <= Total(peerLimits')
  BY <1>4, <1>6, <1>7, <1>8
<1>. QED  BY <1>9, CountedMeans

\* If requests S end, and the counters fall by no more than their number, all others
\* stay counted.
LEMMA EndedCounts ==
    ASSUME IInv, RequestsAreCounted, NEW S \in SUBSET Requests, Requests' = Requests \ S,
           peerLimits' \in [Peers -> Nat], NEW b \in [Peers -> Nat], Total(b) <= Cardinality(S),
           \A p \in Peers : peerLimits[p] <= peerLimits'[p] + b[p]
    PROVE  RequestsAreCounted'
<1> DEFINE a == Alone(NoPeer, 0)
<1>1. a \in [Peers -> Nat] /\ Total(a) = 0 /\ \A p \in Peers : a[p] = 0
  BY TotalAlone DEF Alone
<1>2. peerLimits \in [Peers -> Nat]
  BY IInvFacts DEF TrackerInv, TrackerTypeOK
<1>3. /\ IsFiniteSet(Requests) /\ Cardinality(Requests) \in Nat
      /\ IsFiniteSet(S) /\ Cardinality(S) \in Nat
  BY CountsOfIds
<1>4. Cardinality(Requests') = Cardinality(Requests) - Cardinality(S)
  <2>1. Requests \cap S = S
    OBVIOUS
  <2>. QED  BY <1>3, <2>1, FS_Difference
<1> HIDE DEF a
<1>5. \A p \in Peers : peerLimits[p] + a[p] <= peerLimits'[p] + b[p]
  BY <1>1, <1>2
<1>6. /\ Total(peerLimits) \in Nat /\ Total(peerLimits') \in Nat /\ Total(b) \in Nat
      /\ Total(peerLimits) + Total(a) <= Total(peerLimits') + Total(b)
  BY <1>1, <1>2, <1>5, SumsCompare
<1>7. Cardinality(Requests) <= Total(peerLimits)
  BY CountedMeans
<1>8. Cardinality(Requests') <= Total(peerLimits')
  BY <1>1, <1>3, <1>4, <1>6, <1>7
<1>. QED  BY <1>8, CountedMeans

\* What the decrements take from a counter.
LEMMA DecrementedFacts ==
    ASSUME NEW c \in Nat, NEW n \in Nat
    PROVE  Decremented(c, n) \in Nat /\ c <= Decremented(c, n) + n
BY DEF Decremented

\* A modifier is Requested from a peer.
LEMMA RequestedFromPeer ==
    ASSUME IInv, NEW S
    PROVE  {id \in S \cap Ids : requested[id] \in Peers} = S \cap Requests
BY IInvFacts, TrackerAssumption DEF TrackerInv, TrackerTypeOK, Requests, IsRequested

\* setHeld, setUnknown and setInvalid: each peer asked is relieved of its requests.
LEMMA ClearStatusCounts ==
    ASSUME IInv, RequestsAreCounted, NEW S, ClearStatus(S)
    PROVE  RequestsAreCounted'
<1> DEFINE X == S \cap Ids
           b == Shares(requested, X)
           T == S \cap Requests
<1>1. /\ requested' = [id \in Ids |-> IF id \in S THEN NoPeer ELSE requested[id]]
      /\ peerLimits' = [p \in Peers |-> Decremented(peerLimits[p], Cardinality(AskedOf(p, S)))]
  BY DEF ClearStatus
<1>2. b \in [Peers -> Nat] /\ Total(b) = Cardinality({id \in X : requested[id] \in Peers})
  <2>1. X \in SUBSET Ids
    OBVIOUS
  <2> HIDE DEF X
  <2>. QED  BY <2>1, TotalShares
<1>3. Total(b) <= Cardinality(T)
  <2>1. T \in SUBSET Ids
    BY CountsOfIds
  <2>2. Cardinality(T) \in Nat
    BY <2>1, CountsOfIds
  <2>3. {id \in X : requested[id] \in Peers} = T
    BY RequestedFromPeer
  <2>. QED  BY <1>2, <2>2, <2>3
<1>4. \A p \in Peers : b[p] = Cardinality(AskedOf(p, S))
  BY DEF Shares, AskedOf
<1> HIDE DEF b
<1>5. peerLimits' \in [Peers -> Nat] /\ \A p \in Peers : peerLimits[p] <= peerLimits'[p] + b[p]
  <2>1. ASSUME NEW p \in Peers
        PROVE  peerLimits'[p] \in Nat /\ peerLimits[p] <= peerLimits'[p] + b[p]
    <3>1. peerLimits[p] \in Nat /\ b[p] \in Nat
      BY <1>2, IInvFacts DEF TrackerInv, TrackerTypeOK
    <3>2. peerLimits'[p] = Decremented(peerLimits[p], b[p])
      BY <1>1, <1>4
    <3>. QED  BY <3>1, <3>2, DecrementedFacts
  <2>. QED  BY <1>1, <2>1
<1>6. T \in SUBSET Requests /\ Requests' = Requests \ T
  BY <1>1 DEF Requests, IsRequested
<1> HIDE DEF T
<1>. QED  BY <1>2, <1>3, <1>5, <1>6, EndedCounts

\* setReceived and setInvalid: the sender's counter pays for what it sent, whoever was
\* asked, and the peers asked for what is invalid only.
LEMMA SetReceivedOrInvalidCounts ==
    ASSUME IInv, RequestsAreCounted, NEW good \in SUBSET Requests, NEW bad \in SUBSET Requests,
           NEW sender \in Peers, SetReceivedOrInvalid(good, bad, sender)
    PROVE  RequestsAreCounted'
<1> DEFINE S == good \cup bad
           X == bad \ good
           n == Cardinality(good)
           d == Shares(requested, X)
           e == Alone(sender, n)
           b == [p \in Peers |-> d[p] + e[p]]
           z == Alone(sender, 0)
<1>1. /\ requested' = [id \in Ids |-> IF id \in S THEN NoPeer ELSE requested[id]]
      /\ peerLimits' = [p \in Peers |->
                          Decremented(peerLimits[p], Cardinality(AskedOf(p, bad \ good))
                                                       + (IF p = sender THEN Cardinality(good) ELSE 0))]
  BY DEF SetReceivedOrInvalid
<1>2. /\ good \in SUBSET Ids /\ X \in SUBSET Ids /\ S \in SUBSET Ids
      /\ IsFiniteSet(good) /\ n \in Nat /\ IsFiniteSet(X) /\ Cardinality(X) \in Nat
  BY CountsOfIds
<1>3. Cardinality(S) = n + Cardinality(X)
  <2>1. S = good \cup X /\ good \cap X = {}
    OBVIOUS
  <2>2. Cardinality(good \cap X) = 0
    BY <2>1, FS_EmptySet
  <2>3. Cardinality(good \cup X) = Cardinality(good) + Cardinality(X) - Cardinality(good \cap X)
    BY <1>2, FS_Union
  <2> HIDE DEF S, X
  <2>. QED  BY <1>2, <2>1, <2>2, <2>3
<1>4. d \in [Peers -> Nat] /\ Total(d) = Cardinality(X)
  <2>1. {id \in X : requested[id] \in Peers} = X
    <3>1. {id \in X \cap Ids : requested[id] \in Peers} = X \cap Requests
      BY RequestedFromPeer
    <3>. QED  BY <1>2, <3>1
  <2>2. d \in [Peers -> Nat] /\ Total(d) = Cardinality({id \in X : requested[id] \in Peers})
    <3> HIDE DEF X
    <3>. QED  BY <1>2, TotalShares
  <2>. QED  BY <2>1, <2>2
<1>5. e \in [Peers -> Nat] /\ Total(e) = n /\ z \in [Peers -> Nat] /\ Total(z) = 0
  <2> HIDE DEF n
  <2>. QED  BY <1>2, TotalAlone
<1>6. b \in [Peers -> Nat] /\ \A p \in Peers : b[p] = d[p] + e[p] /\ z[p] = 0
  <2>1. \A p \in Peers : d[p] \in Nat /\ e[p] \in Nat
    BY <1>4, <1>5
  <2> HIDE DEF d, e
  <2>. QED  BY <2>1 DEF Alone
<1>7. \A p \in Peers :
        b[p] = Cardinality(AskedOf(p, bad \ good)) + (IF p = sender THEN Cardinality(good) ELSE 0)
  <2>1. \A p \in Peers : AskedOf(p, bad \ good) = {id \in X : requested[id] = p}
    BY <1>2 DEF AskedOf
  <2>2. \A p \in Peers : d[p] = Cardinality(AskedOf(p, bad \ good))
    BY <2>1 DEF Shares
  <2>3. \A p \in Peers : e[p] = IF p = sender THEN Cardinality(good) ELSE 0
    BY DEF Alone
  <2> HIDE DEF d, e
  <2>. QED  BY <2>2, <2>3
<1> HIDE DEF b, d, e, z
<1>8. Total(b) <= Cardinality(S)
  <2>1. \A p \in Peers : b[p] + z[p] <= d[p] + e[p]
    BY <1>4, <1>5, <1>6
  <2>2. Total(b) \in Nat /\ Total(b) + Total(z) <= Total(d) + Total(e)
    BY <1>4, <1>5, <1>6, <2>1, SumsCompare
  <2> HIDE DEF n, S, X
  <2>. QED  BY <1>2, <1>3, <1>4, <1>5, <2>2
<1>9. peerLimits' \in [Peers -> Nat] /\ \A p \in Peers : peerLimits[p] <= peerLimits'[p] + b[p]
  <2>1. ASSUME NEW p \in Peers
        PROVE  peerLimits'[p] \in Nat /\ peerLimits[p] <= peerLimits'[p] + b[p]
    <3>1. peerLimits[p] \in Nat /\ b[p] \in Nat
      BY <1>6, IInvFacts DEF TrackerInv, TrackerTypeOK
    <3>2. peerLimits'[p] = Decremented(peerLimits[p], b[p])
      BY <1>1, <1>7
    <3>. QED  BY <3>1, <3>2, DecrementedFacts
  <2>. QED  BY <1>1, <2>1
<1>10. S \in SUBSET Requests /\ Requests' = Requests \ S
  BY <1>1 DEF Requests, IsRequested
<1> HIDE DEF S
<1>. QED  BY <1>6, <1>8, <1>9, <1>10, EndedCounts

\* onStillWaiting: the count of the peer that was asked moves to the peer named in the
\* message, or the request ends.
LEMMA OnStillWaitingCounts ==
    ASSUME IInv, RequestsAreCounted, NEW cp \in Peers, NEW i \in Requests, OnStillWaiting(cp, i)
    PROVE  RequestsAreCounted'
<1> DEFINE q == requested[i]
           b == Alone(q, 1)
           cleared == [peerLimits EXCEPT ![q] = Decremented(@, 1)]
<1>1. /\ peerLimits \in [Peers -> Nat] /\ requested \in [Ids -> Peers \cup {NoPeer}]
      /\ q \in Peers /\ i \in Ids /\ cp # NoPeer
  BY IInvFacts, TrackerAssumption DEF TrackerInv, TrackerTypeOK, Requests, IsRequested
<1>2. \/ /\ requested' = [requested EXCEPT ![i] = cp]
         /\ peerLimits' = [cleared EXCEPT ![cp] = @ + 1]
      \/ /\ requested' = [requested EXCEPT ![i] = NoPeer]
         /\ peerLimits' = cleared
  BY DEF OnStillWaiting
<1> HIDE DEF q
<1>3. b \in [Peers -> Nat] /\ Total(b) = 1 /\ \A p \in Peers : b[p] = IF p = q THEN 1 ELSE 0
  BY <1>1, TotalAlone DEF Alone
<1>4. /\ cleared \in [Peers -> Nat]
      /\ \A p \in Peers : peerLimits[p] <= cleared[p] + b[p]
  <2>1. Decremented(peerLimits[q], 1) \in Nat /\ peerLimits[q] <= Decremented(peerLimits[q], 1) + 1
    BY <1>1, DecrementedFacts
  <2>. QED  BY <1>1, <1>3, <2>1
<1> HIDE DEF b, cleared
<1>5. CASE requested' = [requested EXCEPT ![i] = NoPeer] /\ peerLimits' = cleared
  <2>1. {i} \in SUBSET Requests /\ Requests' = Requests \ {i}
    BY <1>1, <1>5 DEF Requests, IsRequested
  <2>2. Total(b) <= Cardinality({i})
    BY <1>3, FS_Singleton
  <2>. QED  BY <1>1, <1>3, <1>4, <1>5, <2>1, <2>2, EndedCounts
<1>6. CASE requested' = [requested EXCEPT ![i] = cp] /\ peerLimits' = [cleared EXCEPT ![cp] = @ + 1]
  <2> DEFINE a == Alone(cp, 1)
  <2>1. Requests' = Requests
    BY <1>1, <1>6 DEF Requests, IsRequested
  <2>2. a \in [Peers -> Nat] /\ Total(a) = 1 /\ \A p \in Peers : a[p] = IF p = cp THEN 1 ELSE 0
    BY TotalAlone DEF Alone
  <2> HIDE DEF a
  <2>3. peerLimits' \in [Peers -> Nat] /\ \A p \in Peers : peerLimits'[p] = cleared[p] + a[p]
    BY <1>4, <1>6, <2>2
  <2>4. \A p \in Peers : peerLimits[p] + a[p] <= peerLimits'[p] + b[p]
    <3> TAKE p \in Peers
    <3>1. peerLimits[p] \in Nat /\ a[p] \in Nat /\ b[p] \in Nat /\ cleared[p] \in Nat
      BY <1>1, <1>3, <1>4, <2>2
    <3>. QED  BY <1>4, <2>3, <3>1
  <2>5. /\ Total(peerLimits) \in Nat /\ Total(peerLimits') \in Nat
        /\ Total(peerLimits) + Total(a) <= Total(peerLimits') + Total(b)
    BY <1>1, <1>3, <2>2, <2>3, <2>4, SumsCompare
  <2>6. Cardinality(Requests) <= Total(peerLimits) /\ Cardinality(Requests) \in Nat
    BY CountedMeans, CountsOfIds
  <2>7. Cardinality(Requests') <= Total(peerLimits')
    BY <1>3, <2>1, <2>2, <2>5, <2>6
  <2>. QED  BY <2>7, CountedMeans
<1>. QED  BY <1>2, <1>5, <1>6

-----------------------------------------------------------------------------
(* Every step                                                              *)

\* What leaves the requests and their counters alone.
LEMMA UncountedStep ==
    ASSUME RequestsAreCounted, UNCHANGED <<requested, peerLimits>>
    PROVE  RequestsAreCounted'
<1>1. Requests' = Requests
  BY DEF Requests, IsRequested
<1>. QED  BY <1>1, CountedMeans

\* An Inv, and Modifiers.
LEMMA ReceiveCounts ==
    ASSUME IInv, RequestsAreCounted, NvsReceive
    PROVE  RequestsAreCounted'
<1>1. ASSUME NEW p \in Peers, NEW ids, NEW kept, RequestFrom(p, ids, kept), \A i \in kept : ids[i] \in Ids
      PROVE  RequestsAreCounted'
  <2> DEFINE new == {ids[i] : i \in kept}
             copies == [id \in new |-> Cardinality({i \in kept : ids[i] = id})]
  <2>1. SetRequested(copies, p)
    BY <1>1, Zenon DEF RequestFrom
  <2>2. DOMAIN copies \subseteq Ids
    BY <1>1
  <2> HIDE DEF copies
  <2>. QED  BY <2>1, <2>2, SetRequestedCounts
<1>2. ASSUME NEW p \in Peers, NEW ids \in IdSeqs(Blocks), ProcessInvOfBlocks(p, ids)
      PROVE  RequestsAreCounted'
  <2> DEFINE kept == NewModifierIds(ids, historyReader, GetPeerLimit(p))
  <2>1. RequestFrom(p, ids, kept) /\ \A i \in kept : ids[i] \in Ids
    BY <1>2, IdSeqsFacts DEF ProcessInvOfBlocks, NewModifierIds, Ids
  <2> HIDE DEF kept
  <2>. QED  BY <1>1, <2>1
<1>3. ASSUME NEW p \in Peers, NEW ids \in IdSeqs(Txs), ProcessInvOfTransactions(p, ids)
      PROVE  RequestsAreCounted'
  <2> DEFINE kept == NewModifierIds(ids, mempoolReader, GetPeerLimit(p))
  <2>1. RequestFrom(p, ids, kept) /\ \A i \in kept : ids[i] \in Ids
    BY <1>3, IdSeqsFacts DEF ProcessInvOfTransactions, NewModifierIds, Ids
  <2> HIDE DEF kept
  <2>. QED  BY <1>1, <2>1
<1>4. ASSUME NEW T \in {Blocks, Txs}, NEW ids \in IdSeqs(T), NEW encoding, NEW i \in Parsed(ids, encoding)
      PROVE  ids[i] \in Requests
  BY ParsedFacts, IdSeqsFacts DEF Requests, Ids
<1>5. ASSUME NEW p \in Peers, NEW ids \in IdSeqs(Blocks), NEW encoding, BlocksFromRemote(p, ids, encoding)
      PROVE  RequestsAreCounted'
  <2>1. PICK rejected \in SUBSET Parsed(ids, encoding) :
          SetReceivedOrInvalid({ids[i] : i \in Parsed(ids, encoding) \ rejected},
                               {ids[i] : i \in rejected}, p)
    BY <1>5 DEF BlocksFromRemote
  <2> DEFINE good == {ids[i] : i \in Parsed(ids, encoding) \ rejected}
             bad == {ids[i] : i \in rejected}
  <2>2. good \in SUBSET Requests /\ bad \in SUBSET Requests
    BY <1>4
  <2> HIDE DEF good, bad
  <2>. QED  BY <2>1, <2>2, SetReceivedOrInvalidCounts DEF good, bad
<1>6. ASSUME NEW p \in Peers, NEW ids \in IdSeqs(Txs), NEW encoding, TxsFromRemote(p, ids, encoding)
      PROVE  RequestsAreCounted'
  <2> DEFINE good == {ids[i] : i \in Parsed(ids, encoding)}
             none == {}
  <2>1. SetReceivedOrInvalid(good, none, p)
    BY <1>6 DEF TxsFromRemote
  <2>2. good \in SUBSET Requests /\ none \in SUBSET Requests
    BY <1>4
  <2> HIDE DEF good, none
  <2>. QED  BY <2>1, <2>2, SetReceivedOrInvalidCounts
<1>. QED  BY <1>2, <1>3, <1>5, <1>6 DEF NvsReceive

\* The messages in the mailbox.
LEMMA HandleCounts ==
    ASSUME IInv, RequestsAreCounted, NvsHandle
    PROVE  RequestsAreCounted'
<1>1. CASE HandleCheckDelivery
  <2> DEFINE i == Head(mailbox).id
             p == Head(mailbox).peer
  <2>1. i \in Ids /\ p \in Peers
    BY <1>1, HandlesFacts, MessageFields DEF HandleCheckDelivery
  <2>2. \/ UNCHANGED trackerVars
        \/ ClearStatus({i})
        \/ Status(i, {}) = "Requested" /\ OnStillWaiting(p, i)
    BY <1>1 DEF HandleCheckDelivery
  <2> HIDE DEF i, p
  <2>3. CASE UNCHANGED trackerVars
    BY <2>3, UncountedStep DEF trackerVars, requestVars
  <2>4. CASE ClearStatus({i})
    BY <2>4, ClearStatusCounts
  <2>5. CASE Status(i, {}) = "Requested" /\ OnStillWaiting(p, i)
    <3>1. i \in Requests
      BY <2>1, <2>5 DEF Status, Requests
    <3>. QED  BY <2>1, <2>5, <3>1, OnStillWaitingCounts
  <2>. QED  BY <2>2, <2>3, <2>4, <2>5
<1>2. CASE \/ HandleSuccessfulTransaction \/ HandleFailedTransaction
           \/ HandleSyntacticallySuccessful \/ HandleFailedModification
           \/ HandleModifiersProcessingResult
  <2>1. UNCHANGED trackerVars \/ \E S : ClearStatus(S)
    BY <1>2 DEF HandleSuccessfulTransaction, HandleFailedTransaction, HandleSyntacticallySuccessful,
                HandleFailedModification, HandleModifiersProcessingResult, SetHeld, SetInvalid, SetUnknown
  <2>. QED  BY <2>1, ClearStatusCounts, UncountedStep DEF trackerVars, requestVars
<1>3. CASE \/ HandleSemanticallySuccessful \/ HandleChangedHistory \/ HandleChangedMempool
           \/ HandleTransactionRebroadcast
  <2>1. UNCHANGED <<requested, peerLimits>>
    BY <1>3 DEF HandleSemanticallySuccessful, HandleChangedHistory, HandleChangedMempool,
                HandleTransactionRebroadcast, trackerVars, requestVars
  <2>. QED  BY <2>1, UncountedStep
<1>. QED  BY <1>1, <1>2, <1>3 DEF NvsHandle

\* No step loses count.
LEMMA StepCounts ==
    ASSUME IInv, RequestsAreCounted, [Next]_vars
    PROVE  RequestsAreCounted'
<1>1. CASE NvsTimeout
  <2>1. UNCHANGED <<requested, peerLimits>>
    BY <1>1 DEF NvsTimeout, DeliveryTimeout, OrphanTimeout, RebroadcastTimeout, requestVars
  <2>. QED  BY <2>1, UncountedStep
<1>2. CASE NvhNext
  <2>1. UNCHANGED <<requested, peerLimits>>
    BY <1>2
    DEF NvhNext, NvhGetNodeViewChanges, NvhModifiersFromRemote, NvhApplyCandidate, NvhFinish,
        NvhTransactionsFromRemote, NvhLocallyGeneratedModifier, NvhLocallyGeneratedTransaction,
        NvhEliminateTransaction, nvsOwnVars, trackerVars, requestVars
  <2>. QED  BY <2>1, UncountedStep
<1>3. CASE UNCHANGED vars
  BY <1>3, UncountedStep DEF vars, nvsVars, trackerVars, requestVars
<1>. QED  BY <1>1, <1>2, <1>3, NextCases, ReceiveCounts, HandleCounts

\* Nothing is requested at the start.
LEMMA InitCounts == Init => RequestsAreCounted
<1>. SUFFICES ASSUME Init PROVE RequestsAreCounted
  OBVIOUS
<1>1. Requests = {}
  BY DEF Init, NvsInit, TrackerInit, Requests, IsRequested
<1>2. peerLimits \in [Peers -> Nat]
  BY DEF Init, NvsInit, TrackerInit
<1>3. Total(peerLimits) \in Nat
  BY <1>2, TotalFacts
<1>. QED  BY <1>1, <1>3, FS_EmptySet, CountedMeans

\* DeliveryTracker never undercounts: the counters of all peers together are at least
\* the number of modifiers that are Requested, although setReceived decrements the
\* counter of the sender, who may not be the peer that was asked.
THEOREM RequestsAlwaysCounted == Spec => []RequestsAreCounted
<1>1. IInv /\ RequestsAreCounted /\ [Next]_vars => RequestsAreCounted'
  BY StepCounts
<1>. QED  BY <1>1, InitCounts, InductiveInvariant, PTL DEF Spec

=============================================================================
