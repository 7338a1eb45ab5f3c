---------------------------- MODULE JournalProofs ----------------------------
(***************************************************************************)
(* Proofs about Journal, for any ids, payloads, bounds and lengths.        *)
(* verify_chain is a loop, so the induction over the chain is the temporal *)
(* one: the loop has passed the beginning of a history core signed.  What  *)
(* makes it inductive is that the MAC of an event pins down everything     *)
(* before the event.                                                       *)
(***************************************************************************)
EXTENDS Journal, SequenceTheorems, TLAPS

-----------------------------------------------------------------------------
(***************************************************************************)
(* The inductive invariant                                                 *)
(***************************************************************************)
\* Histories are closed under taking beginnings, and each event names the MAC
\* of the one before it and the hash of its payload (create_event).
Linked ==
    \A h \in histories : \A i \in 1..Len(h) :
        /\ SubSeq(h, 1, i - 1) \in histories
        /\ h[i].body.prev_hash = TipHash(SubSeq(h, 1, i - 1))
        /\ h[i].body.payload_hash = PayloadHash(h[i].body.payload)

\* Two histories that end in the same MAC are the same.
TipsPinHistories ==
    \A g, h \in histories \ {<<>>} : TipHash(g) = TipHash(h) => g = h

\* A chain no check may refuse.
Intact ==
    /\ records \in histories \ {<<>>} /\ OneRun(records)
    /\ Len(records) <= MaxChainEvents
    /\ check.anchor \in {None, AnchorOf(records)}

\* Where the loop of verify_chain is.
LoopInv ==
    check # None =>
        /\ check = [anchor |-> check.anchor, checked |-> check.checked,
                    status |-> check.status]
        /\ Checked \in histories
        /\ check.status \in {"CHECKING", "VALID"} => records # <<>> /\ OneRun(Checked)
        /\ check.status = "VALID" =>
              check.checked = Len(records) /\ Verdict(check.anchor) = "VALID"
        /\ Intact => check.status \in {"CHECKING", "VALID"}

JInv == TypeOK /\ Linked /\ TipsPinHistories /\ LoopInv

-----------------------------------------------------------------------------
(***************************************************************************)
(* Sequences                                                               *)
(***************************************************************************)
\* A sequence over any set is one over its own elements.
LEMMA SequenceOfItsElements ==
    ASSUME NEW S, NEW s \in Seq(S)
    PROVE  s \in Seq(ToSet(s)) /\ ToSet(s) \subseteq S
  <1>1. /\ Len(s) \in Nat /\ DOMAIN s = 1..Len(s)
        /\ \A i \in 1..Len(s) : s[i] \in S
    BY LenProperties, ElementOfSeq
  <1>2. \A i \in 1..Len(s) : s[i] \in ToSet(s)
    BY <1>1 DEF ToSet
  <1>3. s \in [1..Len(s) -> ToSet(s)]
    <2>1. s \in [1..Len(s) -> S]
      BY LenProperties
    <2>2. QED BY <1>2, <2>1
  <1>4. s \in Seq(ToSet(s))
    BY <1>1, <1>3, SeqDef
  <1>5. ToSet(s) \subseteq S
    BY <1>1 DEF ToSet
  <1>6. QED BY <1>4, <1>5

\* Removing an element adds none.
LEMMA RemovalAddsNothing ==
    ASSUME NEW S, NEW s \in Seq(S), NEW i \in DOMAIN s
    PROVE  RemoveAt(s, i) \in Seq(S)
  <1>1. Len(s) \in Nat /\ DOMAIN s = 1..Len(s) /\ \A j \in 1..Len(s) : s[j] \in S
    BY LenProperties, ElementOfSeq
  <1>2. SubSeq(s, 1, i - 1) \in Seq(S)
    BY <1>1, SubSeqProperties
  <1>3. SubSeq(s, i + 1, Len(s)) \in Seq(S)
    BY <1>1, SubSeqProperties
  <1>4. QED BY <1>2, <1>3, ConcatProperties DEF RemoveAt

\* Inserting an element adds that element only.
LEMMA InsertionAddsOne ==
    ASSUME NEW S, NEW s \in Seq(S), NEW e \in S, NEW i \in 1..(Len(s) + 1)
    PROVE  InsertAt(s, i, e) \in Seq(S)
  <1>1. Len(s) \in Nat /\ \A j \in 1..Len(s) : s[j] \in S
    BY LenProperties, ElementOfSeq
  <1>2. SubSeq(s, 1, i - 1) \in Seq(S)
    BY <1>1, SubSeqProperties
  <1>3. SubSeq(s, i, Len(s)) \in Seq(S)
    BY <1>1, SubSeqProperties
  <1>4. <<e>> \in Seq(S)
    OBVIOUS
  <1>5. SubSeq(s, 1, i - 1) \o <<e>> \in Seq(S)
    BY <1>2, <1>4, ConcatProperties
  <1>6. QED BY <1>3, <1>5, ConcatProperties DEF InsertAt

\* A beginning and the next element make the next beginning.
LEMMA NextBeginning ==
    ASSUME NEW S, NEW s \in Seq(S), NEW k \in 0..(Len(s) - 1)
    PROVE  /\ SubSeq(s, 1, k) \in Seq(S) /\ Len(SubSeq(s, 1, k)) = k
           /\ SubSeq(s, 1, k + 1) = Append(SubSeq(s, 1, k), s[k + 1])
  <1>1. Len(s) \in Nat /\ \A j \in 1..Len(s) : s[j] \in S
    BY LenProperties, ElementOfSeq
  <1>2. SubSeq(s, 1, k) \in Seq(S) /\ Len(SubSeq(s, 1, k)) = k
    BY <1>1, SubSeqProperties
  <1>3. SubSeq(s, 1, k + 1) = SubSeq(s, 1, k) \o <<s[k + 1]>>
    BY <1>1, SubSeqRecursiveSecond
  <1>4. QED BY <1>1, <1>2, <1>3, AppendIsConcat

\* The beginnings of an extended sequence are those of the old one and itself.
LEMMA BeginningsOfAppend ==
    ASSUME NEW S, NEW s \in Seq(S), NEW e \in S
    PROVE  \A k \in 0..Len(s) : SubSeq(Append(s, e), 1, k) = SubSeq(s, 1, k)
  <1> SUFFICES ASSUME NEW k \in 0..Len(s)
               PROVE  SubSeq(Append(s, e), 1, k) = SubSeq(s, 1, k)
    OBVIOUS
  <1> DEFINE t == Append(s, e)
  <1>1. /\ Len(s) \in Nat /\ t \in Seq(S) /\ Len(t) = Len(s) + 1
        /\ \A i \in 1..Len(s) : t[i] = s[i] /\ s[i] \in S
    BY AppendProperties, LenProperties, ElementOfSeq
  <1>2. /\ SubSeq(s, 1, k) \in Seq(S) /\ Len(SubSeq(s, 1, k)) = k
        /\ \A i \in 1..k : SubSeq(s, 1, k)[i] = s[i]
    BY <1>1, SubSeqProperties
  <1>3. /\ SubSeq(t, 1, k) \in Seq(S) /\ Len(SubSeq(t, 1, k)) = k
        /\ \A i \in 1..k : SubSeq(t, 1, k)[i] = t[i]
    <2> HIDE DEF t
    <2>1. \A i \in 1..k : t[i] \in S
      BY <1>1
    <2>2. QED BY <1>1, <2>1, SubSeqProperties
  <1>4. \A i \in 1..k : SubSeq(t, 1, k)[i] = SubSeq(s, 1, k)[i]
    BY <1>1, <1>2, <1>3
  <1>5. QED
    <2> HIDE DEF t
    <2>1. SubSeq(t, 1, k) = SubSeq(s, 1, k)
      BY <1>2, <1>3, <1>4, SeqEqual
    <2>2. QED BY <2>1 DEF t

-----------------------------------------------------------------------------
(***************************************************************************)
(* What core signed                                                        *)
(***************************************************************************)
\* The facts about a history that the proofs use.
LEMMA HistoryFacts ==
    ASSUME TypeOK, NEW h \in histories
    PROVE  /\ h \in Seq(ToSet(h)) /\ Len(h) \in Nat /\ DOMAIN h = 1..Len(h)
           /\ \A i \in 1..Len(h) :
                 /\ h[i] = Sealed(h[i].body) /\ h[i] \in SignedEvents
                 /\ DOMAIN h[i].body = JournalFields /\ h[i].body.sequence = i
  <1>1. h \in Seq(ToSet(h))
    BY DEF TypeOK
  <1>2. Len(h) \in Nat /\ DOMAIN h = 1..Len(h)
    BY <1>1, LenProperties
  <1>3. \A i \in 1..Len(h) : h[i] \in SignedEvents
    BY <1>2 DEF SignedEvents, ToSet
  <1>4. QED BY <1>1, <1>2, <1>3 DEF TypeOK

\* Core signs a history on: what it signed stays, and one history is new.
LEMMA SigningExtends ==
    ASSUME JInv, NEW h \in histories, NEW id, NEW c, NEW r, NEW t, NEW p,
           Sign(h, id, c, r, t, p)
    PROVE  \E e : /\ histories' = histories \cup {Append(h, e)}
                  /\ e = Sealed(e.body) /\ DOMAIN e.body = JournalFields
                  /\ e.body.sequence = Len(h) + 1
                  /\ e.body.prev_hash = TipHash(h)
                  /\ e.body.payload_hash = PayloadHash(e.body.payload)
  <1> DEFINE e == CreateEvent(id, c, r, Len(h) + 1, t, p, TipHash(h))
  <1>1. histories' = histories \cup {Append(h, e)}
    BY DEF Sign
  <1>2. e = Sealed(e.body)
    BY DEF CreateEvent, Sealed
  <1>3. DOMAIN e.body = JournalFields
    BY DEF CreateEvent, Sealed, JournalFields
  <1>4. /\ e.body.sequence = Len(h) + 1 /\ e.body.prev_hash = TipHash(h)
        /\ e.body.payload_hash = PayloadHash(e.body.payload)
    <2>1. e.body.sequence = Len(h) + 1 /\ e.body.prev_hash = TipHash(h)
      BY ZenonT(20) DEF CreateEvent, Sealed
    <2>2. e.body.payload = p /\ e.body.payload_hash = PayloadHash(p)
      BY ZenonT(20) DEF CreateEvent, Sealed
    <2>3. QED BY <2>1, <2>2
  <1>5. QED BY <1>1, <1>2, <1>3, <1>4

\* An event signed on top of h pins down h and with it everything before.
LEMMA NewTipPins ==
    ASSUME TypeOK, Linked, TipsPinHistories, NEW h \in histories, NEW g \in histories \ {<<>>},
           NEW e, e = Sealed(e.body), e.body.sequence = Len(h) + 1,
           e.body.prev_hash = TipHash(h), TipHash(g) = e.event_hash_or_mac
    PROVE  g = Append(h, e)
  <1> DEFINE n == Len(g)
  <1>1. /\ g \in Seq(ToSet(g)) /\ n \in Nat /\ DOMAIN g = 1..n
        /\ \A i \in 1..n : g[i] = Sealed(g[i].body) /\ g[i].body.sequence = i
    BY HistoryFacts
  <1>2. n \in 1..n
    BY <1>1, EmptySeq
  <1>3. Len(h) \in Nat
    BY HistoryFacts
  <1>4. g[n].event_hash_or_mac = e.event_hash_or_mac
    BY DEF TipHash
  <1>5. g[n].body = e.body
    <2>1. IntegrityFor(g[n].body) = IntegrityFor(e.body)
      <3>1. g[n] = Sealed(g[n].body)
        BY <1>1, <1>2
      <3>2. g[n].event_hash_or_mac = IntegrityFor(g[n].body)
        BY <3>1 DEF Sealed
      <3>3. e.event_hash_or_mac = IntegrityFor(e.body)
        BY DEF Sealed
      <3>4. QED BY <1>4, <3>2, <3>3
    <2>2. QED BY <2>1 DEF IntegrityFor
  <1>6. n = Len(h) + 1
    <2>1. g[n].body.sequence = n
      BY <1>1, <1>2
    <2>2. QED BY <1>5, <2>1
  <1>7. g[n] = e
    <2>1. g[n] = Sealed(g[n].body)
      BY <1>1, <1>2
    <2>2. QED BY <1>5, <2>1
  <1> DEFINE front == SubSeq(g, 1, n - 1)
  <1>8. front \in histories /\ TipHash(front) = TipHash(h)
    BY <1>2, <1>5 DEF Linked
  <1>9. Len(front) = Len(h) /\ g = Append(front, g[n])
    <2>1. n - 1 \in 0..(Len(g) - 1) /\ (n - 1) + 1 = n
      BY <1>1, <1>2
    <2>2. Len(front) = n - 1 /\ SubSeq(g, 1, n) = Append(front, g[n])
      BY <1>1, <2>1, NextBeginning
    <2>3. SubSeq(g, 1, n) = g
      BY <1>1, SubSeqFull
    <2>4. QED BY <1>6, <2>2, <2>3, <1>3
  <1>10. front = h
    <2>1. CASE h = <<>>
      <3>1. Len(front) = 0
        BY <1>9, <2>1, EmptySeq
      <3>2. QED BY <1>8, <2>1, <3>1, HistoryFacts, EmptySeq
    <2>2. CASE h # <<>>
      <3>1. front # <<>>
        <4>1. Len(h) # 0
          BY <2>2, HistoryFacts, EmptySeq
        <4>2. QED BY <1>9, <4>1, EmptySeq
      <3>2. QED BY <1>8, <2>2, <3>1 DEF TipsPinHistories
    <2>3. QED BY <2>1, <2>2
  <1>11. QED BY <1>7, <1>9, <1>10

-----------------------------------------------------------------------------
(***************************************************************************)
(* Signing                                                                 *)
(***************************************************************************)
\* The new history is typed and linked like the others.
LEMMA NewHistoryFits ==
    ASSUME TypeOK, Linked, NEW h \in histories, NEW e,
           e = Sealed(e.body), DOMAIN e.body = JournalFields,
           e.body.sequence = Len(h) + 1, e.body.prev_hash = TipHash(h),
           e.body.payload_hash = PayloadHash(e.body.payload)
    PROVE  LET new == Append(h, e)
           IN  /\ new \in Seq(ToSet(new)) /\ new # <<>>
               /\ Len(new) = Len(h) + 1 /\ TipHash(new) = e.event_hash_or_mac
               /\ \A i \in 1..Len(new) :
                     /\ new[i] = Sealed(new[i].body)
                     /\ DOMAIN new[i].body = JournalFields
                     /\ new[i].body.sequence = i
                     /\ SubSeq(new, 1, i - 1) \in histories
                     /\ new[i].body.prev_hash = TipHash(SubSeq(new, 1, i - 1))
                     /\ new[i].body.payload_hash = PayloadHash(new[i].body.payload)
  <1> DEFINE S == ToSet(h) \cup {e}
             new == Append(h, e)
  <1>1. /\ h \in Seq(ToSet(h)) /\ Len(h) \in Nat
        /\ \A i \in 1..Len(h) : /\ h[i] = Sealed(h[i].body)
                                /\ DOMAIN h[i].body = JournalFields
                                /\ h[i].body.sequence = i
    BY HistoryFacts
  <1>2. h \in Seq(S) /\ e \in S
    BY <1>1, SeqMonotonic
  <1>3. /\ new \in Seq(S) /\ new # <<>> /\ Len(new) = Len(h) + 1
        /\ \A i \in 1..Len(h) : new[i] = h[i]
        /\ new[Len(h) + 1] = e
    BY <1>2, AppendProperties
  <1>4. \A k \in 0..Len(h) : SubSeq(new, 1, k) = SubSeq(h, 1, k)
    BY <1>2, BeginningsOfAppend
  <1>5. SubSeq(h, 1, Len(h)) = h
    BY <1>1, SubSeqFull
  <1> HIDE DEF S, new
  <1>6. new \in Seq(ToSet(new))
    BY <1>3, SequenceOfItsElements
  <1>7. TipHash(new) = e.event_hash_or_mac
    BY <1>3 DEF TipHash
  <1>8. ASSUME NEW i \in 1..Len(new)
        PROVE  /\ new[i] = Sealed(new[i].body)
               /\ DOMAIN new[i].body = JournalFields
               /\ new[i].body.sequence = i
               /\ SubSeq(new, 1, i - 1) \in histories
               /\ new[i].body.prev_hash = TipHash(SubSeq(new, 1, i - 1))
               /\ new[i].body.payload_hash = PayloadHash(new[i].body.payload)
    <2>1. CASE i \in 1..Len(h)
      <3>1. new[i] = h[i]
        BY <1>3, <2>1
      <3>2. SubSeq(new, 1, i - 1) = SubSeq(h, 1, i - 1)
        BY <1>1, <1>4, <2>1
      <3>3. /\ SubSeq(h, 1, i - 1) \in histories
            /\ h[i].body.prev_hash = TipHash(SubSeq(h, 1, i - 1))
            /\ h[i].body.payload_hash = PayloadHash(h[i].body.payload)
        BY <2>1 DEF Linked
      <3>4. QED BY <1>1, <2>1, <3>1, <3>2, <3>3
    <2>2. CASE i = Len(h) + 1
      <3>1. new[i] = e
        BY <1>3, <2>2
      <3>2. SubSeq(new, 1, i - 1) = h
        BY <1>1, <1>4, <1>5, <2>2
      <3>3. QED BY <2>2, <3>1, <3>2
    <2>3. QED BY <1>1, <1>3, <2>1, <2>2
  <1>9. QED BY <1>3, <1>6, <1>7, <1>8 DEF new

\* Core signs an event (create_event).
LEMMA SignPreserves ==
    ASSUME JInv, NEW h \in histories, NEW id, NEW c, NEW r, NEW t, NEW p,
           Sign(h, id, c, r, t, p)
    PROVE  JInv'
  <1>1. PICK e : /\ histories' = histories \cup {Append(h, e)}
                 /\ e = Sealed(e.body) /\ DOMAIN e.body = JournalFields
                 /\ e.body.sequence = Len(h) + 1
                 /\ e.body.prev_hash = TipHash(h)
                 /\ e.body.payload_hash = PayloadHash(e.body.payload)
    BY SigningExtends
  <1>2. check = None /\ check' = None /\ records' = records /\ alterations' = alterations
    BY DEF Sign
  <1>3. TypeOK /\ Linked /\ TipsPinHistories
    BY DEF JInv
  <1> DEFINE new == Append(h, e)
  <1>4. /\ new \in Seq(ToSet(new)) /\ new # <<>>
        /\ TipHash(new) = e.event_hash_or_mac /\ Len(new) = Len(h) + 1
        /\ \A i \in 1..Len(new) :
              /\ new[i] = Sealed(new[i].body)
              /\ DOMAIN new[i].body = JournalFields
              /\ new[i].body.sequence = i
              /\ SubSeq(new, 1, i - 1) \in histories
              /\ new[i].body.prev_hash = TipHash(SubSeq(new, 1, i - 1))
              /\ new[i].body.payload_hash = PayloadHash(new[i].body.payload)
    BY <1>1, <1>3, NewHistoryFits
  <1>5. \A g \in histories \ {<<>>} : TipHash(g) = TipHash(new) => g = new
    BY <1>1, <1>3, <1>4, NewTipPins
  <1>6. DOMAIN new = 1..Len(new)
    BY <1>4, LenProperties
  <1>7. histories' = histories \cup {new}
    BY <1>1
  <1> HIDE DEF new
  <1>8. TypeOK'
    <2>1. \A g \in histories' :
             /\ g \in Seq(ToSet(g))
             /\ \A i \in DOMAIN g : /\ g[i] = Sealed(g[i].body)
                                   /\ DOMAIN g[i].body = JournalFields
                                   /\ g[i].body.sequence = i
      <3>1. ASSUME NEW g \in histories
            PROVE  /\ g \in Seq(ToSet(g))
                   /\ \A i \in DOMAIN g : /\ g[i] = Sealed(g[i].body)
                                         /\ DOMAIN g[i].body = JournalFields
                                         /\ g[i].body.sequence = i
        BY <1>3 DEF TypeOK
      <3>2. /\ new \in Seq(ToSet(new))
            /\ \A i \in DOMAIN new : /\ new[i] = Sealed(new[i].body)
                                    /\ DOMAIN new[i].body = JournalFields
                                    /\ new[i].body.sequence = i
        BY <1>4, <1>6
      <3>3. QED BY <1>7, <3>1, <3>2
    <2>2. SignedEvents \subseteq SignedEvents'
      BY <1>7 DEF SignedEvents
    <2>3. \A i \in DOMAIN records : \E s \in SignedEvents' :
             records[i] = [body |-> records[i].body, event_hash_or_mac |-> s.event_hash_or_mac]
      BY <1>3, <2>2 DEF TypeOK
    <2>4. QED BY <1>2, <1>3, <1>7, <2>1, <2>3 DEF TypeOK
  <1>9. Linked'
    BY <1>3, <1>4, <1>7 DEF Linked
  <1>10. TipsPinHistories'
    BY <1>3, <1>5, <1>7 DEF TipsPinHistories
  <1>11. LoopInv'
    BY <1>2 DEF LoopInv
  <1>12. QED BY <1>8, <1>9, <1>10, <1>11 DEF JInv

-----------------------------------------------------------------------------
(***************************************************************************)
(* Persistence                                                             *)
(***************************************************************************)
\* A record that carries a MAC core made.
Bears(record, e) ==
    record = [body |-> record.body, event_hash_or_mac |-> e.event_hash_or_mac]

\* What happens to the records keeps the invariant as long as every record
\* still carries a MAC core made.
LEMMA RecordsMayChange ==
    ASSUME JInv, check = None, check' = None, histories' = histories,
           alterations' \in 0..MaxAlterations,
           NEW S, records' \in Seq(S), \A x \in S : \E e \in SignedEvents : Bears(x, e)
    PROVE  JInv'
  <1>1. records' \in Seq(ToSet(records')) /\ ToSet(records') \subseteq S
    BY SequenceOfItsElements
  <1>2. \A i \in DOMAIN records' : records'[i] \in S
    BY <1>1 DEF ToSet
  <1>3. SignedEvents' = SignedEvents
    BY DEF SignedEvents
  <1>4. \A i \in DOMAIN records' : \E e \in SignedEvents' :
           records'[i] = [body |-> records'[i].body, event_hash_or_mac |-> e.event_hash_or_mac]
    BY <1>2, <1>3 DEF Bears
  <1>5. TypeOK'
    BY <1>1, <1>4 DEF JInv, TypeOK
  <1>6. Linked' /\ TipsPinHistories'
    BY DEF JInv, Linked, TipsPinHistories
  <1>7. LoopInv'
    BY DEF LoopInv
  <1>8. QED BY <1>5, <1>6, <1>7 DEF JInv

\* Records are written, lost, repeated, mixed in, altered or resealed.
LEMMA PersistencePreserves == ASSUME JInv, Persistence PROVE JInv'
  <1> DEFINE Old == ToSet(records)
  <1>1. /\ records \in Seq(Old) /\ Len(records) \in Nat
        /\ DOMAIN records = 1..Len(records)
        /\ alterations \in 0..MaxAlterations
    BY LenProperties DEF JInv, TypeOK
  <1>2. \A x \in Old : \E e \in SignedEvents : Bears(x, e)
    BY DEF JInv, TypeOK, Bears, ToSet
  <1>3. \A e \in SignedEvents : Bears(e, e)
    <2> SUFFICES ASSUME NEW e \in SignedEvents PROVE Bears(e, e)
      OBVIOUS
    <2>1. PICK h \in histories : \E i \in DOMAIN h : e = h[i]
      BY DEF SignedEvents, ToSet
    <2>2. e = Sealed(e.body)
      BY <2>1 DEF JInv, TypeOK
    <2>3. QED BY <2>2 DEF Sealed, Bears
  <1>4. ASSUME NEW history \in histories, Export(history) PROVE JInv'
    <2>1. history \in Seq(ToSet(history)) /\ ToSet(history) \subseteq SignedEvents
      BY DEF JInv, TypeOK, SignedEvents
    <2>2. \A x \in ToSet(history) : \E e \in SignedEvents : Bears(x, e)
      BY <1>3, <2>1
    <2>3. QED
      BY <1>1, <1>4, <2>1, <2>2, RecordsMayChange DEF Export
  <1>5. ASSUME NEW new, NEW S, Tamper(new), new \in Seq(S),
               \A x \in S : \E e \in SignedEvents : Bears(x, e)
        PROVE  JInv'
    <2>1. alterations' \in 0..MaxAlterations
      BY <1>1, <1>5, JournalAssumption DEF Tamper
    <2>2. QED BY <1>5, <2>1, RecordsMayChange DEF Tamper
  <1>6. ASSUME NEW i \in DOMAIN records, Drop(i) PROVE JInv'
    BY <1>1, <1>2, <1>5, <1>6, RemovalAddsNothing DEF Drop
  <1>7. ASSUME NEW i \in 1..(Len(records) + 1), NEW e \in SignedEvents, Insert(i, e)
        PROVE  JInv'
    <2>1. records \in Seq(Old \cup {e})
      BY <1>1, SeqMonotonic
    <2>2. InsertAt(records, i, e) \in Seq(Old \cup {e})
      BY <2>1, InsertionAddsOne
    <2>3. \A x \in Old \cup {e} : \E s \in SignedEvents : Bears(x, s)
      BY <1>2, <1>3
    <2>4. QED BY <1>5, <1>7, <2>2, <2>3 DEF Insert
  <1>8. ASSUME NEW i \in DOMAIN records, NEW x, NEW s \in SignedEvents, Bears(x, s),
               Tamper([records EXCEPT ![i] = x])
        PROVE  JInv'
    <2>1. records \in Seq(Old \cup {x})
      BY <1>1, SeqMonotonic
    <2>2. [records EXCEPT ![i] = x] \in Seq(Old \cup {x})
      BY <1>1, <2>1, ExceptSeq
    <2>3. \A y \in Old \cup {x} : \E e \in SignedEvents : Bears(y, e)
      BY <1>2, <1>8
    <2>4. QED BY <1>5, <1>8, <2>2, <2>3
  <1>9. ASSUME NEW i \in DOMAIN records PROVE \E s \in SignedEvents : Bears(records[i], s)
    BY <1>2, <1>9 DEF ToSet
  <1>10. ASSUME NEW i \in DOMAIN records, NEW body, Alter(i, body) PROVE JInv'
    <2>1. PICK s \in SignedEvents : Bears(records[i], s)
      BY <1>9
    <2> DEFINE x == [records[i] EXCEPT !.body = body]
    <2>2. Bears(x, s)
      BY <2>1 DEF Bears
    <2>3. Tamper([records EXCEPT ![i] = x])
      BY <1>10 DEF Alter
    <2>4. QED BY <1>8, <2>2, <2>3
  <1>11. ASSUME NEW i \in DOMAIN records, NEW e \in SignedEvents, Reseal(i, e) PROVE JInv'
    <2>1. PICK s \in SignedEvents : Bears(records[i], s)
      BY <1>9
    <2> DEFINE x == [records[i] EXCEPT !.event_hash_or_mac = e.event_hash_or_mac]
    <2>2. Bears(x, e)
      BY <2>1 DEF Bears
    <2>3. Tamper([records EXCEPT ![i] = x])
      BY <1>11 DEF Reseal
    <2>4. QED BY <1>8, <2>2, <2>3
  <1>12. QED BY <1>4, <1>6, <1>7, <1>10, <1>11 DEF Persistence

-----------------------------------------------------------------------------
(***************************************************************************)
(* Verification                                                            *)
(***************************************************************************)
\* While a chain is verified, what core signed and the records stay.
LEMMA SteadyFacts ==
    ASSUME JInv, UNCHANGED <<histories, records, alterations>>,
           check' # None =>
              /\ check'.anchor \in Anchors
              /\ check'.checked \in 0..Len(records)
              /\ check'.status \in JournalStatus \cup {"CHECKING", "ERROR"}
    PROVE  TypeOK' /\ Linked' /\ TipsPinHistories'
  <1>1. Linked' /\ TipsPinHistories' /\ Anchors' = Anchors /\ SignedEvents' = SignedEvents
    BY DEF JInv, Linked, TipsPinHistories, Anchors, SignedEvents
  <1>2. QED BY <1>1 DEF JInv, TypeOK

\* The records are restored and the loop begins (journal_event_from_dict, verify_chain).
LEMMA BeginPreserves ==
    ASSUME JInv, NEW anchor \in Anchors, BeginVerification(anchor) PROVE JInv'
  <1>1. /\ check' = [anchor |-> anchor, checked |-> 0, status |-> check'.status]
        /\ check' # None => check'.status \in {"ERROR", "EMPTY_CHAIN", "CHECKING"}
        /\ check'.status = "CHECKING" => records # <<>>
        /\ UNCHANGED <<histories, records, alterations>>
    BY DEF BeginVerification
  <1>2. records \in Seq(ToSet(records)) /\ Len(records) \in Nat
    BY LenProperties DEF JInv, TypeOK
  <1>3. TypeOK' /\ Linked' /\ TipsPinHistories'
    <2>1. check' # None => /\ check'.anchor \in Anchors
                           /\ check'.checked \in 0..Len(records)
                           /\ check'.status \in JournalStatus \cup {"CHECKING", "ERROR"}
      <3>1. check'.anchor = anchor /\ check'.checked = 0
        BY <1>1
      <3>2. 0 \in 0..Len(records)
        BY <1>2
      <3>3. check' # None => check'.status \in JournalStatus \cup {"CHECKING", "ERROR"}
        BY <1>1 DEF JournalStatus
      <3>4. QED BY <3>1, <3>2, <3>3
    <2>2. QED BY <1>1, <2>1, SteadyFacts
  <1>4. Checked' = <<>>
    BY <1>1, SubSeqEmpty DEF Checked
  <1>5. Checked' \in histories'
    BY <1>1, <1>4 DEF JInv, TypeOK
  <1>6. OneRun(Checked')
    BY <1>4 DEF OneRun
  <1>7. ASSUME Intact' PROVE check'.status = "CHECKING"
    <2>1. records \in histories /\ records # <<>> /\ ~(Len(records) > MaxChainEvents)
      BY <1>1, <1>2, <1>7, JournalAssumption DEF Intact
    <2>2. \A i \in DOMAIN records : Restorable(records[i])
      BY <2>1, HistoryFacts DEF Restorable, JInv
    <2>3. QED BY <2>1, <2>2 DEF BeginVerification
  <1>8. LoopInv'
    BY <1>1, <1>5, <1>6, <1>7 DEF LoopInv
  <1>9. QED BY <1>3, <1>8 DEF JInv

\* An event that passes is one core signed, at its number.
LEMMA PassingEventsAreSigned ==
    ASSUME JInv, NEW i \in DOMAIN records, VerifyEvent(records[i]) = "VALID"
    PROVE  \E h \in histories : \E j \in 1..Len(h) : records[i] = h[j]
  <1>1. records[i].event_hash_or_mac = IntegrityFor(records[i].body)
    BY DEF VerifyEvent
  <1>2. PICK e \in SignedEvents :
           records[i] = [body |-> records[i].body, event_hash_or_mac |-> e.event_hash_or_mac]
    BY DEF JInv, TypeOK
  <1>3. PICK h \in histories : \E j \in DOMAIN h : e = h[j]
    BY DEF SignedEvents, ToSet
  <1>4. PICK j \in 1..Len(h) : e = h[j]
    BY <1>3, HistoryFacts DEF JInv
  <1>5. e = [body |-> e.body, event_hash_or_mac |-> IntegrityFor(e.body)]
    BY <1>4, HistoryFacts DEF JInv, Sealed
  <1>6. e.event_hash_or_mac = IntegrityFor(e.body)
    BY <1>5
  <1>7. records[i].event_hash_or_mac = e.event_hash_or_mac
    BY <1>2
  <1>8. records[i].body = e.body
    BY <1>1, <1>6, <1>7 DEF IntegrityFor
  <1>9. records[i] = e
    BY <1>2, <1>5, <1>6, <1>8
  <1>10. QED BY <1>4, <1>9

\* Passing an event moves the loop along one history (verify_chain).
LEMMA PassingContinues ==
    ASSUME JInv, check # None, check.status = "CHECKING", check.checked < Len(records),
           Flaw(records[check.checked + 1]) = "VALID"
    PROVE  /\ SubSeq(records, 1, check.checked + 1) \in histories
           /\ OneRun(SubSeq(records, 1, check.checked + 1))
  <1> DEFINE k == check.checked
             e == records[k + 1]
  <1>1. /\ records \in Seq(ToSet(records)) /\ Len(records) \in Nat
        /\ DOMAIN records = 1..Len(records)
        /\ k \in 0..(Len(records) - 1) /\ k + 1 \in 1..Len(records)
    BY LenProperties DEF JInv, TypeOK
  <1>2. /\ VerifyEvent(e) = "VALID" /\ e.body.sequence = k + 1
        /\ e.body.run_id = records[1].body.run_id
        /\ e.body.case_id = records[1].body.case_id
        /\ \A x \in ToSet(Checked) : x.body.event_id # e.body.event_id
        /\ e.body.prev_hash = TipHash(Checked)
    BY DEF Flaw, VerifyEvent
  <1>3. Checked \in histories /\ OneRun(Checked)
    BY DEF JInv, LoopInv
  <1>4. /\ Checked \in Seq(ToSet(records)) /\ Len(Checked) = k
        /\ SubSeq(records, 1, k + 1) = Append(Checked, e)
        /\ \A i \in 1..k : Checked[i] = records[i]
    <2>1. \A i \in 1..k : records[i] \in ToSet(records)
      BY <1>1, ElementOfSeq
    <2>2. \A i \in 1..k : SubSeq(records, 1, k)[i] = records[i]
      BY <1>1, <2>1, SubSeqProperties
    <2>3. QED BY <1>1, <2>2, NextBeginning DEF Checked
  <1>5. PICK h \in histories : \E j \in 1..Len(h) : e = h[j]
    BY <1>1, <1>2, PassingEventsAreSigned
  <1>6. k + 1 \in 1..Len(h) /\ e = h[k + 1] /\ h \in Seq(ToSet(h)) /\ Len(h) \in Nat
    BY <1>2, <1>5, HistoryFacts DEF JInv
  <1> DEFINE front == SubSeq(h, 1, k)
  <1>7. front \in histories /\ TipHash(front) = TipHash(Checked)
    BY <1>1, <1>2, <1>6 DEF JInv, Linked
  <1>8. Len(front) = k /\ SubSeq(h, 1, k + 1) = Append(front, e)
    <2>1. k \in 0..(Len(h) - 1)
      BY <1>1, <1>6
    <2>2. Len(SubSeq(h, 1, k)) = k /\ SubSeq(h, 1, k + 1) = Append(SubSeq(h, 1, k), h[k + 1])
      BY <1>6, <2>1, NextBeginning
    <2>3. QED BY <1>6, <2>2
  <1>9. front = Checked
    <2>1. CASE k = 0
      <3>1. front = <<>> /\ Checked = <<>>
        BY <2>1, <1>3, <1>4, <1>7, <1>8, HistoryFacts, EmptySeq DEF JInv
      <3>2. QED BY <3>1
    <2>2. CASE k # 0
      <3>1. front # <<>> /\ Checked # <<>>
        BY <2>2, <1>4, <1>8, EmptySeq
      <3>2. QED BY <1>3, <1>7, <3>1 DEF JInv, TipsPinHistories
    <2>3. QED BY <2>1, <2>2
  <1>10. SubSeq(h, 1, k + 1) \in histories
    <2>1. CASE k + 1 = Len(h)
      BY <2>1, <1>6, SubSeqFull
    <2>2. CASE k + 1 # Len(h)
      <3>1. k + 2 \in 1..Len(h) /\ (k + 2) - 1 = k + 1
        BY <1>1, <1>6, <2>2
      <3>2. QED BY <3>1 DEF JInv, Linked
    <2>3. QED BY <2>1, <2>2
  <1>11. SubSeq(records, 1, k + 1) \in histories
    BY <1>4, <1>8, <1>9, <1>10
  <1> DEFINE new == SubSeq(records, 1, k + 1)
  <1>12. /\ DOMAIN new = 1..(k + 1)
         /\ \A i \in 1..(k + 1) : new[i] = records[i]
    <2>1. \A i \in 1..(k + 1) : records[i] \in ToSet(records)
      BY <1>1, ElementOfSeq
    <2>2. /\ new \in Seq(ToSet(records)) /\ Len(new) = k + 1
          /\ \A i \in 1..(k + 1) : new[i] = records[i]
      BY <1>1, <2>1, SubSeqProperties
    <2>3. QED BY <2>2, LenProperties
  <1>13. DOMAIN Checked = 1..k
    BY <1>4, LenProperties
  <1> HIDE DEF new, k
  <1>14. OneRun(new)
    <2>1. ASSUME NEW i \in 1..k
          PROVE  /\ records[i].body.run_id = records[1].body.run_id
                 /\ records[i].body.case_id = records[1].body.case_id
      <3>1. 1 \in 1..k /\ k \in Nat
        BY <1>1
      <3>2. Checked[i] = records[i] /\ Checked[1] = records[1]
        BY <1>4, <3>1
      <3>3. /\ Checked[i].body.run_id = Checked[1].body.run_id
            /\ Checked[i].body.case_id = Checked[1].body.case_id
        BY <1>3, <1>13 DEF OneRun
      <3>4. QED BY <3>2, <3>3
    <2>2. ASSUME NEW i \in 1..k, NEW j \in 1..k,
                 records[i].body.event_id = records[j].body.event_id
          PROVE  i = j
      <3>1. Checked[i] = records[i] /\ Checked[j] = records[j]
        BY <1>4
      <3>2. Checked[i].body.event_id = Checked[j].body.event_id
        BY <2>2, <3>1
      <3>3. QED BY <1>3, <1>13, <3>2 DEF OneRun
    <2>3. \A i \in 1..k : records[i].body.event_id # e.body.event_id
      <3>1. \A i \in 1..k : records[i] \in ToSet(Checked)
        BY <1>4, <1>13 DEF ToSet
      <3>2. QED BY <1>2, <3>1
    <2>4. \A i \in 1..(k + 1) : i \in 1..k \/ i = k + 1
      BY <1>1
    <2>5. QED BY <1>1, <1>2, <1>12, <2>1, <2>2, <2>3, <2>4 DEF OneRun
  <1>15. QED BY <1>11, <1>14 DEF new, k

\* No event of a chain core signed for one run is refused (verify_chain).
LEMMA IntactEventsPass ==
    ASSUME JInv, check # None, check.checked < Len(records),
           records \in histories, OneRun(records)
    PROVE  Flaw(records[check.checked + 1]) = "VALID"
  <1> DEFINE k == check.checked
             e == records[k + 1]
  <1>1. /\ records \in Seq(ToSet(records)) /\ Len(records) \in Nat
        /\ DOMAIN records = 1..Len(records)
        /\ k \in 0..(Len(records) - 1) /\ k + 1 \in 1..Len(records)
    BY LenProperties DEF JInv, TypeOK
  <1>2. e = Sealed(e.body) /\ e \in SignedEvents /\ e.body.sequence = k + 1
    BY <1>1, HistoryFacts DEF JInv
  <1>3. e.event_hash_or_mac = IntegrityFor(e.body)
    BY <1>2 DEF Sealed
  <1>4. e.body.prev_hash = TipHash(Checked)
    <2>1. (k + 1) - 1 = k
      BY <1>1
    <2>2. QED BY <1>1, <2>1 DEF JInv, Linked, Checked
  <1>5. \A x \in ToSet(Checked) : x.body.event_id # e.body.event_id
    <2>1. \A i \in 1..k : records[i] \in ToSet(records)
      BY <1>1, ElementOfSeq
    <2>2. /\ Checked \in Seq(ToSet(records)) /\ Len(Checked) = k
          /\ \A i \in 1..k : Checked[i] = records[i]
      BY <1>1, <2>1, SubSeqProperties DEF Checked
    <2>3. DOMAIN Checked = 1..k
      BY <2>2, LenProperties
    <2>4. \A i \in 1..k : i \in DOMAIN records /\ i # k + 1
      BY <1>1
    <2>5. \A i \in 1..k : records[i].body.event_id # e.body.event_id
      BY <1>1, <2>4 DEF OneRun
    <2>6. \A x \in ToSet(Checked) : \E i \in 1..k : x = records[i]
      BY <2>2, <2>3 DEF ToSet
    <2>7. QED BY <2>5, <2>6
  <1>6. /\ e.body.run_id = records[1].body.run_id
        /\ e.body.case_id = records[1].body.case_id
    BY <1>1 DEF OneRun
  <1>7. e.body.payload_hash = PayloadHash(e.body.payload)
    BY <1>1 DEF JInv, Linked
  <1>8. QED BY <1>2, <1>3, <1>4, <1>5, <1>6, <1>7 DEF Flaw, VerifyEvent

\* The body of the loop passes an event or stops at it (verify_chain).
LEMMA CheckEventPreserves == ASSUME JInv, CheckEvent PROVE JInv'
  <1> DEFINE k == check.checked
             flaw == Flaw(records[k + 1])
  <1>1. /\ check # None /\ check.status = "CHECKING" /\ k < Len(records)
        /\ check' = IF flaw = "VALID" THEN [check EXCEPT !.checked = k + 1]
                    ELSE [check EXCEPT !.status = flaw]
        /\ UNCHANGED <<histories, records, alterations>>
    BY DEF CheckEvent
  <1>2. /\ check = [anchor |-> check.anchor, checked |-> k, status |-> check.status]
        /\ Checked \in histories /\ OneRun(Checked) /\ records # <<>>
        /\ check.anchor \in Anchors /\ k \in 0..Len(records) /\ Len(records) \in Nat
        /\ records \in Seq(ToSet(records))
    BY <1>1, LenProperties DEF JInv, LoopInv, TypeOK
  <1>3. flaw \in JournalStatus
    BY DEF Flaw, VerifyEvent, JournalStatus
  <1> HIDE DEF flaw
  <1>4. CASE flaw = "VALID"
    <2>1. check' = [anchor |-> check.anchor, checked |-> k + 1, status |-> "CHECKING"]
      <3>1. check' = [check EXCEPT !.checked = k + 1]
        BY <1>1, <1>4
      <3>2. QED BY <1>1, <1>2, <3>1
    <2>2. k + 1 \in 0..Len(records)
      BY <1>1, <1>2
    <2>3. check'.anchor = check.anchor /\ check'.checked = k + 1 /\ check'.status = "CHECKING"
      BY <2>1
    <2>4. TypeOK' /\ Linked' /\ TipsPinHistories'
      BY <1>1, <1>2, <2>2, <2>3, SteadyFacts
    <2>5. SubSeq(records, 1, k + 1) \in histories /\ OneRun(SubSeq(records, 1, k + 1))
      BY <1>1, <1>4, PassingContinues DEF flaw
    <2>6. Checked' = SubSeq(records, 1, k + 1)
      BY <1>1, <2>3 DEF Checked
    <2>7. LoopInv'
      BY <1>1, <1>2, <2>1, <2>3, <2>5, <2>6 DEF LoopInv
    <2>8. QED BY <2>4, <2>7 DEF JInv
  <1>5. CASE flaw # "VALID"
    <2>1. check' = [anchor |-> check.anchor, checked |-> k, status |-> flaw]
      <3>1. check' = [check EXCEPT !.status = flaw]
        BY <1>1, <1>5
      <3>2. QED BY <1>2, <3>1
    <2>2. check'.anchor = check.anchor /\ check'.checked = k /\ check'.status = flaw
      BY <2>1
    <2>3. TypeOK' /\ Linked' /\ TipsPinHistories'
      BY <1>1, <1>2, <1>3, <2>2, SteadyFacts
    <2>4. Checked' = Checked
      BY <1>1, <2>2 DEF Checked
    <2>5. flaw # "CHECKING"
      BY DEF flaw, Flaw, VerifyEvent
    <2>6. ~Intact'
      BY <1>1, <1>5, IntactEventsPass DEF Intact, flaw
    <2>7. LoopInv'
      BY <1>1, <1>2, <1>5, <2>1, <2>2, <2>4, <2>5, <2>6 DEF LoopInv
    <2>8. QED BY <2>3, <2>7 DEF JInv
  <1>6. QED BY <1>4, <1>5

\* Every event has passed and the anchor decides (verify_chain).
LEMMA CheckAnchorPreserves == ASSUME JInv, CheckAnchor PROVE JInv'
  <1> DEFINE k == check.checked
             verdict == Verdict(check.anchor)
  <1>1. /\ check # None /\ check.status = "CHECKING" /\ k = Len(records)
        /\ check' = [check EXCEPT !.status = verdict]
        /\ UNCHANGED <<histories, records, alterations>>
    BY DEF CheckAnchor
  <1>2. /\ check = [anchor |-> check.anchor, checked |-> k, status |-> check.status]
        /\ Checked \in histories /\ OneRun(Checked) /\ records # <<>>
        /\ check.anchor \in Anchors /\ k \in 0..Len(records)
        /\ records \in Seq(ToSet(records)) /\ Len(records) \in Nat
    BY <1>1, LenProperties DEF JInv, LoopInv, TypeOK
  <1>3. verdict \in JournalStatus /\ verdict # "CHECKING"
    BY DEF Verdict, JournalStatus
  <1> HIDE DEF verdict
  <1>4. check' = [anchor |-> check.anchor, checked |-> k, status |-> verdict]
    BY <1>1, <1>2
  <1>5. check'.anchor = check.anchor /\ check'.checked = k /\ check'.status = verdict
    BY <1>4
  <1>6. TypeOK' /\ Linked' /\ TipsPinHistories'
    BY <1>1, <1>2, <1>3, <1>5, SteadyFacts
  <1>7. Checked' = Checked
    BY <1>1, <1>5 DEF Checked
  <1>8. Verdict(check.anchor)' = verdict
    BY <1>1, <1>5 DEF verdict, Verdict, TipHash
  <1>9. ASSUME Intact' PROVE verdict = "VALID"
    <2>1. records \in histories /\ records # <<>> /\ check.anchor \in {None, AnchorOf(records)}
      BY <1>1, <1>5, <1>9 DEF Intact, AnchorOf, TipHash
    <2>2. 1 \in 1..Len(records)
      BY <1>2, <2>1, EmptySeq
    <2>3. records[1].body.sequence = 1
      BY <2>1, <2>2, HistoryFacts DEF JInv
    <2>4. 1 + Len(records) - 1 = Len(records)
      BY <1>2
    <2>5. QED BY <2>1, <2>3, <2>4 DEF verdict, Verdict, AnchorOf
  <1>10. LoopInv'
    BY <1>1, <1>2, <1>3, <1>4, <1>5, <1>7, <1>8, <1>9 DEF LoopInv
  <1>11. QED BY <1>6, <1>10 DEF JInv

-----------------------------------------------------------------------------
(***************************************************************************)
(* The theorems                                                            *)
(***************************************************************************)
\* The journal starts with nothing signed but the empty history.
LEMMA InitHolds == Init => JInv
  <1> SUFFICES ASSUME Init PROVE JInv
    OBVIOUS
  <1>1. histories = {<<>>} /\ records = <<>> /\ alterations = 0 /\ check = None
    BY DEF Init
  <1>2. <<>> \in Seq(ToSet(<<>>)) /\ Len(<<>>) = 0 /\ DOMAIN <<>> = {}
    OBVIOUS
  <1>3. TypeOK
    BY <1>1, <1>2, JournalAssumption DEF TypeOK
  <1>4. Linked
    BY <1>1, <1>2 DEF Linked
  <1>5. QED BY <1>1, <1>3, <1>4 DEF JInv, TipsPinHistories, LoopInv

\* Every step of the journal keeps the invariant.
LEMMA StepPreserves == JInv /\ [Next]_vars => JInv'
  <1> SUFFICES ASSUME JInv, [Next]_vars PROVE JInv'
    OBVIOUS
  <1>1. ASSUME NEW h \in histories, NEW id \in EventId, NEW c \in CaseId, NEW r \in RunId,
               NEW t \in EventType, NEW p \in Payload, Sign(h, id, c, r, t, p)
        PROVE  JInv'
    BY <1>1, SignPreserves
  <1>2. CASE Persistence
    BY <1>2, PersistencePreserves
  <1>3. ASSUME NEW anchor \in Anchors, BeginVerification(anchor) PROVE JInv'
    BY <1>3, BeginPreserves
  <1>4. CASE CheckEvent
    BY <1>4, CheckEventPreserves
  <1>5. CASE CheckAnchor
    BY <1>5, CheckAnchorPreserves
  <1>6. CASE UNCHANGED vars
    <2>1. UNCHANGED <<histories, records, alterations, check>>
      BY <1>6 DEF vars
    <2>2. check' # None => /\ check'.anchor \in Anchors
                           /\ check'.checked \in 0..Len(records)
                           /\ check'.status \in JournalStatus \cup {"CHECKING", "ERROR"}
      BY <2>1 DEF JInv, TypeOK
    <2>3. TypeOK' /\ Linked' /\ TipsPinHistories'
      BY <2>1, <2>2, SteadyFacts
    <2>4. Checked' = Checked /\ (Intact' <=> Intact)
          /\ Verdict(check.anchor)' = Verdict(check.anchor)
      BY <2>1 DEF Checked, Intact, Verdict, AnchorOf, TipHash, OneRun
    <2>5. LoopInv'
      BY <2>1, <2>4 DEF JInv, LoopInv
    <2>6. QED BY <2>3, <2>5 DEF JInv
  <1>7. QED BY <1>1, <1>2, <1>3, <1>4, <1>5, <1>6 DEF Next

\* The journal keeps its inductive invariant: the loop of verify_chain stands at
\* the beginning of a history core signed, and two histories with one tip are one.
THEOREM JournalInvariant == Spec => []JInv
  BY InitHolds, StepPreserves, PTL DEF Spec

\* Every state is well typed: what core signed is sealed and numbered from 1 on,
\* and no verification passes the end of its list (create_event, verify_chain).
THEOREM JournalTypeCorrect == Spec => []TypeOK
  <1>1. JInv => TypeOK
    BY DEF JInv
  <1>2. QED BY <1>1, JournalInvariant, PTL

\* Of a chain whose status is VALID every event has passed.
LEMMA ValidChainsPassedWhole ==
    ASSUME JInv, check # None, check.status = "VALID"
    PROVE  records \in histories \ {<<>>} /\ OneRun(records)
  <1>1. /\ check.checked = Len(records) /\ records # <<>>
        /\ Checked \in histories /\ OneRun(Checked)
    BY DEF JInv, LoopInv
  <1>2. Checked = records
    BY <1>1, SubSeqFull DEF Checked, JInv, TypeOK
  <1>3. QED BY <1>1, <1>2

\* A chain that verifies is a history core signed, whatever persistence did to
\* the records, for chains of any length (verify_chain).
THEOREM ValidChainsWereSigned == Spec => []ValidChainsAreHistories
  <1>1. JInv => ValidChainsAreHistories
    BY ValidChainsPassedWhole DEF ValidChainsAreHistories
  <1>2. QED BY <1>1, JournalInvariant, PTL

\* A chain that verifies against a retained anchor is the history the anchor was
\* retained for, its tail included (verify_chain).
THEOREM AnchorsProveCompleteness == Spec => []AnchoredChainsAreComplete
  <1>1. ASSUME JInv, check # None, check.status = "VALID", check.anchor # None,
               NEW h \in histories \ {<<>>}, AnchorOf(h) = check.anchor
        PROVE  records = h
    <2>1. records \in histories \ {<<>>}
      BY <1>1, ValidChainsPassedWhole
    <2>2. TipHash(records) = check.anchor.hash
      BY <1>1 DEF JInv, LoopInv, Verdict
    <2>3. TipHash(records) = TipHash(h)
      BY <1>1, <2>2 DEF AnchorOf
    <2>4. QED BY <1>1, <2>1, <2>3 DEF JInv, TipsPinHistories
  <1>2. JInv => AnchoredChainsAreComplete
    BY <1>1 DEF AnchoredChainsAreComplete
  <1>3. QED BY <1>2, JournalInvariant, PTL

\* A history of one run that comes back intact is never refused (verify_chain).
THEOREM IntactHistoriesAreAccepted == Spec => []IntactHistoriesVerify
  <1>1. JInv => IntactHistoriesVerify
    BY DEF JInv, LoopInv, Intact, IntactHistoriesVerify
  <1>2. QED BY <1>1, JournalInvariant, PTL

\* Wherever the loop stands or stopped, what it has passed is the beginning of
\* one history core signed (verify_chain).
THEOREM CheckedEventsWereSigned == Spec => []CheckedEventsAreHistories
  <1>1. JInv => CheckedEventsAreHistories
    BY DEF JInv, LoopInv, CheckedEventsAreHistories
  <1>2. QED BY <1>1, JournalInvariant, PTL
=============================================================================
