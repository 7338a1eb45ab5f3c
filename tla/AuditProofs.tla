----------------------------- MODULE AuditProofs -----------------------------
(***************************************************************************)
(* Proofs about Audit: whatever runs are recorded, whatever is altered and *)
(* however the queries of a request are interleaved with it.  Everything   *)
(* rests on two facts: what MongoDB holds of a run that has returned stays *)
(* as it is but for alterations, and the chain of a run verifies exactly   *)
(* when none of its events is altered and none is missing in between.      *)
(***************************************************************************)
EXTENDS Audit, RuntimeProofs, WellFoundedInduction

-----------------------------------------------------------------------------
(***************************************************************************)
(* The inductive invariant                                                 *)
(***************************************************************************)
\* The types of a run's events, by their number.
TypeAt ==
    <<"INCIDENT_DETECTED", "AI_PROPOSAL", "CONTRACT_EVALUATED", "AI_PROPOSAL",
      "CONTRACT_EVALUATED", "APPROVAL_ISSUED", "ACTION_COMMITTED", "VERIFIED">>

\* An event knows its run and its number, and the number decides its type.
Numbered ==
    \A r \in Run : \A i \in 1..Len(emitted[r]) :
        /\ i <= 8
        /\ emitted[r][i].run = r /\ emitted[r][i].sequence = i - 1
        /\ emitted[r][i].event_type = TypeAt[i]

\* None of a run's events is altered, and none is missing between two others.
Sound(r) ==
    /\ \A e \in StoredOf(r) : <<r, e.sequence>> \notin tampered
    /\ \A e, f \in StoredOf(r) : f.sequence < e.sequence =>
          \E g \in StoredOf(r) : g.sequence + 1 = e.sequence

\* What a replay has to show.
TrueTo(r, timeline) ==
    /\ timeline # <<>> => Contiguous(r, timeline)
    /\ OneAtATime /\ result[r].unsynced_events = 0 => timeline = emitted[r]

\* What an explanation has to name.
Names(r, sequence, candidate) ==
    Sound(r) => candidate \in {None, Judged(r, sequence)}

\* What a request to /tamper has done.
TamperingOK ==
    tampering # None =>
        /\ tampering.run \in Run /\ Known(tampering.run)
        /\ tampering.matched =>
              /\ <<tampering.run, tampering.sequence>> \in tampered
              /\ \E e \in StoredOf(tampering.run) : e.sequence = tampering.sequence

\* What a view has read is right if the chain still verifies.
ViewingOK ==
    viewing # None =>
        /\ viewing.run \in Run /\ Known(viewing.run)
        /\ viewing.view \in {"replay", "why_prior", "why_document"}
        /\ viewing.view = "replay" =>
              (Sound(viewing.run) => TrueTo(viewing.run, viewing.timeline))
        /\ viewing.view = "why_prior" =>
              \E e \in StoredOf(viewing.run) :
                  e.sequence = viewing.at_sequence /\ e.event_type = "CONTRACT_EVALUATED"
        /\ viewing.view = "why_document" =>
              Names(viewing.run, viewing.at_sequence, viewing.candidate)

\* What is shown is right.
ShownOK ==
    shown # None =>
        /\ shown.view \in {"replay", "tamper", "why"}
        /\ shown.view = "replay" =>
              /\ shown.run \in Run /\ Known(shown.run) /\ shown.timeline # <<>>
              /\ shown.chain.intact => TrueTo(shown.run, shown.timeline)
        /\ shown.view = "tamper" => shown.request.run \in Run /\ Known(shown.request.run)
        /\ shown.view = "why" /\ shown.blocked =>
              /\ shown.run \in Run /\ Known(shown.run)
              /\ Names(shown.run, shown.at_sequence, shown.candidate)
              /\ shown.candidate_fingerprint \in {None, bad[shown.run], good[shown.run]}
        /\ TamperingIsReported

AInv ==
    /\ RInv
    /\ OneAtATime => CountInv
    /\ Numbered
    /\ TamperingOK /\ ViewingOK /\ ShownOK

-----------------------------------------------------------------------------
(***************************************************************************)
(* The journal as it is listed                                             *)
(***************************************************************************)
Below(S, e) == {f \in S : f.sequence < e.sequence}

\* Events with distinct numbers are put in order by how many have a smaller one:
\* each place up to the number of the events is taken, by one of them.
LEMMA Ranks ==
  ASSUME NEW S, IsFiniteSet(S), \A e \in S : e.sequence \in Nat,
         \A e, f \in S : e.sequence = f.sequence => e = f
  PROVE  /\ Cardinality(S) \in Nat
         /\ \A e \in S : Cardinality(Below(S, e)) \in Nat
         /\ \A e, f \in S :
               e.sequence < f.sequence <=> Cardinality(Below(S, e)) < Cardinality(Below(S, f))
         /\ \A e \in S : Cardinality(Below(S, e)) + 1 \in 1..Cardinality(S)
         /\ \A i \in 1..Cardinality(S) : \E e \in S : Cardinality(Below(S, e)) = i - 1
  <1> DEFINE n == Cardinality(S)
             rank == [e \in S |-> Cardinality(Below(S, e))]
  <1>1. n \in Nat
    BY FS_CardinalityType
  <1>2. \A e \in S : IsFiniteSet(Below(S, e)) /\ Cardinality(Below(S, e)) \in Nat
    BY FS_Subset, FS_CardinalityType DEF Below
  <1>3. ASSUME NEW e \in S, NEW f \in S, e.sequence < f.sequence
        PROVE  Cardinality(Below(S, e)) < Cardinality(Below(S, f))
    <2>1. Below(S, e) \in SUBSET Below(S, f) /\ e \in Below(S, f) /\ e \notin Below(S, e)
      BY <1>3 DEF Below
    <2>2. /\ Cardinality(Below(S, e)) <= Cardinality(Below(S, f))
          /\ Cardinality(Below(S, f)) # Cardinality(Below(S, e))
      BY <1>2, <2>1, FS_Subset
    <2>3. QED BY <1>2, <2>2
  <1>4. ASSUME NEW e \in S
        PROVE  Cardinality(Below(S, e)) < n
    <2>1. Below(S, e) \in SUBSET S /\ e \notin Below(S, e)
      BY DEF Below
    <2>2. Cardinality(Below(S, e)) <= n /\ n # Cardinality(Below(S, e))
      BY <2>1, FS_Subset
    <2>3. QED BY <1>1, <1>2, <2>2
  <1>5. ASSUME NEW e \in S, NEW f \in S
        PROVE  e.sequence < f.sequence <=> Cardinality(Below(S, e)) < Cardinality(Below(S, f))
    <2>1. e.sequence < f.sequence \/ f.sequence < e.sequence \/ e = f
      OBVIOUS
    <2>2. Cardinality(Below(S, e)) \in Nat /\ Cardinality(Below(S, f)) \in Nat
      BY <1>2
    <2>3. CASE e.sequence < f.sequence
      BY <1>3, <2>3
    <2>4. CASE f.sequence < e.sequence
      <3>1. Cardinality(Below(S, f)) < Cardinality(Below(S, e)) /\ ~(e.sequence < f.sequence)
        BY <1>3, <2>4
      <3>2. QED BY <2>2, <3>1
    <2>5. CASE e = f
      BY <2>2, <2>5
    <2>6. QED BY <2>1, <2>3, <2>4, <2>5
  <1>6. ASSUME NEW i \in 1..n
        PROVE  \E e \in S : Cardinality(Below(S, e)) = i - 1
    <2>1. rank \in [S -> 0..(n - 1)]
      BY <1>1, <1>2, <1>4
    <2>2. ASSUME NEW e \in S, NEW f \in S, rank[e] = rank[f]
          PROVE  e = f
      <3>1. /\ ~(Cardinality(Below(S, e)) < Cardinality(Below(S, f)))
            /\ ~(Cardinality(Below(S, f)) < Cardinality(Below(S, e)))
        BY <1>2, <2>2
      <3>2. e.sequence = f.sequence
        BY <1>5, <3>1
      <3>3. QED BY <3>2
    <2>3. rank \in Injection(S, 0..(n - 1))
      BY <2>1, <2>2 DEF Injection, IsInjective
    <2>4. IsFiniteSet(0..(n - 1)) /\ Cardinality(0..(n - 1)) = n
      <3>1. 0 \in Int /\ n - 1 \in Int
        BY <1>1
      <3>2. /\ IsFiniteSet(0..(n - 1))
            /\ Cardinality(0..(n - 1)) = IF 0 > n - 1 THEN 0 ELSE (n - 1) - 0 + 1
        BY <3>1, FS_Interval, Zenon
      <3>3. QED BY <1>1, <3>2
    <2> HIDE DEF rank
    <2>5. rank \in Surjection(S, 0..(n - 1))
      BY <2>3, <2>4, FS_Injection
    <2>6. \E e \in S : rank[e] = i - 1
      BY <1>1, <2>5 DEF Surjection
    <2>7. QED BY <2>6 DEF rank
  <1>7. QED BY <1>1, <1>2, <1>4, <1>5, <1>6

\* A stored event is the one the run emitted under its number.
LEMMA StoredEvents ==
  ASSUME RInv, NEW r \in Run
  PROVE  /\ Len(emitted[r]) \in Nat /\ emitted[r] \in Seq(Events)
         /\ \A e \in StoredOf(r) :
               /\ e \in Events /\ e.run = r /\ e.sequence \in 0..7
               /\ e.sequence + 1 \in 1..Len(emitted[r])
               /\ e = emitted[r][e.sequence + 1]
         /\ IsFiniteSet(StoredOf(r))
  <1>1. Len(emitted[r]) \in Nat /\ emitted[r] \in Seq(Events)
    BY LenProperties DEF RInv, TypeOK
  <1>2. ASSUME NEW e \in StoredOf(r)
        PROVE  /\ e \in Events /\ e.run = r /\ e.sequence \in 0..7
               /\ e.sequence + 1 \in 1..Len(emitted[r])
               /\ e = emitted[r][e.sequence + 1]
    <2>1. e \in Events /\ e.run = r /\ e.sequence \in 0..7
      BY EightEvents DEF StoredOf, RInv, TypeOK, Events
    <2>2. e.sequence < Len(emitted[r]) /\ e = emitted[r][e.sequence + 1]
      BY <2>1 DEF StoredOf, RInv, JournalIsTruthful
    <2>3. QED BY <1>1, <2>1, <2>2
  <1>3. IsFiniteSet(StoredOf(r))
    <2> DEFINE number == [e \in StoredOf(r) |-> e.sequence]
    <2>1. number \in Injection(StoredOf(r), 0..7)
      BY <1>2 DEF Injection, IsInjective
    <2>2. IsFiniteSet(0..7)
      <3>1. 0 \in Int /\ 7 \in Int
        OBVIOUS
      <3>2. QED BY <3>1, FS_Interval, Zenon
    <2> HIDE DEF number
    <2>3. QED BY <2>1, <2>2, FS_Injection
  <1>4. QED BY <1>1, <1>2, <1>3

\* The event at a place of the list.
Listed(r, i) ==
    CHOOSE e \in StoredOf(r) : Cardinality({f \in StoredOf(r) : f.sequence < e.sequence}) = i - 1

\* The list has every stored event of the run once, in the order of the numbers.
LEMMA Listing ==
  ASSUME RInv, NEW r \in Run, NEW n, n = Cardinality(StoredOf(r))
  PROVE  /\ n \in Nat
         /\ \A i \in 1..n : Listed(r, i) \in StoredOf(r)
         /\ \A i, j \in 1..n : i < j <=> Listed(r, i).sequence < Listed(r, j).sequence
         /\ \A e \in StoredOf(r) : \E i \in 1..n : e = Listed(r, i)
         /\ Len(ListJournal(r)) = n /\ DOMAIN ListJournal(r) = 1..n
         /\ \A i \in 1..n : ListJournal(r)[i] = Document(Listed(r, i))
         /\ ListJournal(r) \in Seq({Document(e) : e \in StoredOf(r)})
  <1> DEFINE S == StoredOf(r)
  <1>1. /\ IsFiniteSet(S) /\ \A e \in S : e.sequence \in Nat
        /\ \A e, f \in S : e.sequence = f.sequence => e = f
    BY StoredEvents
  <1> HIDE DEF S
  <1>2. /\ Cardinality(S) \in Nat
        /\ \A e \in S : Cardinality(Below(S, e)) \in Nat
        /\ \A e, f \in S :
               e.sequence < f.sequence <=> Cardinality(Below(S, e)) < Cardinality(Below(S, f))
        /\ \A e \in S : Cardinality(Below(S, e)) + 1 \in 1..Cardinality(S)
        /\ \A i \in 1..Cardinality(S) : \E e \in S : Cardinality(Below(S, e)) = i - 1
    BY <1>1, Ranks
  <1>3. n = Cardinality(S) /\ n \in Nat
    BY <1>2 DEF S
  <1>4. \A i : Listed(r, i) = CHOOSE e \in S : Cardinality(Below(S, e)) = i - 1
    BY DEF Listed, Below, S
  <1>5. \A i \in 1..n : Listed(r, i) \in S /\ Cardinality(Below(S, Listed(r, i))) = i - 1
    BY <1>2, <1>3, <1>4
  <1>6. \A i, j \in 1..n : i < j <=> Listed(r, i).sequence < Listed(r, j).sequence
    <2> SUFFICES ASSUME NEW i \in 1..n, NEW j \in 1..n
                 PROVE  i < j <=> Listed(r, i).sequence < Listed(r, j).sequence
      OBVIOUS
    <2>1. Listed(r, i).sequence < Listed(r, j).sequence <=> i - 1 < j - 1
      BY <1>2, <1>5
    <2>2. QED BY <1>3, <2>1
  <1>7. ASSUME NEW e \in S
        PROVE  \E i \in 1..n : e = Listed(r, i)
    <2> DEFINE i == Cardinality(Below(S, e)) + 1
    <2>1. i \in 1..n /\ Cardinality(Below(S, e)) = i - 1
      BY <1>2, <1>3
    <2> HIDE DEF i
    <2>2. Cardinality(Below(S, Listed(r, i))) = Cardinality(Below(S, e)) /\ Listed(r, i) \in S
      BY <1>5, <2>1
    <2>3. e.sequence = Listed(r, i).sequence
      <3>1. /\ ~(e.sequence < Listed(r, i).sequence)
            /\ ~(Listed(r, i).sequence < e.sequence)
        BY <1>2, <2>2
      <3>2. QED BY <1>1, <2>2, <3>1
    <2>4. QED BY <1>1, <2>1, <2>2, <2>3
  <1>8. /\ DOMAIN ListJournal(r) = 1..n
        /\ \A i \in 1..n : ListJournal(r)[i] = Document(Listed(r, i))
    BY <1>3 DEF ListJournal, Listed, S
  <1>9. ListJournal(r) \in [1..n -> {Document(e) : e \in S}]
    <2>1. ListJournal(r) = [i \in 1..n |-> Document(Listed(r, i))]
      BY <1>3 DEF ListJournal, Listed, S
    <2>2. QED BY <1>5, <2>1
  <1>10. ListJournal(r) \in Seq({Document(e) : e \in S})
    BY <1>3, <1>9, SeqDef
  <1>11. Len(ListJournal(r)) = n
    BY <1>3, <1>8, <1>10, LenProperties
  <1>12. QED BY <1>3, <1>5, <1>6, <1>7, <1>8, <1>10, <1>11 DEF S

-----------------------------------------------------------------------------
(***************************************************************************)
(* The runs underneath                                                     *)
(***************************************************************************)
\* Where what a run emitted stands, its events keep their numbers.
LEMMA NumbersStand ==
  ASSUME Numbered, emitted' = emitted
  PROVE  Numbered'
  BY DEF Numbered

\* A run gives each event it emits the next number, and its step gives the type.
LEMMA NumberedStep == RInv /\ Numbered /\ [Next]_vars => Numbered'
  <1> SUFFICES ASSUME RInv, Numbered, [Next]_vars PROVE Numbered'
    OBVIOUS
  <1>1. CASE UNCHANGED vars \/ GoesDown \/ ComesBack
    BY <1>1, NumbersStand DEF vars, local, GoesDown, ComesBack
  <1>2. ASSUME NEW r \in Run, Start(r) \/ RunStep(r), emitted' = emitted PROVE Numbered'
    BY <1>2, NumbersStand
  <1>3. ASSUME NEW r \in Run, Log(r) PROVE Numbered'
    <2> DEFINE k == Len(emitted[r])
               e == Event(r)
    <2>1. /\ e \in Events /\ e.run = r /\ e.sequence = k /\ k = EventsBefore[pc[r]]
          /\ e.event_type = EventTypeOf[pc[r]] /\ pc[r] \in Logs
      <3>1. pc[r] \in Logs /\ answer[r] = None
        BY <1>3 DEF Log
      <3>2. QED BY <3>1, EmittedEvents DEF Event, EventWith
    <2>2. k \in 0..7 /\ e.event_type = TypeAt[k + 1]
      BY <2>1 DEF EventsBefore, TypeAt, EventTypeOf, Logs
    <2>3. /\ emitted \in [Run -> Seq(Events)]
          /\ emitted' = [emitted EXCEPT ![r] = Append(@, e)]
      BY <1>3 DEF Log, RInv, TypeOK
    <2> HIDE DEF e
    <2>4. emitted[r] \in Seq(Events) /\ emitted'[r] = Append(emitted[r], e)
      BY <2>3
    <2>5. /\ Len(emitted'[r]) = k + 1 /\ emitted'[r][k + 1] = e
          /\ \A i \in 1..k : emitted'[r][i] = emitted[r][i]
      BY <2>1, <2>4, AppendProperties
    <2> HIDE DEF k
    <2>6. ASSUME NEW i \in 1..(k + 1)
          PROVE  /\ i <= 8
                 /\ emitted'[r][i].run = r /\ emitted'[r][i].sequence = i - 1
                 /\ emitted'[r][i].event_type = TypeAt[i]
      <3>1. CASE i = k + 1
        BY <2>1, <2>2, <2>5, <3>1
      <3>2. CASE i # k + 1
        <4>1. i \in 1..k
          BY <2>2, <3>2
        <4>2. QED BY <2>5, <4>1 DEF Numbered, k
      <3>3. QED BY <3>1, <3>2
    <2>7. \A q \in Run : q # r => emitted'[q] = emitted[q]
      BY <2>3
    <2>8. QED BY <2>5, <2>6, <2>7 DEF Numbered
  <1>4. ASSUME NEW r \in Run, Start(r) \/ RunStep(r) PROVE Numbered'
    <2>1. CASE Log(r)
      BY <2>1, <1>3
    <2>2. CASE ~Log(r)
      <3>1. emitted' = emitted
        BY <1>4, <2>2
        DEF RunStep, Start, Touch, InsertCase, InsertFirstCandidate, InsertBoundedCandidate,
            InsertApproval, InsertVerification, BestEffort, Logged, Report, Move
      <3>2. QED BY <1>4, <3>1, <1>2
    <2>3. QED BY <2>1, <2>2
  <1>5. QED BY <1>1, <1>4 DEF Next

-----------------------------------------------------------------------------
(***************************************************************************)
(* What a chain says                                                       *)
(***************************************************************************)
\* Reading an event tells its run, number and type as they were emitted, and the
\* payload only if the event was not altered.
LEMMA Documents ==
  ASSUME RInv, Numbered, NEW r \in Run, NEW e \in StoredOf(r)
  PROVE  /\ Document(e).run = r /\ Document(e).sequence = e.sequence
         /\ Document(e).event_type = e.event_type
         /\ Document(e).event_type = TypeAt[e.sequence + 1]
         /\ Original(Document(e)) = e
         /\ Document(e).payload # e.payload <=> <<r, e.sequence>> \in tampered
         /\ <<r, e.sequence>> \notin tampered => Document(e) = e
         /\ <<r, e.sequence>> \in tampered => Document(e).payload = Tampered
  <1>1. /\ e \in Events /\ e.run = r /\ e.sequence + 1 \in 1..Len(emitted[r])
        /\ e = emitted[r][e.sequence + 1]
    BY StoredEvents
  <1>2. e.event_type = TypeAt[e.sequence + 1]
    BY <1>1 DEF Numbered
  <1>3. e.payload # Tampered
    BY <1>1, AuditAssumption DEF Events, Tampered, Dispositions
  <1>4. /\ [e EXCEPT !.payload = Tampered].run = e.run
        /\ [e EXCEPT !.payload = Tampered].sequence = e.sequence
        /\ [e EXCEPT !.payload = Tampered].event_type = e.event_type
        /\ [e EXCEPT !.payload = Tampered].payload = Tampered
    BY <1>1 DEF Events
  <1>5. CASE <<r, e.sequence>> \in tampered
    <2>1. Document(e) = [e EXCEPT !.payload = Tampered]
      BY <1>1, <1>5 DEF Document
    <2>2. QED BY <1>1, <1>2, <1>3, <1>4, <1>5, <2>1 DEF Original
  <1>6. CASE <<r, e.sequence>> \notin tampered
    <2>1. Document(e) = e
      BY <1>1, <1>6 DEF Document
    <2>2. QED BY <1>1, <1>2, <1>6, <2>1 DEF Original
  <1>7. QED BY <1>5, <1>6

\* The hash before an event is that of another exactly when the other is its
\* predecessor: a hash covers everything up to its event, so it tells the number.
LEMMA HashesLink ==
  ASSUME RInv, Numbered, NEW r \in Run, NEW e \in StoredOf(r), NEW f \in StoredOf(r)
  PROVE  PrevHash(Document(e)) = EventHash(Document(f)) <=> e.sequence = f.sequence + 1
  <1> DEFINE link == [j \in 1..8 |-> <<emitted[r][j].event_type, emitted[r][j].payload>>]
             X == {link[j] : j \in 1..8}
             m == e.sequence
             n == f.sequence
             he == EventHash(Document(e))
             hf == EventHash(Document(f))
  <1>1. /\ Document(e).run = r /\ Document(f).run = r
        /\ Document(e).sequence = m /\ Document(f).sequence = n
        /\ m \in 0..7 /\ n \in 0..7
    BY StoredEvents, Documents
  <1>2. /\ he = [j \in 1..m + 1 |-> <<emitted[r][j].event_type, emitted[r][j].payload>>]
        /\ hf = [j \in 1..n + 1 |-> <<emitted[r][j].event_type, emitted[r][j].payload>>]
        /\ PrevHash(Document(e)) = SubSeq(he, 1, m)
    BY <1>1 DEF EventHash, PrevHash
  <1> HIDE DEF m, n
  <1>3. /\ he = [j \in 1..m + 1 |-> link[j]] /\ hf = [j \in 1..n + 1 |-> link[j]]
        /\ \A j \in 1..8 : link[j] \in X
    BY <1>1, <1>2
  <1> HIDE DEF he, hf, link, X
  <1>4. /\ \A j \in 1..(m + 1) : he[j] = link[j] /\ he[j] \in X
        /\ \A j \in 1..(n + 1) : hf[j] = link[j]
        /\ hf \in [1..(n + 1) -> X]
    <2>1. /\ \A j \in 1..(m + 1) : j \in 1..8 /\ he[j] = link[j]
          /\ \A j \in 1..(n + 1) : j \in 1..8 /\ hf[j] = link[j]
      BY <1>1, <1>3
    <2>2. \A j \in 1..(n + 1) : link[j] \in X
      BY <1>3, <2>1
    <2>3. hf \in [1..(n + 1) -> X]
      BY <1>3, <2>2
    <2>4. QED BY <1>3, <2>1, <2>3
  <1>5. hf \in Seq(X) /\ Len(hf) = n + 1
    <2>1. hf \in Seq(X)
      BY <1>1, <1>4, SeqDef
    <2>2. QED BY <1>1, <1>4, <2>1, LenProperties
  <1> DEFINE p == SubSeq(he, 1, m)
  <1>6. /\ p \in Seq(X) /\ Len(p) = m
        /\ \A j \in 1..m : p[j] = link[j]
    <2>1. 1 \in Int /\ m \in Int /\ \A j \in 1..m : he[j] \in X
      BY <1>1, <1>4
    <2>2. /\ p \in Seq(X) /\ Len(p) = IF 1 <= m THEN m - 1 + 1 ELSE 0
          /\ \A j \in 1..(m - 1 + 1) : p[j] = he[1 + j - 1]
      BY <2>1, SubSeqProperties
    <2> HIDE DEF p
    <2>3. Len(p) = m /\ \A j \in 1..m : p[j] = he[j]
      BY <1>1, <2>2
    <2>4. QED BY <1>1, <1>4, <2>2, <2>3
  <1>7. PrevHash(Document(e)) = p
    BY <1>2
  <1> HIDE DEF p
  <1>8. ASSUME m = n + 1
        PROVE  p = hf
    <2>1. Len(p) = Len(hf) /\ \A j \in 1..Len(p) : p[j] = hf[j]
      BY <1>1, <1>4, <1>5, <1>6, <1>8
    <2>2. QED BY <1>5, <1>6, <2>1, SeqEqual
  <1>9. ASSUME p = hf
        PROVE  m = n + 1
    BY <1>1, <1>5, <1>6, <1>9
  <1>10. QED BY <1>7, <1>8, <1>9 DEF hf, m, n

\* What verify_journal_chain finds at a place of the list.
LEMMA FlawsAre ==
  ASSUME RInv, Numbered, NEW r \in Run, NEW n, n = Cardinality(StoredOf(r))
  PROVE  /\ Flaws(ListJournal(r)) \subseteq 1..n
         /\ \A i \in 1..n :
               i \in Flaws(ListJournal(r)) <=>
                  \/ <<r, Listed(r, i).sequence>> \in tampered
                  \/ i > 1 /\ Listed(r, i).sequence # Listed(r, i - 1).sequence + 1
  <1> DEFINE L == ListJournal(r)
  <1>1. /\ n \in Nat /\ DOMAIN L = 1..n
        /\ \A i \in 1..n : Listed(r, i) \in StoredOf(r) /\ L[i] = Document(Listed(r, i))
    BY Listing
  <1> HIDE DEF L
  <1>2. ASSUME NEW i \in 1..n
        PROVE  Altered(L, i) <=> <<r, Listed(r, i).sequence>> \in tampered
    <2>1. Listed(r, i) \in StoredOf(r) /\ L[i] = Document(Listed(r, i))
      BY <1>1
    <2>2. QED BY <2>1, Documents DEF Altered
  <1>3. ASSUME NEW i \in 1..n
        PROVE  Unlinked(L, i) <=>
                  i > 1 /\ Listed(r, i).sequence # Listed(r, i - 1).sequence + 1
    <2>1. CASE i > 1
      <3>1. i - 1 \in 1..n
        BY <1>1, <2>1
      <3>2. /\ Listed(r, i) \in StoredOf(r) /\ L[i] = Document(Listed(r, i))
            /\ Listed(r, i - 1) \in StoredOf(r) /\ L[i - 1] = Document(Listed(r, i - 1))
        BY <1>1, <3>1
      <3>3. PrevHash(L[i]) = EventHash(L[i - 1])
               <=> Listed(r, i).sequence = Listed(r, i - 1).sequence + 1
        BY <3>2, HashesLink
      <3>4. QED BY <2>1, <3>3 DEF Unlinked
    <2>2. QED BY <2>1 DEF Unlinked
  <1>4. QED BY <1>1, <1>2, <1>3 DEF Flaws, L

\* A chain verifies exactly when none of its events is altered and none is missing
\* between two others.
LEMMA VerifiesMeans ==
  ASSUME RInv, Numbered, NEW r \in Run
  PROVE  VerifyJournalChain(ListJournal(r)).intact <=> Sound(r)
  <1> DEFINE n == Cardinality(StoredOf(r))
             L == ListJournal(r)
             seq(i) == Listed(r, i).sequence
  <1>1. /\ n \in Nat
        /\ \A i \in 1..n : Listed(r, i) \in StoredOf(r)
        /\ \A i, j \in 1..n : i < j <=> seq(i) < seq(j)
        /\ \A e \in StoredOf(r) : \E i \in 1..n : e = Listed(r, i)
    BY Listing
  <1>2. /\ Flaws(L) \subseteq 1..n
        /\ \A i \in 1..n :
               i \in Flaws(L) <=>
                  \/ <<r, seq(i)>> \in tampered
                  \/ i > 1 /\ seq(i) # seq(i - 1) + 1
    BY FlawsAre
  <1>3. \A e \in StoredOf(r) : e.sequence \in 0..7
    BY StoredEvents
  <1>4. VerifyJournalChain(L).intact <=> Flaws(L) = {}
    <2> DEFINE b == Flaws(L) = {}
    <2>1. VerifyJournalChain(L).intact = b /\ b \in BOOLEAN
      BY DEF VerifyJournalChain
    <2>2. QED BY <2>1
  <1> HIDE DEF n, L
  <1>5. ASSUME Flaws(L) = {}
        PROVE  Sound(r)
    <2>1. ASSUME NEW e \in StoredOf(r)
          PROVE  <<r, e.sequence>> \notin tampered
      BY <1>1, <1>2, <1>5
    <2>2. ASSUME NEW e \in StoredOf(r), NEW f \in StoredOf(r), f.sequence < e.sequence
          PROVE  \E g \in StoredOf(r) : g.sequence + 1 = e.sequence
      <3>1. PICK i \in 1..n : e = Listed(r, i)
        BY <1>1
      <3>2. PICK j \in 1..n : f = Listed(r, j)
        BY <1>1
      <3>3. j < i
        BY <1>1, <2>2, <3>1, <3>2
      <3>4. i > 1 /\ i - 1 \in 1..n
        BY <1>1, <3>3
      <3>5. e.sequence = seq(i - 1) + 1
        BY <1>2, <1>5, <3>1, <3>4
      <3>6. QED BY <1>1, <3>4, <3>5
    <2>3. QED BY <2>1, <2>2 DEF Sound
  <1>6. ASSUME Sound(r), NEW i \in Flaws(L)
        PROVE  FALSE
    <2>1. i \in 1..n /\ Listed(r, i) \in StoredOf(r)
      BY <1>1, <1>2
    <2>2. <<r, seq(i)>> \notin tampered
      BY <1>6, <2>1 DEF Sound
    <2>3. i > 1 /\ seq(i) # seq(i - 1) + 1
      BY <1>2, <1>6, <2>1, <2>2
    <2>4. i - 1 \in 1..n /\ Listed(r, i - 1) \in StoredOf(r)
      BY <1>1, <2>1, <2>3
    <2>5. seq(i - 1) < seq(i)
      BY <1>1, <2>1, <2>4
    <2>6. PICK g \in StoredOf(r) : g.sequence + 1 = seq(i)
      BY <1>6, <2>1, <2>4, <2>5 DEF Sound
    <2>7. PICK k \in 1..n : g = Listed(r, k)
      BY <1>1
    <2>8. seq(k) \in 0..7 /\ seq(i) \in 0..7 /\ seq(i - 1) \in 0..7
      BY <1>1, <1>3, <2>1, <2>4
    <2>9. seq(i - 1) < seq(k)
      BY <2>3, <2>5, <2>6, <2>7, <2>8
    <2>10. seq(k) < seq(i)
      BY <2>6, <2>7, <2>8
    <2>11. i - 1 < k /\ k < i
      BY <1>1, <2>1, <2>4, <2>9, <2>10
    <2>12. QED BY <2>1, <2>11
  <1>7. QED BY <1>4, <1>5, <1>6 DEF L

\* Without a flaw, the numbers of the listed events have no gap between them.
LEMMA NumbersFollow ==
  ASSUME RInv, Numbered, NEW r \in Run, Sound(r), NEW k \in 1..Cardinality(StoredOf(r))
  PROVE  Listed(r, k).sequence = Listed(r, 1).sequence + k - 1
  <1> DEFINE n == Cardinality(StoredOf(r))
             seq(i) == Listed(r, i).sequence
             Wrong == {i \in 1..n : seq(i) # seq(1) + i - 1}
  <1>1. n \in Nat /\ \A i \in 1..n : seq(i) \in 0..7
    BY Listing, StoredEvents
  <1>2. \A i \in 1..n : i > 1 => seq(i) = seq(i - 1) + 1
    <2>1. Flaws(ListJournal(r)) = {}
      <3> DEFINE b == Flaws(ListJournal(r)) = {}
      <3>1. VerifyJournalChain(ListJournal(r)).intact = b /\ b \in BOOLEAN
        BY DEF VerifyJournalChain
      <3>2. VerifyJournalChain(ListJournal(r)).intact
        BY VerifiesMeans
      <3>3. QED BY <3>1, <3>2
    <2>2. \A i \in 1..n :
               i \in Flaws(ListJournal(r)) <=>
                  \/ <<r, seq(i)>> \in tampered
                  \/ i > 1 /\ seq(i) # seq(i - 1) + 1
      BY FlawsAre
    <2>3. QED BY <2>1, <2>2
  <1> HIDE DEF n
  <1>3. ASSUME Wrong # {} PROVE FALSE
    <2>1. Wrong \in SUBSET Nat
      BY <1>1
    <2>2. PICK least \in Wrong : \A i \in Wrong : ~(<<i, least>> \in OpToRel(<, Nat))
      BY <1>3, <2>1, NatLessThanWellFounded, WFMin
    <2>3. \A i \in Wrong : ~(i < least)
      BY <2>1, <2>2 DEF OpToRel
    <2>4. least \in 1..n /\ seq(least) # seq(1) + least - 1
      OBVIOUS
    <2>5. least # 1
      <3>1. 1 \in 1..n
        BY <1>1, <2>4
      <3>2. seq(1) = seq(1) + 1 - 1
        BY <1>1, <3>1
      <3>3. QED BY <2>4, <3>2
    <2>6. least - 1 \in 1..n /\ least > 1 /\ 1 \in 1..n /\ least - 1 < least
      BY <1>1, <2>4, <2>5
    <2>7. least - 1 \notin Wrong
      BY <2>3, <2>6
    <2>8. seq(least - 1) = seq(1) + (least - 1) - 1
      BY <2>6, <2>7
    <2>9. seq(least) = seq(least - 1) + 1
      BY <1>2, <2>4, <2>6
    <2>10. seq(1) \in 0..7
      BY <1>1, <2>6
    <2>11. seq(least) = seq(1) + least - 1
      BY <1>1, <2>4, <2>8, <2>9, <2>10
    <2>12. QED BY <2>4, <2>11
  <1>4. QED BY <1>3 DEF n

\* A list without a flaw is a piece of what the run emitted, and all of it when the
\* run has counted every event MongoDB does not hold.
LEMMA SoundListsAreTrue ==
  ASSUME RInv, Numbered, OneAtATime => CountInv, NEW r \in Run, Known(r), Sound(r)
  PROVE  TrueTo(r, ListJournal(r))
  <1> DEFINE n == Cardinality(StoredOf(r))
             L == ListJournal(r)
             E == emitted[r]
             m == Len(E)
             seq(i) == Listed(r, i).sequence
             s == seq(1)
  <1>1. /\ n \in Nat /\ m \in Nat /\ E \in Seq(Events)
        /\ \A i \in 1..n : Listed(r, i) \in StoredOf(r)
        /\ \A i, j \in 1..n : i < j <=> seq(i) < seq(j)
        /\ \A e \in StoredOf(r) : \E i \in 1..n : e = Listed(r, i)
        /\ Len(L) = n /\ \A i \in 1..n : L[i] = Document(Listed(r, i))
    BY Listing, StoredEvents
  <1>2. \A i \in 1..n : /\ seq(i) \in 0..7 /\ seq(i) + 1 \in 1..m
                        /\ Listed(r, i) = E[seq(i) + 1]
    BY <1>1, StoredEvents
  <1>3. \A i \in 1..n : L[i] = E[seq(i) + 1]
    <2> SUFFICES ASSUME NEW i \in 1..n PROVE L[i] = E[seq(i) + 1]
      OBVIOUS
    <2>1. Listed(r, i) \in StoredOf(r)
      BY <1>1
    <2>2. Document(Listed(r, i)) = Listed(r, i)
      BY <2>1, Documents DEF Sound
    <2>3. QED BY <1>1, <1>2, <2>2
  <1>4. L \in Seq(Events)
    <2> DEFINE D == {Document(e) : e \in StoredOf(r)}
    <2>1. L \in Seq(D)
      BY Listing
    <2>2. \A e \in StoredOf(r) : e \in Events /\ Document(e) = e
      BY StoredEvents, Documents DEF Sound
    <2>3. D \subseteq Events
      BY <2>2
    <2> HIDE DEF D, L
    <2>4. QED BY <2>1, <2>3, SeqMonotonic
  <1>5. \A i \in 1..n : seq(i) = s + i - 1
    BY NumbersFollow
  <1> HIDE DEF n, L, E, m, s
  <1>6. ASSUME n > 0
        PROVE  /\ s + 1 \in 1..m /\ s + n \in 1..m
               /\ L = SubSeq(E, s + 1, s + n)
    <2>1. 1 \in 1..n /\ n \in 1..n /\ s \in 0..7 /\ s + 1 \in 1..m
      BY <1>1, <1>2, <1>6 DEF s
    <2>2. s + n \in 1..m
      <3>1. seq(n) = s + n - 1 /\ seq(n) + 1 \in 1..m
        BY <1>2, <1>5, <2>1
      <3>2. QED BY <1>1, <2>1, <3>1
    <2> DEFINE a == s + 1
               z == s + n
               P == SubSeq(E, a, z)
    <2>3. a \in Int /\ z \in Int /\ z - a + 1 = n /\ a <= z
      BY <1>1, <1>6, <2>1
    <2>4. \A i \in a..z : E[i] \in Events
      <3>1. \A i \in a..z : i \in 1..Len(E)
        BY <1>1, <2>1, <2>2 DEF m
      <3>2. QED BY <1>1, <3>1, ElementOfSeq
    <2>5. \A i \in 1..n : a + i - 1 = seq(i) + 1
      BY <1>1, <1>5, <2>1
    <2> HIDE DEF a, z
    <2>6. /\ P \in Seq(Events) /\ Len(P) = IF a <= z THEN z - a + 1 ELSE 0
          /\ \A i \in 1..(z - a + 1) : P[i] = E[a + i - 1]
      BY <2>3, <2>4, SubSeqProperties
    <2> HIDE DEF P
    <2>7. Len(P) = n /\ \A i \in 1..n : P[i] = L[i]
      BY <1>3, <2>3, <2>5, <2>6
    <2>8. P = L
      BY <1>1, <1>4, <2>6, <2>7, SeqEqual DEF L
    <2>9. QED BY <2>1, <2>2, <2>8 DEF P, a, z
  <1>7. ASSUME L # <<>> PROVE Contiguous(r, L)
    <2>1. n # 0
      BY <1>1, <1>4, <1>7, EmptySeq DEF L
    <2>2. n > 0
      BY <1>1, <2>1
    <2>3. QED BY <1>6, <2>2 DEF Contiguous, E, m
  <1>8. ASSUME OneAtATime, result[r].unsynced_events = 0
        PROVE  L = E
    <2>1. IsFiniteSet(Missing(r)) /\ Cardinality(Missing(r)) \in Nat
      BY MissingIsFinite DEF RInv
    <2>2. Cardinality(Missing(r)) <= 0
      BY <1>8 DEF CountInv, ReportsAccountForEveryEvent, Known
    <2>3. Missing(r) = {}
      BY <2>1, <2>2, FS_EmptySet
    <2>4. ASSUME NEW i \in 1..m
          PROVE  \E j \in 1..n : seq(j) = i - 1
      <3>1. E[i] \in journalEvents
        BY <2>3, <2>4 DEF Missing, E, m
      <3>2. E[i].run = r /\ E[i].sequence = i - 1
        BY <2>4 DEF Numbered, E, m
      <3>3. E[i] \in StoredOf(r)
        BY <3>1, <3>2 DEF StoredOf
      <3>4. QED BY <1>1, <3>2, <3>3
    <2>5. CASE m = 0
      <3>1. n = 0
        <4>1. ASSUME n > 0 PROVE FALSE
          BY <1>6, <2>5, <4>1
        <4>2. QED BY <1>1, <4>1
      <3>2. L = <<>> /\ E = <<>>
        BY <1>1, <1>4, <2>5, <3>1, EmptySeq DEF L, m
      <3>3. QED BY <3>2
    <2>6. CASE m # 0
      <3>1. 1 \in 1..m /\ m \in 1..m
        BY <1>1, <2>6
      <3>2. PICK i \in 1..n : seq(i) = 1 - 1
        BY <2>4, <3>1
      <3>3. PICK j \in 1..n : seq(j) = m - 1
        BY <2>4, <3>1
      <3>4. n > 0 /\ 1 \in 1..n
        BY <1>1, <3>2
      <3>5. s + 1 \in 1..m /\ s + n \in 1..m /\ L = SubSeq(E, s + 1, s + n)
        BY <1>6, <3>4
      <3>6. s \in 0..7 /\ 0 = s + i - 1 /\ m - 1 = s + j - 1
        <4>1. s \in 0..7
          BY <1>2, <3>4 DEF s
        <4>2. QED BY <1>5, <3>2, <3>3, <4>1
      <3>7. s = 0
        BY <3>2, <3>6
      <3>8. n = m
        BY <1>1, <3>3, <3>5, <3>6, <3>7
      <3>9. s + 1 = 1 /\ s + n = m
        BY <1>1, <3>7, <3>8
      <3>10. QED BY <1>1, <3>5, <3>9, SubSeqFull DEF m
    <2>7. QED BY <2>5, <2>6
  <1>9. QED BY <1>7, <1>8 DEF TrueTo, L, E

\* The first flaw that is reported is at or before every altered event, and it is
\* an altered event or one whose predecessor is not stored.
LEMMA TheFirstFlawIsReported ==
  ASSUME RInv, Numbered, NEW r \in Run,
         NEW e \in StoredOf(r), <<r, e.sequence>> \in tampered,
         NEW report, report = VerifyJournalChain(ListJournal(r))
  PROVE  /\ ~report.intact
         /\ report.broken_at_sequence <= e.sequence
         /\ \/ <<r, report.broken_at_sequence>> \in tampered
            \/ \A f \in StoredOf(r) : f.sequence # report.broken_at_sequence - 1
  <1> DEFINE n == Cardinality(StoredOf(r))
             L == ListJournal(r)
             F == Flaws(L)
             seq(i) == Listed(r, i).sequence
             least == CHOOSE i \in F : \A j \in F : i <= j
  <1>1. n \in Nat /\ \A i \in 1..n : Listed(r, i) \in StoredOf(r) /\ seq(i) \in 0..7
    BY Listing, StoredEvents
  <1>2. \A i, j \in 1..n : i < j <=> seq(i) < seq(j)
    BY Listing
  <1>3. \A f \in StoredOf(r) : \E i \in 1..n : f = Listed(r, i)
    BY Listing
  <1>4. \A i \in 1..n : L[i].sequence = seq(i)
    <2>1. \A i \in 1..n : Listed(r, i) \in StoredOf(r) /\ L[i] = Document(Listed(r, i))
      BY Listing
    <2>2. QED BY <2>1, Documents
  <1>5. /\ F \subseteq 1..n
        /\ \A i \in 1..n : i \in F <=> \/ <<r, seq(i)>> \in tampered
                                       \/ i > 1 /\ seq(i) # seq(i - 1) + 1
    BY FlawsAre
  <1>6. /\ ~report.intact <=> F # {}
        /\ F # {} => report.broken_at_sequence = L[least].sequence
    <2> DEFINE b == F = {}
    <2>1. report.intact = b /\ b \in BOOLEAN
      BY DEF VerifyJournalChain
    <2>2. F # {} => report.broken_at_sequence = L[least].sequence
      BY DEF VerifyJournalChain
    <2>3. QED BY <2>1, <2>2
  <1> HIDE DEF n, L, F
  <1>7. PICK i \in 1..n : e = Listed(r, i)
    BY <1>3
  <1>8. i \in F
    BY <1>5, <1>7
  <1>9. least \in F /\ \A j \in F : least <= j
    <2>1. F \in SUBSET Nat /\ F # {}
      BY <1>1, <1>5, <1>8
    <2>2. PICK k \in F : \A j \in F : ~(<<j, k>> \in OpToRel(<, Nat))
      BY <2>1, NatLessThanWellFounded, WFMin
    <2>3. \A j \in F : ~(j < k)
      BY <2>1, <2>2 DEF OpToRel
    <2>4. \A j \in F : k <= j
      BY <2>1, <2>3
    <2>5. QED BY <2>4
  <1> DEFINE at == seq(least)
  <1>10. least \in 1..n /\ report.broken_at_sequence = at /\ ~report.intact
    BY <1>4, <1>5, <1>6, <1>8, <1>9
  <1> HIDE DEF least
  <1>11. at <= e.sequence
    <2>1. ~(i < least)
      BY <1>1, <1>7, <1>8, <1>9, <1>10
    <2>2. ~(seq(i) < at)
      BY <1>2, <1>7, <1>10, <2>1
    <2>3. seq(i) \in 0..7 /\ at \in 0..7
      BY <1>1, <1>7, <1>10
    <2>4. QED BY <1>7, <2>2, <2>3
  <1>12. ASSUME <<r, at>> \notin tampered, NEW f \in StoredOf(r), f.sequence = at - 1
         PROVE  FALSE
    <2>1. least > 1 /\ at # seq(least - 1) + 1
      BY <1>5, <1>9, <1>10, <1>12
    <2>2. PICK k \in 1..n : f = Listed(r, k)
      BY <1>3
    <2>3. least - 1 \in 1..n /\ least - 1 < least
      BY <1>1, <1>10, <2>1
    <2>4. at \in 0..7 /\ seq(k) \in 0..7 /\ seq(least - 1) \in 0..7
      BY <1>1, <1>10, <2>2, <2>3
    <2>5. seq(k) < at /\ seq(least - 1) < at
      BY <1>2, <1>10, <1>12, <2>2, <2>3, <2>4
    <2>6. seq(least - 1) < seq(k)
      BY <1>12, <2>1, <2>2, <2>4, <2>5
    <2>7. least - 1 < k /\ k < least
      BY <1>2, <1>10, <2>2, <2>3, <2>5, <2>6
    <2>8. QED BY <1>1, <1>10, <2>2, <2>7
  <1>13. QED BY <1>10, <1>11, <1>12

-----------------------------------------------------------------------------
(***************************************************************************)
(* What stands                                                             *)
(***************************************************************************)
\* Nothing a view rests on has changed of the run.
Fixed(r) ==
    /\ result'[r] = result[r] /\ emitted'[r] = emitted[r]
    /\ bad'[r] = bad[r] /\ good'[r] = good[r]
    /\ StoredOf(r)' = StoredOf(r)

\* A run that has returned takes no more steps, and no other run writes its events.
LEMMA ReturnedRunsAreFixed ==
  ASSUME RInv, [Next]_vars, NEW r \in Run, Known(r)
  PROVE  Fixed(r)
  <1>1. TypeOK /\ pc[r] = "done"
    BY DEF RInv, Decided, Known
  <1>2. CASE UNCHANGED vars \/ GoesDown \/ ComesBack
    BY <1>2 DEF vars, local, store, GoesDown, ComesBack, Fixed, StoredOf
  <1>3. ASSUME NEW q \in Run, Start(q) \/ RunStep(q)
        PROVE  q # r
    BY <1>1, <1>3
    DEF RunStep, Start, Touch, InsertCase, InsertFirstCandidate, InsertBoundedCandidate,
        InsertApproval, InsertVerification, Log, BestEffort, Logged, Report, At, Inserts,
        Logs, EventTypeOf
  <1>4. ASSUME NEW q \in Run, q # r, Start(q) \/ RunStep(q)
        PROVE  /\ result'[r] = result[r] /\ emitted'[r] = emitted[r]
               /\ bad'[r] = bad[r] /\ good'[r] = good[r]
    BY <1>1, <1>4
    DEF RunStep, Start, Touch, InsertCase, InsertFirstCandidate, InsertBoundedCandidate,
        InsertApproval, InsertVerification, Log, BestEffort, Logged, Report, Move, TypeOK
  <1>5. ASSUME NEW q \in Run, q # r, Start(q) \/ RunStep(q)
        PROVE  StoredOf(r)' = StoredOf(r)
    <2>1. CASE Log(q)
      <3> DEFINE e == Event(q)
      <3>1. e.run = q
        BY DEF Event, EventWith
      <3> HIDE DEF e
      <3>2. journalEvents \subseteq journalEvents' /\ journalEvents' \subseteq journalEvents \cup {e}
        BY <2>1 DEF Log, Calls, CallSucceeds, AnswerIsLost, CallFails, Goes, store, e
      <3>3. QED BY <1>5, <3>1, <3>2 DEF StoredOf
    <2>2. CASE ~Log(q)
      <3>1. journalEvents' = journalEvents
        BY <1>5, <2>2
        DEF RunStep, Start, Touch, InsertCase, InsertFirstCandidate, InsertBoundedCandidate,
            InsertApproval, InsertVerification, BestEffort, Logged, Report, Move, Calls,
            CallSucceeds, AnswerIsLost, CallFails, Goes, store
      <3>2. QED BY <3>1 DEF StoredOf
    <2>3. QED BY <2>1, <2>2
  <1>6. QED BY <1>2, <1>3, <1>4, <1>5 DEF Next, Fixed

\* What was true of a chain stays true: alterations only add up.
LEMMA TruthsStand ==
  ASSUME NEW r \in Run, Fixed(r), tampered \subseteq tampered'
  PROVE  /\ Sound(r)' => Sound(r)
         /\ \A t : TrueTo(r, t) => TrueTo(r, t)'
         /\ \A s, c : Names(r, s, c) => Names(r, s, c)'
  <1>1. Sound(r)' => Sound(r)
    BY DEF Sound, Fixed
  <1>2. \A t : TrueTo(r, t) => TrueTo(r, t)'
    BY DEF TrueTo, Contiguous, Fixed
  <1>3. \A s, c : Names(r, s, c) => Names(r, s, c)'
    BY <1>1 DEF Names, Judged, Fixed
  <1>4. QED BY <1>1, <1>2, <1>3

\* A request under way, what a view has read and what is shown stay right while
\* the runs they are about do not move.
LEMMA RequestsStand ==
  ASSUME \A r \in Run : Known(r) => Fixed(r), tampered \subseteq tampered'
  PROVE  /\ TamperingOK /\ tampering' = tampering => TamperingOK'
         /\ ViewingOK /\ viewing' = viewing => ViewingOK'
         /\ ShownOK /\ shown' = shown => ShownOK'
  <1>1. \A r \in Run : Known(r) =>
           /\ Known(r)' /\ StoredOf(r)' = StoredOf(r)
           /\ bad'[r] = bad[r] /\ good'[r] = good[r]
    BY DEF Known, Fixed
  <1>2. \A r \in Run : Known(r) =>
           /\ Sound(r)' => Sound(r)
           /\ \A t : TrueTo(r, t) => TrueTo(r, t)'
           /\ \A s, c : Names(r, s, c) => Names(r, s, c)'
    BY TruthsStand
  <1>3. ASSUME TamperingOK, tampering' = tampering PROVE TamperingOK'
    BY <1>1, <1>3 DEF TamperingOK
  <1>4. ASSUME ViewingOK, viewing' = viewing PROVE ViewingOK'
    BY <1>1, <1>2, <1>4 DEF ViewingOK
  <1>5. ASSUME ShownOK, shown' = shown PROVE ShownOK'
    <2>1. TamperingIsReported'
      BY <1>1, <1>5 DEF ShownOK, TamperingIsReported
    <2>2. QED BY <1>1, <1>2, <1>5, <2>1 DEF ShownOK
  <1>6. QED BY <1>3, <1>4, <1>5

\* A request moves no run.
LEMMA RequestsMoveNoRun ==
  ASSUME RInv, OneAtATime => CountInv, Numbered, UNCHANGED vars
  PROVE  /\ RInv' /\ (OneAtATime => CountInv)' /\ Numbered'
         /\ \A r \in Run : Fixed(r) /\ (Known(r) => Known(r)')
  <1>1. RInv' /\ Numbered'
    BY RInvStep, NumberedStep
  <1>2. (OneAtATime => CountInv)'
    BY CountInvStep DEF OneAtATime
  <1>3. \A r \in Run : Fixed(r) /\ (Known(r) => Known(r)')
    BY DEF vars, local, store, Fixed, StoredOf, Known
  <1>4. QED BY <1>1, <1>2, <1>3

-----------------------------------------------------------------------------
(***************************************************************************)
(* The requests                                                            *)
(***************************************************************************)
\* The update of /tamper: it remembers whether there was an event to alter.
LEMMA OverwriteStep ==
  ASSUME AInv, NEW r \in Run, NEW sequence \in TamperedNumbers, Overwrite(r, sequence)
  PROVE  AInv'
  <1> DEFINE matched == \E e \in StoredOf(r) : e.sequence = sequence
  <1>1. /\ Known(r) /\ UNCHANGED <<vars, viewing>> /\ shown' = None
        /\ tampered' = IF matched THEN tampered \cup {<<r, sequence>>} ELSE tampered
        /\ tampering' = [run |-> r, sequence |-> sequence, matched |-> matched]
    BY DEF Overwrite
  <1>2. /\ tampering'.run = r /\ tampering'.sequence = sequence
        /\ tampering'.matched = matched
    BY <1>1
  <1>3. matched \in BOOLEAN /\ (matched => \E e \in StoredOf(r) : e.sequence = sequence)
    OBVIOUS
  <1> HIDE DEF matched
  <1>4. tampered \subseteq tampered' /\ (matched => <<r, sequence>> \in tampered')
    BY <1>1
  <1>5. /\ RInv' /\ (OneAtATime => CountInv)' /\ Numbered'
        /\ \A q \in Run : Fixed(q) /\ (Known(q) => Known(q)')
    BY <1>1, RequestsMoveNoRun DEF AInv
  <1>6. TamperingOK'
    <2>1. Known(r)' /\ StoredOf(r)' = StoredOf(r)
      BY <1>1, <1>5 DEF Fixed
    <2>2. QED BY <1>2, <1>3, <1>4, <2>1 DEF TamperingOK
  <1>7. ViewingOK' /\ ShownOK'
    <2>1. ViewingOK'
      BY <1>1, <1>4, <1>5, RequestsStand DEF AInv
    <2>2. ShownOK'
      BY <1>1 DEF ShownOK
    <2>3. QED BY <2>1, <2>2
  <1>8. QED BY <1>5, <1>6, <1>7 DEF AInv

\* The report of /tamper.
LEMMA ReportTamperingStep ==
  ASSUME AInv, ReportTampering
  PROVE  AInv'
  <1>0. PICK r \in Run : r = tampering.run /\ Known(r)
    BY DEF AInv, TamperingOK, ReportTampering
  <1> DEFINE report == VerifyJournalChain(ListJournal(r))
             at == report.broken_at_sequence
  <1>1. /\ tampering # None /\ tampering' = None /\ UNCHANGED <<vars, tampered, viewing>>
        /\ shown' = [view |-> "tamper", request |-> tampering, chain |-> report]
    BY <1>0 DEF ReportTampering
  <1>2. /\ RInv' /\ (OneAtATime => CountInv)' /\ Numbered'
        /\ \A q \in Run : Fixed(q) /\ (Known(q) => Known(q)')
    BY <1>1, RequestsMoveNoRun DEF AInv
  <1>3. Known(r)' /\ StoredOf(r)' = StoredOf(r)
    BY <1>0, <1>2 DEF Fixed
  <1>4. /\ shown'.view = "tamper" /\ shown'.request = tampering /\ shown'.chain = report
    BY <1>1
  <1>5. ASSUME tampering.matched
        PROVE  /\ ~report.intact /\ at <= tampering.sequence
               /\ \/ <<r, at>> \in tampered
                  \/ \A e \in StoredOf(r) : e.sequence # at - 1
    <2>1. PICK e \in StoredOf(r) :
             e.sequence = tampering.sequence /\ <<r, e.sequence>> \in tampered
      BY <1>0, <1>1, <1>5 DEF AInv, TamperingOK
    <2>2. QED BY <1>3, <2>1, TheFirstFlawIsReported DEF AInv
  <1>6. tampering'=None /\ tampered' = tampered /\ viewing' = viewing
    BY <1>1
  <1> HIDE DEF report
  <1>7. TamperingIsReported'
    BY <1>0, <1>3, <1>4, <1>5, <1>6 DEF TamperingIsReported
  <1>8. ShownOK'
    BY <1>0, <1>3, <1>4, <1>7 DEF ShownOK
  <1>9. TamperingOK' /\ ViewingOK'
    <2>1. ViewingOK'
      BY <1>2, <1>6, RequestsStand DEF AInv
    <2>2. QED BY <1>6, <2>1 DEF TamperingOK
  <1>10. QED BY <1>2, <1>8, <1>9 DEF AInv

\* Either request ends with an error.
LEMMA FailureStep ==
  ASSUME AInv, TamperFails \/ ViewFails
  PROVE  AInv'
  <1>1. /\ UNCHANGED <<vars, tampered, shown>>
        /\ tampering' = tampering \/ tampering' = None
        /\ viewing' = viewing \/ viewing' = None
    BY DEF TamperFails, ViewFails
  <1>2. /\ RInv' /\ (OneAtATime => CountInv)' /\ Numbered'
        /\ \A q \in Run : Fixed(q) /\ (Known(q) => Known(q)')
    BY <1>1, RequestsMoveNoRun DEF AInv
  <1>3. TamperingOK'
    BY <1>1, <1>2, RequestsStand DEF AInv, TamperingOK
  <1>4. ViewingOK'
    BY <1>1, <1>2, RequestsStand DEF AInv, ViewingOK
  <1>5. ShownOK'
    BY <1>1, <1>2, RequestsStand DEF AInv
  <1>6. QED BY <1>2, <1>3, <1>4, <1>5 DEF AInv

\* A step of a view: only what was read and what is shown change.
LEMMA ViewStep ==
  ASSUME AInv, UNCHANGED <<vars, tampered, tampering>>, ViewingOK', ShownOK'
  PROVE  AInv'
  <1>1. /\ RInv' /\ (OneAtATime => CountInv)' /\ Numbered'
        /\ \A q \in Run : Fixed(q) /\ (Known(q) => Known(q)')
    BY RequestsMoveNoRun DEF AInv
  <1>2. TamperingOK'
    BY <1>1, RequestsStand DEF AInv
  <1>3. QED BY <1>1, <1>2 DEF AInv

\* The runs a view may be about, before and after its step.
LEMMA ViewOf ==
  ASSUME AInv, UNCHANGED <<vars, tampered>>, NEW r \in Run, Known(r)
  PROVE  /\ RInv /\ Numbered /\ (OneAtATime => CountInv)
         /\ Known(r)' /\ StoredOf(r)' = StoredOf(r)
         /\ bad'[r] = bad[r] /\ good'[r] = good[r]
         /\ Sound(r)' => Sound(r)
         /\ \A t : TrueTo(r, t) => TrueTo(r, t)'
         /\ \A s, c : Names(r, s, c) => Names(r, s, c)'
  <1>1. Fixed(r) /\ Known(r)'
    BY RequestsMoveNoRun DEF AInv
  <1>2. /\ Sound(r)' => Sound(r)
        /\ \A t : TrueTo(r, t) => TrueTo(r, t)'
        /\ \A s, c : Names(r, s, c) => Names(r, s, c)'
    BY <1>1, TruthsStand
  <1>3. QED BY <1>1, <1>2 DEF AInv, Fixed

\* The timeline of a replay is read.
LEMMA ReplayExportStep ==
  ASSUME AInv, NEW r \in Run, ReplayExport(r)
  PROVE  AInv'
  <1>1. PICK t : t = ListJournal(r)
    OBVIOUS
  <1>2. /\ Known(r) /\ UNCHANGED <<vars, tampered, tampering>> /\ shown' = None
        /\ viewing' = [view |-> "replay", run |-> r, timeline |-> t]
    BY <1>1 DEF ReplayExport
  <1>3. /\ Known(r)' /\ (Sound(r)' => Sound(r)) /\ (TrueTo(r, t) => TrueTo(r, t)')
    BY <1>2, ViewOf
  <1>4. Sound(r) => TrueTo(r, t)
    BY <1>1, <1>2, SoundListsAreTrue DEF AInv
  <1>5. viewing'.view = "replay" /\ viewing'.run = r /\ viewing'.timeline = t
    BY <1>2
  <1>6. ViewingOK'
    BY <1>3, <1>4, <1>5 DEF ViewingOK
  <1>7. ShownOK'
    BY <1>2 DEF ShownOK
  <1>8. QED BY <1>2, <1>6, <1>7, ViewStep

\* The chain of a replay is verified: if it is intact now, it was when the timeline
\* was read.
LEMMA ReplayChainStep ==
  ASSUME AInv, ReplayChain
  PROVE  AInv'
  <1>1. viewing # None /\ viewing.view = "replay" /\ viewing' = None
        /\ UNCHANGED <<vars, tampered, tampering>>
    BY DEF ReplayChain
  <1>2. PICK r \in Run : r = viewing.run /\ Known(r)
    BY <1>1 DEF AInv, ViewingOK
  <1>3. PICK t : t = viewing.timeline
    OBVIOUS
  <1>4. PICK report : report = VerifyJournalChain(ListJournal(r))
    OBVIOUS
  <1>5. shown' = IF t = <<>> THEN None
                 ELSE [view |-> "replay", run |-> r, timeline |-> t, chain |-> report]
    BY <1>2, <1>3, <1>4 DEF ReplayChain
  <1>6. /\ Known(r)' /\ (TrueTo(r, t) => TrueTo(r, t)')
    BY <1>1, <1>2, ViewOf
  <1>7. report.intact => TrueTo(r, t)
    <2>1. report.intact => Sound(r)
      BY <1>4, VerifiesMeans DEF AInv
    <2>2. Sound(r) => TrueTo(r, t)
      BY <1>1, <1>2, <1>3 DEF AInv, ViewingOK
    <2>3. QED BY <2>1, <2>2
  <1>8. ShownOK'
    <2>1. CASE t = <<>>
      BY <1>5, <2>1 DEF ShownOK
    <2>2. CASE t # <<>>
      <3>1. /\ shown'.view = "replay" /\ shown'.run = r /\ shown'.timeline = t
            /\ shown'.chain = report
        BY <1>5, <2>2
      <3>2. TamperingIsReported'
        BY <3>1 DEF TamperingIsReported
      <3>3. QED BY <1>6, <1>7, <2>2, <3>1, <3>2 DEF ShownOK
    <2>3. QED BY <2>1, <2>2
  <1>9. ViewingOK'
    BY <1>1 DEF ViewingOK
  <1>10. QED BY <1>1, <1>8, <1>9, ViewStep

\* A blocked verdict is looked for.
LEMMA WhyVerdictStep ==
  ASSUME AInv, NEW r \in Run, WhyVerdict(r)
  PROVE  AInv'
  <1>1. Known(r) /\ viewing = None /\ UNCHANGED <<vars, tampered, tampering>>
    BY DEF WhyVerdict
  <1>2. Known(r)' /\ StoredOf(r)' = StoredOf(r)
    BY <1>1, ViewOf
  <1>3. CASE BlockedVerdicts(r) = {}
    <2>1. shown' = [view |-> "why", run |-> r, blocked |-> FALSE] /\ viewing' = None
      BY <1>1, <1>3 DEF WhyVerdict
    <2>2. shown'.view = "why" /\ shown'.blocked = FALSE
      BY <2>1
    <2>3. TamperingIsReported'
      BY <2>2 DEF TamperingIsReported
    <2>4. ViewingOK' /\ ShownOK'
      BY <2>1, <2>2, <2>3 DEF ViewingOK, ShownOK
    <2>5. QED BY <1>1, <2>4, ViewStep
  <1>4. CASE BlockedVerdicts(r) # {}
    <2>1. PICK e \in BlockedVerdicts(r) :
             viewing' = [view |-> "why_prior", run |-> r, at_sequence |-> e.sequence]
      BY <1>4 DEF WhyVerdict
    <2>2. e \in StoredOf(r) /\ Document(e).event_type = "CONTRACT_EVALUATED"
      BY DEF BlockedVerdicts
    <2>3. e.event_type = "CONTRACT_EVALUATED"
      BY <2>2, Documents DEF AInv
    <2>4. /\ viewing'.view = "why_prior" /\ viewing'.run = r
          /\ viewing'.at_sequence = e.sequence
      BY <2>1
    <2>5. ViewingOK'
      BY <1>2, <2>2, <2>3, <2>4 DEF ViewingOK
    <2>6. ShownOK'
      BY <1>4 DEF WhyVerdict, ShownOK
    <2>7. QED BY <1>1, <2>5, <2>6, ViewStep
  <1>5. QED BY <1>3, <1>4

\* The last stored proposal before a verdict is the one that was judged, if no
\* event is missing in between and none is altered.
LEMMA TheLastProposalWasJudged ==
  ASSUME AInv, NEW r \in Run, Known(r), Sound(r), NEW e \in StoredOf(r),
         e.event_type = "CONTRACT_EVALUATED",
         NEW prior, prior = ProposalsBefore(r, e.sequence), prior # {}
  PROVE  Document(LastOf(prior)).payload = Judged(r, e.sequence)
  <1> DEFINE at == e.sequence
             last == LastOf(prior)
  <1>1. RInv /\ Numbered
    BY DEF AInv
  <1>2. /\ at \in {2, 4} /\ TypeAt[at] = "AI_PROPOSAL"
    <2>1. at \in 0..7 /\ TypeAt[at + 1] = "CONTRACT_EVALUATED"
      BY <1>1, StoredEvents, Documents
    <2>2. QED BY <2>1 DEF TypeAt
  <1>3. \A f \in prior : f \in StoredOf(r) /\ f.sequence \in 0..7 /\ f.sequence < at
    BY <1>1, StoredEvents DEF ProposalsBefore
  <1>4. PICK f \in prior : TRUE
    OBVIOUS
  <1>5. PICK g \in StoredOf(r) : g.sequence + 1 = at
    BY <1>3, <1>4 DEF Sound
  <1>6. /\ g.sequence \in 0..7 /\ g = emitted[r][at] /\ <<r, g.sequence>> \notin tampered
        /\ g.event_type = TypeAt[at] /\ Document(g) = g
    <2>1. g.sequence \in 0..7 /\ g = emitted[r][at]
      BY <1>1, <1>5, StoredEvents
    <2>2. <<r, g.sequence>> \notin tampered
      BY DEF Sound
    <2>3. Document(g) = g /\ Document(g).event_type = TypeAt[g.sequence + 1]
      BY <1>1, <2>2, Documents
    <2>4. QED BY <1>5, <2>1, <2>2, <2>3
  <1>7. g \in prior
    BY <1>2, <1>5, <1>6 DEF ProposalsBefore
  <1>8. \A h \in prior : h.sequence <= g.sequence
    BY <1>2, <1>3, <1>5, <1>6
  <1>9. last \in prior /\ \A h \in prior : h.sequence <= last.sequence
    BY <1>7, <1>8 DEF LastOf
  <1> HIDE DEF last
  <1>10. last = g
    <2>1. last.sequence = g.sequence /\ last \in StoredOf(r)
      BY <1>3, <1>6, <1>7, <1>8, <1>9
    <2>2. QED BY <1>1, <2>1, StoredEvents
  <1>11. QED BY <1>6, <1>10 DEF Judged, last

\* The proposal before the verdict is looked for.
LEMMA WhyPriorStep ==
  ASSUME AInv, WhyPrior
  PROVE  AInv'
  <1>1. /\ viewing # None /\ viewing.view = "why_prior"
        /\ UNCHANGED <<vars, tampered, tampering, shown>>
    BY DEF WhyPrior
  <1>2. PICK r \in Run : r = viewing.run /\ Known(r)
    BY <1>1 DEF AInv, ViewingOK
  <1>3. PICK e \in StoredOf(r) :
           e.sequence = viewing.at_sequence /\ e.event_type = "CONTRACT_EVALUATED"
    BY <1>1, <1>2 DEF AInv, ViewingOK
  <1>4. PICK at : at = e.sequence
    OBVIOUS
  <1>5. PICK prior : prior = ProposalsBefore(r, at)
    OBVIOUS
  <1>6. PICK c : c = IF prior = {} THEN None ELSE Document(LastOf(prior)).payload
    OBVIOUS
  <1>7. viewing' = [view |-> "why_document", run |-> r, at_sequence |-> at, candidate |-> c]
    BY <1>2, <1>3, <1>4, <1>5, <1>6 DEF WhyPrior
  <1>8. Names(r, at, c)
    <2>1. ASSUME Sound(r), prior # {} PROVE c = Judged(r, at)
      BY <1>2, <1>3, <1>4, <1>5, <1>6, <2>1, TheLastProposalWasJudged
    <2>2. QED BY <1>6, <2>1 DEF Names
  <1>9. Known(r)' /\ Names(r, at, c)'
    BY <1>1, <1>2, <1>8, ViewOf
  <1>10. /\ viewing'.view = "why_document" /\ viewing'.run = r
         /\ viewing'.at_sequence = at /\ viewing'.candidate = c
    BY <1>7
  <1>11. ViewingOK'
    BY <1>9, <1>10 DEF ViewingOK
  <1>12. ShownOK'
    BY <1>1, RequestsMoveNoRun, RequestsStand DEF AInv
  <1>13. QED BY <1>1, <1>11, <1>12, ViewStep

\* The explanation is given.
LEMMA WhyDocumentStep ==
  ASSUME AInv, WhyDocument
  PROVE  AInv'
  <1>1. /\ viewing # None /\ viewing.view = "why_document" /\ viewing' = None
        /\ UNCHANGED <<vars, tampered, tampering>>
    BY DEF WhyDocument
  <1>2. PICK r \in Run : r = viewing.run /\ Known(r)
    BY <1>1 DEF AInv, ViewingOK
  <1>3. PICK at : at = viewing.at_sequence
    OBVIOUS
  <1>4. PICK c : c = viewing.candidate
    OBVIOUS
  <1>5. PICK p : p = IF c \in CandidateDocuments(r) THEN c ELSE None
    OBVIOUS
  <1>6. shown' = [view |-> "why", run |-> r, blocked |-> TRUE, at_sequence |-> at,
                  candidate |-> c, candidate_fingerprint |-> p]
    BY <1>2, <1>3, <1>4, <1>5 DEF WhyDocument
  <1>7. Names(r, at, c)
    BY <1>1, <1>2, <1>3, <1>4 DEF AInv, ViewingOK
  <1>8. p \in {None, bad[r], good[r]}
    BY <1>5 DEF CandidateDocuments
  <1>9. Known(r)' /\ Names(r, at, c)' /\ bad'[r] = bad[r] /\ good'[r] = good[r]
    BY <1>1, <1>2, <1>7, ViewOf
  <1>10. /\ shown'.view = "why" /\ shown'.run = r /\ shown'.at_sequence = at
         /\ shown'.candidate = c /\ shown'.candidate_fingerprint = p
    BY <1>6
  <1>11. TamperingIsReported'
    BY <1>10 DEF TamperingIsReported
  <1>12. ShownOK'
    BY <1>8, <1>9, <1>10, <1>11 DEF ShownOK
  <1>13. ViewingOK'
    BY <1>1 DEF ViewingOK
  <1>14. QED BY <1>1, <1>12, <1>13, ViewStep

-----------------------------------------------------------------------------
(***************************************************************************)
(* The theorems                                                            *)
(***************************************************************************)
\* Nothing is recorded, altered or shown at first.
LEMMA AInvInitially == AuditInit => AInv
  <1> SUFFICES ASSUME AuditInit PROVE AInv
    OBVIOUS
  <1>1. Init /\ tampering = None /\ viewing = None /\ shown = None
    BY DEF AuditInit
  <1>2. RInv
    BY <1>1, RInvInitially
  <1>3. CountInv
    BY <1>1 DEF Init, CountInv, Running, ReportsAccountForEveryEvent
  <1>4. Numbered
    <2>1. \A r \in Run : emitted[r] = <<>>
      BY <1>1 DEF Init
    <2>2. \A r \in Run : 1..Len(emitted[r]) = {}
      BY <2>1, EmptySeq
    <2>3. QED BY <2>2 DEF Numbered
  <1>5. TamperingOK /\ ViewingOK /\ ShownOK
    BY <1>1 DEF TamperingOK, ViewingOK, ShownOK
  <1>6. QED BY <1>2, <1>3, <1>4, <1>5 DEF AInv

\* Every step of a run and every step of a request keeps the invariant.
LEMMA AInvStep == AInv /\ [AuditNext]_allVars => AInv'
  <1> SUFFICES ASSUME AInv, [AuditNext]_allVars PROVE AInv'
    OBVIOUS
  <1>1. CASE [Next]_vars /\ UNCHANGED auditVars
    <2>1. RInv' /\ (OneAtATime => CountInv)' /\ Numbered'
      BY <1>1, RInvStep, CountInvStep, NumberedStep DEF AInv, OneAtATime
    <2>2. \A r \in Run : Known(r) => Fixed(r)
      BY <1>1, ReturnedRunsAreFixed DEF AInv
    <2>3. TamperingOK' /\ ViewingOK' /\ ShownOK'
      BY <1>1, <2>2, RequestsStand DEF AInv, auditVars
    <2>4. QED BY <2>1, <2>3 DEF AInv
  <1>2. CASE Requests
    <2>1. ASSUME NEW r \in Run, NEW sequence \in TamperedNumbers, Overwrite(r, sequence)
          PROVE  AInv'
      BY <2>1, OverwriteStep
    <2>2. CASE ReportTampering
      BY <2>2, ReportTamperingStep
    <2>3. CASE TamperFails \/ ViewFails
      BY <2>3, FailureStep
    <2>4. ASSUME NEW r \in Run, ReplayExport(r) \/ WhyVerdict(r)
          PROVE  AInv'
      BY <2>4, ReplayExportStep, WhyVerdictStep
    <2>5. CASE ReplayChain \/ WhyPrior \/ WhyDocument
      BY <2>5, ReplayChainStep, WhyPriorStep, WhyDocumentStep
    <2>6. QED BY <1>2, <2>1, <2>2, <2>3, <2>4, <2>5 DEF Requests
  <1>3. QED BY <1>1, <1>2 DEF AuditNext, allVars

\* Whatever the interleaving, what the requests hold between two of their queries
\* is right as far as the chain still verifies.
THEOREM RequestsStayRight == AuditSpec => []AInv
  <1>1. QED BY AInvInitially, AInvStep, PTL DEF AuditSpec

\* While runs do not overlap, a replay whose chain is reported intact shows what
\* the run emitted, without a gap, and all of it if the run counted no unsynced
\* event (replay_run).
THEOREM IntactReplaysShowTheRun ==
  ASSUME OneAtATime
  PROVE  AuditSpec => []IntactReplaysAreTrue
  <1>1. AInv => IntactReplaysAreTrue
    BY DEF AInv, ShownOK, TrueTo, IntactReplaysAreTrue, Replayed
  <1>2. QED BY <1>1, RequestsStayRight, PTL

\* Also when runs overlap, a replay whose chain is reported intact shows a piece of
\* what the run emitted.
THEOREM IntactReplaysHaveNoGap ==
  AuditSpec => [](Replayed /\ shown.chain.intact => Contiguous(shown.run, shown.timeline))
  <1>1. AInv => (Replayed /\ shown.chain.intact => Contiguous(shown.run, shown.timeline))
    BY DEF AInv, ShownOK, TrueTo, Replayed
  <1>2. QED BY <1>1, RequestsStayRight, PTL

\* An altered event never goes unnoticed, and the number reported is that of an
\* altered event or of one whose predecessor is not stored (tamper).
THEOREM NoTamperingGoesUnnoticed == AuditSpec => []TamperingIsReported
  <1>1. AInv => TamperingIsReported
    BY DEF AInv, ShownOK, TamperingIsReported
  <1>2. QED BY <1>1, RequestsStayRight, PTL

\* As long as the journal of a run verifies, an explanation names the candidate
\* that was judged or none, and a fingerprint is of a candidate of the run
\* (why_blocked).
THEOREM TheExplainedWasJudged == AuditSpec => []ExplanationsNameTheJudged
  <1>1. AInv => ExplanationsNameTheJudged
    <2> SUFFICES ASSUME AInv, Explained PROVE ExplanationsNameTheJudged
      BY DEF ExplanationsNameTheJudged
    <2>1. /\ shown.run \in Run /\ Names(shown.run, shown.at_sequence, shown.candidate)
          /\ shown.candidate_fingerprint \in {None, bad[shown.run], good[shown.run]}
      BY DEF AInv, ShownOK, Explained
    <2>2. VerifyJournalChain(ListJournal(shown.run)).intact => Sound(shown.run)
      BY <2>1, VerifiesMeans DEF AInv
    <2>3. QED BY <2>1, <2>2 DEF Names, ExplanationsNameTheJudged
  <1>2. QED BY <1>1, RequestsStayRight, PTL
=============================================================================
