-------------------------- MODULE OfflineSyncProofs --------------------------
(***************************************************************************)
(* Proofs about OfflineSync, for any number of events, outages, lost       *)
(* answers and crashes.                                                    *)
(***************************************************************************)
EXTENDS OfflineSync, SequenceTheorems, WellFoundedInduction, TLAPS

-----------------------------------------------------------------------------
(***************************************************************************)
(* The inductive invariant                                                 *)
(***************************************************************************)
\* The elements of a sequence.
Lines(lines) == {lines[i] : i \in DOMAIN lines}

\* What the process has in hand at each call: the sync takes the events in
\* order, so that what is handed and no longer to be inserted is stored; what is
\* to be marked was stored; and after a reset there is nothing left to mark.
InHand ==
    /\ pc # "clear" => handed \subseteq 0..(recorded - 1)
    /\ pc = "persist" => todo = {recorded - 1}
    /\ pc = "look" => done = {}
    /\ pc = "sync" => handed \ todo \subseteq stored
    /\ pc \in {"sync", "mark_one", "mark_run"} => done \subseteq stored
    /\ pc = "mark_run" => handed \subseteq stored
    /\ pc = "clear" => journal = <<>> /\ recorded = 0 /\ handed = {}

\* What can be read of the file is a chain.
ChainHolds == Intact(journal)

SInv ==
    /\ TypeOK
    /\ journal \in Seq(Lines(journal))
    /\ InHand
    /\ SyncedIsStored
    /\ ChainHolds

-----------------------------------------------------------------------------
(***************************************************************************)
(* Numbers and sequences                                                   *)
(***************************************************************************)
\* Min, a CHOOSE, is what its name says: numbers that are there have a least one.
LEMMA LeastOfNumbers ==
  ASSUME NEW T \in SUBSET Nat, T # {}
  PROVE  Min(T) \in T /\ \A n \in T : Min(T) <= n
  <1>1. PICK least \in T : \A n \in T : ~(<<n, least>> \in OpToRel(<, Nat))
    BY NatLessThanWellFounded, WFMin
  <1>2. \A n \in T : ~(n < least)
    BY <1>1 DEF OpToRel
  <1>3. \A n \in T : least <= n
    BY <1>2
  <1>4. QED BY <1>3 DEF Min

\* The numbers of the events so far stay numbers of events.
LEMMA NumbersGrow ==
  ASSUME NEW a \in Nat, NEW b, b \in {a, a + 1}
  PROVE  0..(a - 1) \subseteq 0..(b - 1)
  OBVIOUS

\* A sequence over any set is one over its own elements.
LEMMA SequenceOfItsLines ==
  ASSUME NEW S, NEW s \in Seq(S)
  PROVE  s \in Seq(Lines(s))
  <1>1. Len(s) \in Nat /\ DOMAIN s = 1..Len(s) /\ s \in [1..Len(s) -> S]
    BY LenProperties
  <1>2. s \in [1..Len(s) -> Lines(s)]
    BY <1>1 DEF Lines
  <1>3. QED BY <1>1, <1>2, SeqDef

\* Each line names the hash of the one before it, the first one no line, and its
\* own hash covers it.
Linked(lines) ==
    \A i \in 1..Len(lines) :
        /\ lines[i].previous_event_hash =
              IF i = 1 THEN <<"GENESIS">> ELSE lines[i - 1].event_hash
        /\ lines[i].event_hash = EventHash(lines[i])

\* verify_integrity compares neighbours.
LEMMA IntactIsLinked ==
  ASSUME NEW S, NEW lines \in Seq(S)
  PROVE  Intact(lines) <=> Linked(lines)
  <1>1. /\ Len(lines) \in Nat /\ DOMAIN lines = 1..Len(lines)
        /\ \A i \in 1..Len(lines) : lines[i] \in S
    BY LenProperties, ElementOfSeq
  <1>2. ASSUME NEW i \in 1..Len(lines)
        PROVE  PrevHash(SubSeq(lines, 1, i - 1)) =
                  IF i = 1 THEN <<"GENESIS">> ELSE lines[i - 1].event_hash
    <2> DEFINE before == SubSeq(lines, 1, i - 1)
    <2>1. /\ before \in Seq(S) /\ Len(before) = i - 1
          /\ \A j \in 1..(i - 1) : before[j] = lines[j]
      <3>1. 1 \in Int /\ i - 1 \in Int /\ \A j \in 1..(i - 1) : lines[j] \in S
        BY <1>1
      <3>2. QED BY <1>1, <3>1, SubSeqProperties
    <2> HIDE DEF before
    <2>2. CASE i = 1
      <3>1. before = <<>>
        BY <2>1, <2>2, EmptySeq
      <3>2. QED BY <2>2, <3>1 DEF PrevHash, before
    <2>3. CASE i # 1
      <3>1. before # <<>>
        BY <2>1, <2>3, EmptySeq
      <3>2. before[Len(before)] = lines[i - 1]
        BY <1>1, <2>1, <2>3
      <3>3. QED BY <2>3, <3>1, <3>2 DEF PrevHash, before
    <2>4. QED BY <2>2, <2>3
  <1>3. QED BY <1>1, <1>2 DEF Intact, Linked

\* What PrevHash gives for a file is the hash of its last line.
LEMMA ChainGrows ==
  ASSUME NEW S, NEW lines \in Seq(S), Linked(lines), NEW n
  PROVE  Linked(Append(lines, Line(n, PrevHash(lines))))
  <1> DEFINE line == Line(n, PrevHash(lines))
             longer == Append(lines, line)
  <1>1. /\ Len(lines) \in Nat /\ lines \in Seq(S \cup {line}) /\ line \in S \cup {line}
    BY LenProperties, SeqMonotonic
  <1> HIDE DEF line
  <1>2. /\ Len(longer) = Len(lines) + 1 /\ longer[Len(lines) + 1] = line
        /\ \A i \in 1..Len(lines) : longer[i] = lines[i]
    BY <1>1, AppendProperties
  <1>3. /\ line.previous_event_hash = PrevHash(lines)
        /\ line.event_hash = EventHash(line)
    BY DEF line, Line, EventHash
  <1>4. PrevHash(lines) =
           IF Len(lines) + 1 = 1 THEN <<"GENESIS">> ELSE lines[Len(lines)].event_hash
    BY <1>1, EmptySeq DEF PrevHash
  <1>5. ASSUME NEW i \in 1..Len(longer)
        PROVE  /\ longer[i].previous_event_hash =
                     IF i = 1 THEN <<"GENESIS">> ELSE longer[i - 1].event_hash
               /\ longer[i].event_hash = EventHash(longer[i])
    <2>1. CASE i = Len(lines) + 1
      <3>1. longer[i] = line
        BY <1>2, <2>1
      <3>2. i # 1 => longer[i - 1] = lines[Len(lines)]
        BY <1>1, <1>2, <2>1
      <3>3. QED BY <1>3, <1>4, <2>1, <3>1, <3>2
    <2>2. CASE i \in 1..Len(lines)
      <3>1. longer[i] = lines[i] /\ (i # 1 => longer[i - 1] = lines[i - 1])
        BY <1>1, <1>2, <2>2
      <3>2. QED BY <2>2, <3>1 DEF Linked
    <2>3. QED BY <1>1, <1>2, <2>1, <2>2
  <1>6. QED BY <1>5 DEF Linked, line

\* A beginning of a chain is a chain.
LEMMA ChainBegins ==
  ASSUME NEW S, NEW lines \in Seq(S), Linked(lines), NEW n \in 0..Len(lines)
  PROVE  /\ SubSeq(lines, 1, n) \in Seq(S) /\ Len(SubSeq(lines, 1, n)) = n
         /\ \A i \in 1..n : SubSeq(lines, 1, n)[i] = lines[i]
         /\ Linked(SubSeq(lines, 1, n))
  <1> DEFINE part == SubSeq(lines, 1, n)
  <1>1. Len(lines) \in Nat /\ \A i \in 1..Len(lines) : lines[i] \in S
    BY LenProperties, ElementOfSeq
  <1>2. part \in Seq(S) /\ Len(part) = n /\ \A i \in 1..n : part[i] = lines[i]
    <2>1. 1 \in Int /\ n \in Int /\ \A i \in 1..n : lines[i] \in S
      BY <1>1
    <2>2. QED BY <1>1, <2>1, SubSeqProperties
  <1> HIDE DEF part
  <1>3. \A i \in 1..n : i \in 1..Len(lines) /\ (i # 1 => part[i - 1] = lines[i - 1])
    BY <1>1, <1>2
  <1>4. Linked(part)
    BY <1>2, <1>3 DEF Linked
  <1>5. QED BY <1>2, <1>4 DEF part

\* mark_synced rewrites the flags and nothing else.
LEMMA MarkingKeepsLines ==
  ASSUME journal \in Seq(Lines(journal)), NEW sequences,
         \A i \in DOMAIN journal : LineType(journal[i])
  PROVE  LET marked == Marked(sequences)
         IN  /\ marked \in Seq(Lines(marked)) /\ Len(marked) = Len(journal)
             /\ DOMAIN marked = DOMAIN journal
             /\ \A i \in DOMAIN journal :
                   /\ LineType(marked[i])
                   /\ marked[i].sequence = journal[i].sequence
                   /\ marked[i].previous_event_hash = journal[i].previous_event_hash
                   /\ marked[i].event_hash = journal[i].event_hash
                   /\ marked[i].synced =>
                         journal[i].synced \/ journal[i].sequence \in sequences
  <1> DEFINE marked == Marked(sequences)
  <1>1. Len(journal) \in Nat /\ DOMAIN journal = 1..Len(journal)
    BY LenProperties
  <1>2. /\ DOMAIN marked = DOMAIN journal
        /\ \A i \in DOMAIN journal :
              marked[i] = [journal[i] EXCEPT !.synced = @ \/ journal[i].sequence \in sequences]
    BY DEF Marked
  <1>3. marked \in Seq(Lines(marked)) /\ Len(marked) = Len(journal)
    <2>1. marked \in [1..Len(journal) -> Lines(marked)]
      BY <1>1, <1>2 DEF Lines, Marked
    <2>2. marked \in Seq(Lines(marked))
      BY <1>1, <2>1, SeqDef
    <2>3. Len(marked) = Len(journal)
      BY <1>1, <1>2, <2>2, LenProperties
    <2>4. QED BY <2>2, <2>3
  <1> HIDE DEF marked
  <1>4. ASSUME NEW i \in DOMAIN journal
        PROVE  /\ LineType(marked[i])
               /\ marked[i].sequence = journal[i].sequence
               /\ marked[i].previous_event_hash = journal[i].previous_event_hash
               /\ marked[i].event_hash = journal[i].event_hash
               /\ marked[i].synced => journal[i].synced \/ journal[i].sequence \in sequences
    BY <1>2 DEF LineType
  <1>5. QED BY <1>2, <1>3, <1>4 DEF marked


-----------------------------------------------------------------------------
(***************************************************************************)
(* The steps                                                               *)
(***************************************************************************)
\* The two parts of the type invariant: the file, and everything else.
FileOK ==
    /\ \A i \in DOMAIN journal : LineType(journal[i])
    /\ \A i, j \in DOMAIN journal : i < j => journal[i].sequence < journal[j].sequence

RestOK ==
    /\ recorded \in 0..MaxEvents
    /\ end \in End /\ up \in BOOLEAN
    /\ faults \in 0..MaxFaults /\ crashes \in 0..MaxCrashes
    /\ pc \in {"idle", "persist", "mark_one", "read", "look", "sync", "mark_run", "clear"}
    /\ pc # "clear" => stored \subseteq 0..(recorded - 1)
    /\ handed \subseteq Event /\ todo \subseteq handed /\ done \subseteq handed

\* The type invariant is of the file and of the rest.
LEMMA PartsOfTheType == TypeOK <=> FileOK /\ RestOK
  BY DEF TypeOK, FileOK, RestOK

\* A step that leaves the file alone and deletes nothing.
LEMMA FileStands ==
  ASSUME SInv, UNCHANGED <<journal, recorded>>
  PROVE  /\ journal' \in Seq(Lines(journal')) /\ ChainHolds' /\ FileOK'
         /\ stored \subseteq stored' => SyncedIsStored'
  <1>1. FileOK'
    BY PartsOfTheType DEF SInv, FileOK, LineType
  <1>2. journal' \in Seq(Lines(journal')) /\ ChainHolds'
    BY DEF SInv, Lines, ChainHolds, Intact, PrevHash, EventHash
  <1>3. stored \subseteq stored' => SyncedIsStored'
    BY DEF SInv, SyncedIsStored
  <1>4. QED BY <1>1, <1>2, <1>3

\* What the invariant says of the file.
FileRight ==
    /\ journal \in Seq(Lines(journal)) /\ FileOK
    /\ ChainHolds /\ SyncedIsStored

\* The invariant is of the file, of what is in hand, and of the rest.
LEMMA PartsOfTheInvariant == SInv <=> FileRight /\ RestOK /\ InHand
  BY PartsOfTheType DEF SInv, FileRight

\* Such a step keeps the invariant when what is in hand is right.
LEMMA HandStep ==
  ASSUME SInv, UNCHANGED <<journal, recorded>>, stored \subseteq stored', RestOK', InHand'
  PROVE  SInv'
  <1>1. TypeOK'
    BY FileStands, PartsOfTheType DEF FileOK, RestOK, TypeOK
  <1>2. QED BY <1>1, FileStands DEF SInv

\* A line is appended, behind all others and unsynced.
LEMMA AppendedFile ==
  ASSUME SInv, pc # "clear", recorded < MaxEvents, recorded' = recorded + 1,
         journal' = Append(journal, Line(recorded, PrevHash(journal))), UNCHANGED stored
  PROVE  FileRight'
  <1> DEFINE line == Line(recorded, PrevHash(journal))
             S == Lines(journal) \cup {line}
  <1>1. /\ TypeOK /\ InHand /\ SyncedIsStored /\ journal \in Seq(Lines(journal))
        /\ journal' = Append(journal, line)
    BY DEF SInv
  <1>2. recorded \in Nat /\ recorded \in 0..(recorded' - 1)
    BY <1>1, BoundsAssumption DEF TypeOK
  <1>3. /\ line.sequence = recorded /\ line.synced = FALSE
        /\ DOMAIN line = {"sequence", "previous_event_hash", "synced", "event_hash"}
    BY DEF Line
  <1>4. /\ journal \in Seq(S) /\ line \in S /\ Len(journal) \in Nat
        /\ DOMAIN journal = 1..Len(journal)
    BY <1>1, SeqMonotonic, LenProperties
  <1>5. ChainHolds'
    <2>1. Linked(journal)
      BY <1>1, IntactIsLinked DEF SInv, ChainHolds
    <2>2. Linked(journal')
      BY <1>1, <2>1, ChainGrows
    <2>3. journal' \in Seq(S)
      BY <1>1, <1>4, AppendProperties
    <2>4. Intact(journal')
      BY <2>2, <2>3, IntactIsLinked
    <2>5. QED BY <2>4 DEF ChainHolds, Intact, PrevHash, EventHash
  <1> HIDE DEF line
  <1>6. /\ journal' \in Seq(S) /\ Len(journal') = Len(journal) + 1
        /\ DOMAIN journal' = 1..(Len(journal) + 1)
        /\ \A i \in 1..Len(journal) : journal'[i] = journal[i]
        /\ journal'[Len(journal) + 1] = line
    BY <1>1, <1>4, AppendProperties, LenProperties
  <1>7. journal' \in Seq(Lines(journal'))
    BY <1>6, SequenceOfItsLines
  <1>8. \A i \in 1..Len(journal) : LineType(journal[i]) /\ journal[i].sequence \in 0..(recorded - 1)
    BY <1>1, <1>4 DEF TypeOK, LineType
  <1>9. (\A i \in DOMAIN journal : LineType(journal[i]))'
    <2> SUFFICES ASSUME NEW i \in 1..(Len(journal) + 1)
                 PROVE  LineType(journal[i])'
      BY <1>6
    <2>1. CASE i = Len(journal) + 1
      BY <1>2, <1>3, <1>6, <2>1 DEF LineType
    <2>2. CASE i \in 1..Len(journal)
      <3>1. journal'[i] = journal[i] /\ LineType(journal[i])
            /\ journal[i].sequence \in 0..(recorded' - 1)
        BY <1>1, <1>2, <1>6, <1>8, <2>2
      <3>2. QED BY <3>1 DEF LineType
    <2>3. QED BY <1>4, <2>1, <2>2
  <1>10. \A i, j \in DOMAIN journal' : i < j => journal'[i].sequence < journal'[j].sequence
    <2> SUFFICES ASSUME NEW i \in DOMAIN journal', NEW j \in DOMAIN journal', i < j
                 PROVE  journal'[i].sequence < journal'[j].sequence
      OBVIOUS
    <2>1. i \in 1..Len(journal)
      BY <1>4, <1>6
    <2>2. CASE j \in 1..Len(journal)
      BY <1>1, <1>4, <1>6, <2>1, <2>2 DEF TypeOK
    <2>3. CASE j = Len(journal) + 1
      BY <1>2, <1>3, <1>6, <1>8, <2>1, <2>3
    <2>4. QED BY <1>4, <1>6, <2>2, <2>3
  <1>11. SyncedIsStored'
    BY <1>1, <1>3, <1>4, <1>6 DEF SyncedIsStored
  <1>12. FileOK'
    BY <1>9, <1>10 DEF FileOK
  <1>13. QED BY <1>5, <1>7, <1>11, <1>12 DEF FileRight

\* A beginning of the file is a file, also when the run has gone on.
LEMMA CutFile ==
  ASSUME SInv, NEW n \in 0..Len(journal), journal' = SubSeq(journal, 1, n),
         recorded' \in {recorded, recorded + 1}, UNCHANGED stored
  PROVE  FileRight'
  <1>1. /\ FileOK /\ journal \in Seq(Lines(journal)) /\ SyncedIsStored /\ ChainHolds
        /\ recorded \in Nat
    BY PartsOfTheInvariant, BoundsAssumption DEF FileRight, RestOK
  <1>2. Len(journal) \in Nat /\ DOMAIN journal = 1..Len(journal)
    BY <1>1, LenProperties
  <1>3. Linked(journal)
    BY <1>1, IntactIsLinked DEF ChainHolds
  <1>4. /\ journal' \in Seq(Lines(journal)) /\ Len(journal') = n
        /\ \A i \in 1..n : journal'[i] = journal[i]
        /\ Linked(journal')
    BY <1>1, <1>3, ChainBegins
  <1>5. DOMAIN journal' = 1..n /\ 1..n \subseteq 1..Len(journal)
    BY <1>2, <1>4, LenProperties
  <1>6. FileOK'
    <2>1. ASSUME NEW i \in 1..n PROVE LineType(journal[i])'
      <3>1. journal'[i] = journal[i] /\ LineType(journal[i])
        BY <1>1, <1>2, <1>4, <1>5 DEF FileOK
      <3>2. 0..(recorded - 1) \subseteq 0..(recorded' - 1)
        BY <1>1, NumbersGrow
      <3>3. QED BY <3>1, <3>2 DEF LineType
    <2>2. (\A i, j \in DOMAIN journal : i < j => journal[i].sequence < journal[j].sequence)'
      BY <1>1, <1>2, <1>4, <1>5 DEF FileOK
    <2>3. QED BY <1>5, <2>1, <2>2 DEF FileOK
  <1>7. ChainHolds'
    <2>1. Intact(journal')
      BY <1>4, IntactIsLinked
    <2>2. QED BY <2>1 DEF ChainHolds, Intact, PrevHash, EventHash
  <1>8. SyncedIsStored'
    BY <1>1, <1>2, <1>4, <1>5 DEF SyncedIsStored
  <1>9. journal' \in Seq(Lines(journal'))
    BY <1>4, SequenceOfItsLines
  <1>10. QED BY <1>6, <1>7, <1>8, <1>9 DEF FileRight

\* What a line written behind an open one leaves is a beginning of the file.
LEMMA UngluedIsABeginning ==
  ASSUME journal \in Seq(Lines(journal))
  PROVE  \E n \in 0..Len(journal) : Unglued = SubSeq(journal, 1, n)
  <1>1. /\ Len(journal) \in Nat
        /\ \A i \in 1..Len(journal) : journal[i] \in Lines(journal)
    BY LenProperties, ElementOfSeq
  <1>2. SubSeq(journal, 1, Len(journal)) = journal
    BY SubSeqFull
  <1>3. CASE end # "open"
    <2>1. Unglued = journal
      BY <1>3 DEF Unglued
    <2>2. Len(journal) \in 0..Len(journal)
      BY <1>1
    <2>3. QED BY <1>2, <2>1, <2>2
  <1>4. CASE end = "open" /\ Len(journal) > 0
    <2>1. Len(journal) - 1 \in 0..Len(journal)
      BY <1>1, <1>4
    <2>2. QED BY <1>4, <2>1 DEF Unglued
  <1>5. CASE end = "open" /\ Len(journal) = 0
    <2>1. 1 \in Int /\ 0 - 1 \in Int /\ \A i \in 1..(0 - 1) : journal[i] \in Lines(journal)
      BY <1>1
    <2>2. /\ SubSeq(journal, 1, 0 - 1) \in Seq(Lines(journal))
          /\ Len(SubSeq(journal, 1, 0 - 1)) = 0
      BY <2>1, SubSeqProperties
    <2>3. SubSeq(journal, 1, 0 - 1) = <<>> /\ journal = <<>>
      BY <1>5, <2>2, EmptySeq
    <2>4. 0 \in 0..Len(journal) /\ Unglued = SubSeq(journal, 1, 0)
      BY <1>2, <1>5, <2>3 DEF Unglued
    <2>5. QED BY <2>4
  <1>6. QED BY <1>1, <1>3, <1>4, <1>5

\* Whether an event reaches the file or not, the file is right.
LEMMA FileAfterEvent ==
  ASSUME SInv, pc # "clear", recorded < MaxEvents, recorded' = recorded + 1,
         \/ journal' = Append(journal, Line(recorded, PrevHash(journal)))
         \/ journal' = Unglued
         \/ journal' = journal,
         UNCHANGED stored
  PROVE  FileRight'
  <1>1. journal \in Seq(Lines(journal))
    BY DEF SInv
  <1>2. CASE journal' = Append(journal, Line(recorded, PrevHash(journal)))
    BY <1>2, AppendedFile
  <1>3. CASE \E n \in 0..Len(journal) : journal' = SubSeq(journal, 1, n)
    BY <1>3, CutFile
  <1>4. journal = SubSeq(journal, 1, Len(journal)) /\ Len(journal) \in 0..Len(journal)
    BY <1>1, LenProperties, SubSeqFull
  <1>5. QED BY <1>1, <1>2, <1>3, <1>4, UngluedIsABeginning

\* persist takes the new event in hand, or nothing.
LEMMA PersistStep ==
  ASSUME SInv, NEW mongo_up \in BOOLEAN, Persist(mongo_up)
  PROVE  SInv'
  <1>1. /\ RestOK /\ recorded < MaxEvents /\ pc # "clear" /\ recorded' = recorded + 1
        /\ UNCHANGED <<stored, up, faults, crashes>>
    BY PartsOfTheInvariant DEF Persist, Idle
  <1>2. recorded \in Nat /\ recorded + 1 \in 0..MaxEvents /\ recorded \in 0..(recorded' - 1)
        /\ recorded \in Event
    BY <1>1, BoundsAssumption DEF RestOK, Event
  <1>3. FileRight'
    <2>1. \/ journal' = Append(journal, Line(recorded, PrevHash(journal)))
          \/ journal' = Unglued
          \/ journal' = journal
      BY DEF Persist, Appends
    <2>2. QED BY <1>1, <2>1, FileAfterEvent
  <1>4. /\ pc' \in {"persist", "idle"}
        /\ pc' = "persist" => handed' = {recorded} /\ todo' = {recorded} /\ done' = {}
        /\ pc' = "idle" => handed' = {} /\ todo' = {} /\ done' = {}
    BY DEF Persist, Raises
  <1>5. RestOK'
    <2>1. handed' \subseteq Event /\ todo' \subseteq handed' /\ done' \subseteq handed'
      BY <1>2, <1>4
    <2>2. stored' \subseteq 0..(recorded' - 1)
      BY <1>1, <1>2 DEF RestOK
    <2>3. end' \in End
      BY <1>1 DEF RestOK, Persist, Appends, End
    <2>4. up' \in BOOLEAN /\ faults' \in 0..MaxFaults /\ crashes' \in 0..MaxCrashes
      BY <1>1 DEF RestOK
    <2>5. QED BY <1>1, <1>2, <1>4, <2>1, <2>2, <2>3, <2>4 DEF RestOK
  <1>6. InHand'
    BY <1>1, <1>2, <1>4 DEF InHand
  <1>7. QED BY <1>3, <1>5, <1>6 DEF SInv, FileRight, FileOK, RestOK, TypeOK

\* The process dies in append: the event may be in the file or not.
LEMMA CrashWhileAppendingStep ==
  ASSUME SInv, CrashWhileAppending
  PROVE  SInv'
  <1>1. /\ RestOK /\ recorded < MaxEvents /\ pc # "clear" /\ recorded' = recorded + 1
        /\ pc' = "idle" /\ handed' = {} /\ todo' = {} /\ done' = {}
        /\ crashes < MaxCrashes /\ crashes' = crashes + 1 /\ end' \in End
        /\ UNCHANGED <<stored, up, faults>>
    BY PartsOfTheInvariant DEF CrashWhileAppending, Idle, Dies, Raises, End
  <1>2. /\ recorded' \in 0..MaxEvents /\ crashes' \in 0..MaxCrashes
        /\ 0..(recorded - 1) \subseteq 0..(recorded' - 1)
    BY <1>1, BoundsAssumption DEF RestOK
  <1>3. FileRight'
    <2>1. \/ journal' = Append(journal, Line(recorded, PrevHash(journal)))
          \/ journal' = Unglued
      BY DEF CrashWhileAppending
    <2>2. QED BY <1>1, <2>1, FileAfterEvent
  <1>4. RestOK'
    BY <1>1, <1>2 DEF RestOK
  <1>5. InHand'
    BY <1>1 DEF InHand
  <1>6. QED BY <1>3, <1>4, <1>5 DEF SInv, FileRight, FileOK, RestOK, TypeOK

\* Where a call raises, or the process dies, nothing is left in hand.
LEMMA RaisingStep ==
  ASSUME SInv, Raises, pc # "clear", UNCHANGED <<journal, recorded, end, up>>,
         stored \subseteq stored', stored' \subseteq stored \cup handed,
         faults' \in 0..MaxFaults, crashes' \in 0..MaxCrashes
  PROVE  SInv'
  <1>1. pc' = "idle" /\ handed' = {} /\ todo' = {} /\ done' = {} /\ RestOK /\ InHand
    BY PartsOfTheType DEF Raises, SInv
  <1>2. stored' \subseteq 0..(recorded' - 1)
    BY <1>1 DEF RestOK, InHand
  <1>3. RestOK'
    BY <1>1, <1>2 DEF RestOK
  <1>4. InHand'
    BY <1>1 DEF InHand
  <1>5. QED BY <1>3, <1>4, HandStep

\* An outage or a lost answer is one more fault.
LEMMA FaultsAreBounded ==
  ASSUME TypeOK, CallSucceeds \/ AnswerIsLost \/ CallFails
  PROVE  faults' \in 0..MaxFaults
  BY BoundsAssumption DEF TypeOK, CallSucceeds, AnswerIsLost, CallFails

\* persist's insert.
LEMMA PersistInsertStep ==
  ASSUME SInv, PersistInsert
  PROVE  SInv'
  <1>1. /\ TypeOK /\ RestOK /\ InHand /\ pc = "persist" /\ todo = {recorded - 1}
        /\ todo \subseteq handed
        /\ UNCHANGED <<recorded, journal, end, up, crashes>>
        /\ crashes' \in 0..MaxCrashes
    BY PartsOfTheType DEF SInv, InHand, RestOK, PersistInsert
  <1>2. faults' \in 0..MaxFaults
    BY <1>1, FaultsAreBounded DEF PersistInsert
  <1>3. CASE Raises
    <2>1. stored \subseteq stored' /\ stored' \subseteq stored \cup handed
      BY <1>1, <1>3 DEF PersistInsert, Inserts, Raises
    <2>2. QED BY <1>1, <1>2, <1>3, <2>1, RaisingStep
  <1>4. CASE ~Raises
    <2>1. /\ pc' = "mark_one" /\ done' = todo /\ todo' = {} /\ handed' = handed
          /\ stored' = stored \cup {recorded - 1}
      BY <1>1, <1>4 DEF PersistInsert, Inserts
    <2>2. stored' \subseteq 0..(recorded' - 1)
      BY <1>1, <2>1 DEF RestOK, InHand
    <2>3. RestOK'
      BY <1>1, <1>2, <2>1, <2>2 DEF RestOK
    <2>4. InHand'
      BY <1>1, <2>1 DEF InHand
    <2>5. QED BY <1>1, <2>1, <2>3, <2>4, HandStep
  <1>5. QED BY <1>3, <1>4

\* The recovery starts, whatever the file looks like.
LEMMA RecoverStep ==
  ASSUME SInv, Recover
  PROVE  SInv'
  <1>1. /\ RestOK /\ InHand /\ pc # "clear" /\ pc' = "read"
        /\ UNCHANGED <<recorded, journal, end, stored, up, faults, crashes, handed, todo, done>>
    BY PartsOfTheInvariant DEF Recover, Idle, locals
  <1>2. RestOK'
    BY <1>1 DEF RestOK
  <1>3. InHand'
    BY <1>1 DEF InHand
  <1>4. QED BY <1>1, <1>2, <1>3, HandStep

\* The recovery takes the backlog, numbers of the file, in hand, or raises.
LEMMA ReadBacklogStep ==
  ASSUME SInv, ReadBacklog
  PROVE  SInv'
  <1>1. /\ RestOK /\ FileOK /\ InHand /\ pc = "read"
        /\ UNCHANGED <<recorded, journal, end, stored, up, faults, crashes>>
        /\ faults' \in 0..MaxFaults /\ crashes' \in 0..MaxCrashes
    BY PartsOfTheInvariant DEF ReadBacklog, FileRight, RestOK
  <1>2. CASE Raises
    BY <1>1, <1>2, RaisingStep
  <1>3. CASE ~Raises
    <2>1. pc' = "look" /\ handed' = Unsynced /\ todo' = {} /\ done' = {}
      BY <1>3 DEF ReadBacklog
    <2>2. Unsynced \subseteq 0..(recorded - 1)
      BY <1>1 DEF FileOK, LineType, Unsynced
    <2>3. Unsynced \subseteq Event
      BY <1>1, <2>2, BoundsAssumption DEF RestOK, Event
    <2>4. RestOK'
      BY <1>1, <2>1, <2>3 DEF RestOK
    <2>5. InHand'
      BY <1>1, <2>1, <2>2 DEF InHand
    <2>6. QED BY <1>1, <2>4, <2>5, HandStep
  <1>4. QED BY <1>2, <1>3

\* What is handed to the sync is what MongoDB lacks.
LEMMA LookStep ==
  ASSUME SInv, Look
  PROVE  SInv'
  <1>1. /\ TypeOK /\ RestOK /\ InHand /\ pc = "look"
        /\ UNCHANGED <<recorded, journal, end, stored, up, crashes>>
        /\ crashes' \in 0..MaxCrashes
    BY PartsOfTheType DEF SInv, RestOK, Look
  <1>2. faults' \in 0..MaxFaults
    BY <1>1, FaultsAreBounded DEF Look
  <1>3. CASE Raises
    BY <1>1, <1>2, <1>3, RaisingStep
  <1>4. CASE ~Raises
    <2>1. /\ pc' = "sync" /\ handed' = handed \ stored /\ todo' = handed' /\ done' = {}
      BY <1>1, <1>4 DEF Look, Missing, InHand
    <2>2. RestOK'
      BY <1>1, <1>2, <2>1 DEF RestOK
    <2>3. InHand'
      BY <1>1, <2>1 DEF InHand
    <2>4. QED BY <1>1, <2>2, <2>3, HandStep
  <1>5. QED BY <1>3, <1>4

\* The next event, the least of those to be inserted, is inserted.
LEMMA SyncEventStep ==
  ASSUME SInv, SyncEvent
  PROVE  SInv'
  <1> DEFINE n == Min(todo)
  <1>1. /\ TypeOK /\ RestOK /\ InHand /\ pc = "sync" /\ todo # {} /\ todo \subseteq handed
        /\ done \subseteq handed /\ handed \subseteq Event
        /\ UNCHANGED <<recorded, journal, end, up, crashes>>
        /\ crashes' \in 0..MaxCrashes
    BY PartsOfTheType DEF SInv, RestOK, SyncEvent
  <1>2. n \in todo
    <2>1. todo \in SUBSET Nat
      BY <1>1 DEF Event
    <2>2. QED BY <1>1, <2>1, LeastOfNumbers
  <1> HIDE DEF n
  <1>3. faults' \in 0..MaxFaults
    BY <1>1, FaultsAreBounded DEF SyncEvent
  <1>4. CASE Raises
    <2>1. stored \subseteq stored' /\ stored' \subseteq stored \cup handed
      BY <1>1, <1>2, <1>4 DEF SyncEvent, Inserts, Raises, n
    <2>2. QED BY <1>1, <1>3, <1>4, <2>1, RaisingStep
  <1>5. CASE ~Raises
    <2>1. /\ stored' = stored \cup {n} /\ todo' = todo \ {n}
          /\ done' = IF n \in stored THEN done ELSE done \cup {n}
          /\ pc' = pc /\ handed' = handed
      BY <1>5 DEF SyncEvent, Inserts, n
    <2>2. stored' \subseteq 0..(recorded' - 1)
      BY <1>1, <1>2, <2>1 DEF RestOK, InHand
    <2>3. todo' \subseteq handed' /\ done' \subseteq handed' /\ done' \subseteq done \cup {n}
      BY <1>1, <1>2, <2>1
    <2>4. RestOK'
      BY <1>1, <1>3, <2>1, <2>2, <2>3 DEF RestOK
    <2>5. InHand'
      BY <1>1, <2>1, <2>3 DEF InHand
    <2>6. QED BY <1>1, <2>1, <2>4, <2>5, HandStep
  <1>6. QED BY <1>4, <1>5

\* sync_run returns when nothing is left to be inserted.
LEMMA SyncReturnsStep ==
  ASSUME SInv, SyncReturns
  PROVE  SInv'
  <1>1. /\ TypeOK /\ RestOK /\ InHand /\ pc = "sync" /\ todo = {}
        /\ UNCHANGED <<recorded, journal, end, stored, up, crashes>>
        /\ crashes' \in 0..MaxCrashes
    BY PartsOfTheType DEF SInv, RestOK, SyncReturns
  <1>2. faults' \in 0..MaxFaults
    BY <1>1, FaultsAreBounded DEF SyncReturns, RestOK
  <1>3. CASE Raises
    BY <1>1, <1>2, <1>3, RaisingStep
  <1>4. CASE ~Raises
    <2>1. pc' = "mark_run" /\ UNCHANGED <<handed, todo, done>>
      BY <1>4 DEF SyncReturns, locals
    <2>2. RestOK'
      BY <1>1, <1>2, <2>1 DEF RestOK
    <2>3. InHand'
      BY <1>1, <2>1 DEF InHand
    <2>4. QED BY <1>1, <2>2, <2>3, HandStep
  <1>5. QED BY <1>3, <1>4

\* What is marked is stored, and marking leaves the chain as it is, whole or cut off.
LEMMA MarkedFile ==
  ASSUME SInv, Marking, NEW n \in 0..Len(journal),
         journal' = SubSeq(Marked(done), 1, n), UNCHANGED <<recorded, stored>>
  PROVE  /\ journal' \in Seq(Lines(journal')) /\ FileOK' /\ ChainHolds'
         /\ SyncedIsStored'
  <1> DEFINE marked == Marked(done)
  <1>1. /\ FileOK /\ done \subseteq stored /\ journal \in Seq(Lines(journal))
        /\ SyncedIsStored /\ ChainHolds
    BY PartsOfTheType DEF SInv, InHand, Marking
  <1>2. Len(journal) \in Nat /\ DOMAIN journal = 1..Len(journal)
    BY <1>1, LenProperties
  <1>3. /\ marked \in Seq(Lines(marked)) /\ Len(marked) = Len(journal)
        /\ \A i \in 1..Len(journal) :
              /\ LineType(marked[i])
              /\ marked[i].sequence = journal[i].sequence
              /\ marked[i].previous_event_hash = journal[i].previous_event_hash
              /\ marked[i].event_hash = journal[i].event_hash
              /\ marked[i].synced => journal[i].synced \/ journal[i].sequence \in done
    BY <1>1, <1>2, MarkingKeepsLines DEF FileOK
  <1> HIDE DEF marked
  <1>4. Linked(marked)
    <2>1. Linked(journal)
      BY <1>1, IntactIsLinked DEF ChainHolds
    <2>2. ASSUME NEW i \in 1..Len(journal)
          PROVE  /\ marked[i].previous_event_hash =
                       IF i = 1 THEN <<"GENESIS">> ELSE marked[i - 1].event_hash
                 /\ marked[i].event_hash = EventHash(marked[i])
      <3>1. i # 1 => i - 1 \in 1..Len(journal)
        BY <1>2
      <3>2. EventHash(marked[i]) = EventHash(journal[i])
        BY <1>3 DEF EventHash
      <3>3. QED BY <1>3, <2>1, <3>1, <3>2 DEF Linked
    <2>3. QED BY <1>3, <2>2 DEF Linked
  <1>5. /\ journal' \in Seq(Lines(marked)) /\ Len(journal') = n
        /\ \A i \in 1..n : journal'[i] = marked[i]
        /\ Linked(journal')
    BY <1>3, <1>4, ChainBegins DEF marked
  <1>6. DOMAIN journal' = 1..n /\ 1..n \subseteq 1..Len(journal)
    BY <1>2, <1>5, LenProperties
  <1>7. FileOK'
    <2>1. \A i \in 1..n : LineType(journal'[i]) /\ journal'[i].sequence = journal[i].sequence
      BY <1>3, <1>5, <1>6
    <2>2. (\A i \in DOMAIN journal : LineType(journal[i]))'
      BY <1>6, <2>1 DEF LineType
    <2>3. (\A i, j \in DOMAIN journal : i < j => journal[i].sequence < journal[j].sequence)'
      BY <1>1, <1>2, <1>6, <2>1 DEF FileOK
    <2>4. QED BY <2>2, <2>3 DEF FileOK
  <1>8. ChainHolds'
    <2>1. Intact(journal')
      BY <1>5, IntactIsLinked
    <2>2. QED BY <2>1 DEF ChainHolds, Intact, PrevHash, EventHash
  <1>9. SyncedIsStored'
    <2> SUFFICES ASSUME NEW i \in 1..n, journal'[i].synced
                 PROVE  journal'[i].sequence \in stored'
      BY <1>6 DEF SyncedIsStored
    <2>1. journal'[i] = marked[i] /\ i \in 1..Len(journal)
      BY <1>5, <1>6
    <2>2. journal[i].synced \/ journal[i].sequence \in done
      BY <1>3, <2>1
    <2>3. journal[i].sequence \in stored
      BY <1>1, <1>2, <2>1, <2>2 DEF SyncedIsStored
    <2>4. QED BY <1>3, <2>1, <2>3
  <1>10. QED BY <1>5, <1>7, <1>8, <1>9, SequenceOfItsLines

\* mark_synced rewrites the whole file, or raises.
LEMMA MarkSyncedStep ==
  ASSUME SInv, MarkSynced
  PROVE  SInv'
  <1>1. /\ RestOK /\ InHand /\ Marking /\ pc # "clear" /\ end' \in End
        /\ pc' = "idle" /\ handed' = {} /\ todo' = {} /\ done' = {}
        /\ UNCHANGED <<recorded, stored, up, faults, crashes>>
        /\ FileOK /\ journal \in Seq(Lines(journal))
    BY PartsOfTheInvariant DEF MarkSynced, Marking, FileRight, RestOK, End
  <1>2. RestOK'
    BY <1>1 DEF RestOK
  <1>3. InHand'
    BY <1>1 DEF InHand
  <1>4. CASE UNCHANGED journal
    BY <1>1, <1>2, <1>3, <1>4, HandStep
  <1>5. CASE journal' = Marked(done)
    <2>1. journal' = SubSeq(Marked(done), 1, Len(journal)) /\ Len(journal) \in 0..Len(journal)
      <3>1. Marked(done) \in Seq(Lines(Marked(done))) /\ Len(Marked(done)) = Len(journal)
        BY <1>1, MarkingKeepsLines DEF FileOK
      <3>2. Len(journal) \in Nat
        BY <1>1, LenProperties
      <3>3. QED BY <1>5, <3>1, <3>2, SubSeqFull
    <2>2. FileRight'
      BY <1>1, <2>1, MarkedFile DEF FileRight
    <2>3. QED BY <1>2, <1>3, <2>2 DEF SInv, FileRight, FileOK, RestOK, TypeOK
  <1>6. QED BY <1>4, <1>5 DEF MarkSynced

\* The process dies while it rewrites the file.
LEMMA CrashWhileMarkingStep ==
  ASSUME SInv, CrashWhileMarking
  PROVE  SInv'
  <1>1. /\ RestOK /\ Marking
        /\ pc' = "idle" /\ handed' = {} /\ todo' = {} /\ done' = {}
        /\ crashes < MaxCrashes /\ crashes' = crashes + 1
        /\ UNCHANGED <<recorded, stored, up, faults>>
    BY PartsOfTheInvariant DEF CrashWhileMarking, Dies, Raises
  <1>2. PICK whole \in 0..Len(journal) :
           journal' = SubSeq(Marked(done), 1, whole) /\ end' \in End
    BY DEF CrashWhileMarking
  <1>3. FileRight'
    BY <1>1, <1>2, MarkedFile DEF FileRight
  <1>4. crashes' \in 0..MaxCrashes /\ pc # "clear"
    BY <1>1, BoundsAssumption DEF RestOK, Marking
  <1>5. RestOK'
    BY <1>1, <1>2, <1>4 DEF RestOK
  <1>6. InHand'
    BY <1>1 DEF InHand
  <1>7. QED BY <1>3, <1>5, <1>6 DEF SInv, FileRight, FileOK, RestOK, TypeOK

\* The demo starts over with an empty file.
LEMMA ResetStep ==
  ASSUME SInv, Reset
  PROVE  SInv'
  <1>1. /\ RestOK /\ journal' = <<>> /\ end' = "closed" /\ recorded' = 0
        /\ pc' = "clear" /\ handed' = {} /\ todo' = {} /\ done' = {}
        /\ UNCHANGED <<stored, up, faults, crashes>>
    BY PartsOfTheType DEF SInv, Reset
  <1>2. journal' \in Seq(Lines(journal')) /\ DOMAIN journal' = {}
    BY <1>1, EmptySeq
  <1>3. FileOK' /\ ChainHolds' /\ SyncedIsStored'
    BY <1>2 DEF FileOK, ChainHolds, Intact, SyncedIsStored
  <1>4. RestOK'
    <2>1. end' \in End /\ up' \in BOOLEAN
      BY <1>1 DEF RestOK, End
    <2>2. recorded' \in 0..MaxEvents
      BY <1>1, BoundsAssumption
    <2>3. QED BY <1>1, <2>1, <2>2 DEF RestOK
  <1>5. InHand'
    BY <1>1 DEF InHand
  <1>6. TypeOK'
    BY <1>3, <1>4, PartsOfTheType DEF TypeOK, FileOK, RestOK
  <1>7. QED BY <1>2, <1>3, <1>5, <1>6 DEF SInv

\* MongoDB forgets the run only when the file is empty.
LEMMA ClearStep ==
  ASSUME SInv, Clear
  PROVE  SInv'
  <1>1. /\ TypeOK /\ RestOK /\ InHand /\ pc = "clear" /\ journal = <<>> /\ recorded = 0 /\ handed = {}
        /\ UNCHANGED <<recorded, journal, end, up, crashes, handed, todo, done>>
    BY PartsOfTheType DEF SInv, InHand, Clear, locals
  <1>2. /\ faults' \in 0..MaxFaults
        /\ \/ pc' = "idle" /\ stored' = {}
           \/ pc' = "clear"
    BY <1>1, FaultsAreBounded DEF Clear
  <1>3. RestOK'
    BY <1>1, <1>2 DEF RestOK
  <1>4. InHand'
    BY <1>1, <1>2 DEF InHand, RestOK
  <1>5. FileOK' /\ ChainHolds' /\ journal' \in Seq(Lines(journal'))
    BY <1>1, FileStands
  <1>6. SyncedIsStored'
    BY <1>1 DEF SyncedIsStored
  <1>7. TypeOK'
    BY <1>3, <1>5, PartsOfTheType DEF TypeOK, FileOK, RestOK
  <1>8. QED BY <1>4, <1>5, <1>6, <1>7 DEF SInv

\* The process dies between two steps.
LEMMA CrashStep ==
  ASSUME SInv, Crash
  PROVE  SInv'
  <1>1. /\ RestOK /\ Raises /\ pc # "clear" /\ crashes < MaxCrashes /\ crashes' = crashes + 1
        /\ UNCHANGED <<recorded, journal, end, stored, up, faults>>
    BY PartsOfTheType DEF SInv, Crash, Dies
  <1>2. faults' \in 0..MaxFaults /\ crashes' \in 0..MaxCrashes
    BY <1>1, BoundsAssumption DEF RestOK
  <1>3. QED BY <1>1, <1>2, RaisingStep

\* MongoDB goes down and comes back as it was.
LEMMA OutageStep ==
  ASSUME SInv, GoesDown \/ ComesBack
  PROVE  SInv'
  <1>1. /\ RestOK /\ InHand /\ up' \in BOOLEAN
        /\ UNCHANGED <<recorded, journal, end, stored, crashes, pc, handed, todo, done>>
    BY PartsOfTheType DEF SInv, GoesDown, ComesBack, locals
  <1>2. faults' \in 0..MaxFaults
    <2>1. CASE GoesDown
      <3>1. faults < MaxFaults /\ faults' = faults + 1
        BY <2>1 DEF GoesDown
      <3>2. QED BY <1>1, <3>1, BoundsAssumption DEF RestOK
    <2>2. CASE ComesBack
      BY <1>1, <2>2 DEF ComesBack, RestOK
    <2>3. QED BY <2>1, <2>2
  <1>3. RestOK'
    BY <1>1, <1>2 DEF RestOK
  <1>4. InHand'
    BY <1>1 DEF InHand
  <1>5. QED BY <1>1, <1>3, <1>4, HandStep

-----------------------------------------------------------------------------
(***************************************************************************)
(* The theorems                                                            *)
(***************************************************************************)
\* The inductive invariant holds of an empty file and an empty database.
LEMMA SInvInitially == Init => SInv
  <1> SUFFICES ASSUME Init PROVE SInv
    OBVIOUS
  <1>1. RestOK
    <2>1. end \in End /\ up \in BOOLEAN
      BY DEF Init, End
    <2>2. recorded \in 0..MaxEvents /\ faults \in 0..MaxFaults /\ crashes \in 0..MaxCrashes
      BY BoundsAssumption DEF Init
    <2>3. pc = "idle" /\ stored = {} /\ handed = {} /\ todo = {} /\ done = {}
      BY DEF Init
    <2>4. QED BY <2>1, <2>2, <2>3 DEF RestOK
  <1>2. DOMAIN journal = {} /\ journal \in Seq(Lines(journal))
    BY EmptySeq DEF Init
  <1>3. FileOK /\ ChainHolds /\ SyncedIsStored
    BY <1>2 DEF FileOK, ChainHolds, Intact, SyncedIsStored
  <1>4. InHand
    BY DEF Init, InHand
  <1>5. QED BY <1>1, <1>2, <1>3, <1>4, PartsOfTheType DEF SInv

\* No step of the process, no outage and no crash breaks it.
LEMMA SInvStep == SInv /\ [Next]_vars => SInv'
  <1> SUFFICES ASSUME SInv, [Next]_vars PROVE SInv'
    OBVIOUS
  <1>1. CASE UNCHANGED vars
    <2>1. UNCHANGED <<recorded, journal, end, stored, up, faults, crashes, pc, handed, todo, done>>
      BY <1>1 DEF vars
    <2>2. RestOK' /\ InHand'
      BY <2>1, PartsOfTheType DEF SInv, RestOK, InHand
    <2>3. QED BY <2>1, <2>2, HandStep
  <1>2. ASSUME NEW mongo_up \in BOOLEAN, Persist(mongo_up) PROVE SInv'
    BY <1>2, PersistStep
  <1>3. CASE Working
    BY <1>3, PersistInsertStep, ReadBacklogStep, LookStep, SyncEventStep, SyncReturnsStep, MarkSyncedStep,
       ClearStep
    DEF Working
  <1>4. CASE Recover \/ Reset \/ GoesDown \/ ComesBack \/ Crash
             \/ CrashWhileAppending \/ CrashWhileMarking
    BY <1>4, RecoverStep, ResetStep, OutageStep, CrashStep, CrashWhileAppendingStep,
       CrashWhileMarkingStep
  <1>5. QED BY <1>1, <1>2, <1>3, <1>4 DEF Next

\* What is in hand, the file and the database agree at every step.
THEOREM HandFileAndStoreAgree == Spec => []SInv
  BY SInvInitially, SInvStep, PTL DEF Spec

\* However often the process dies, recovers or starts over: the file holds no
\* number twice and none out of order, and MongoDB no event the run has not
\* computed (append, reset, delete_many).
THEOREM SyncTypeCorrect == Spec => []TypeOK
  <1>1. SInv => TypeOK
    BY DEF SInv
  <1>2. QED BY <1>1, HandFileAndStoreAgree, PTL

\* A line is marked synced only when MongoDB holds its event (mark_synced).
THEOREM MarkedEventsAreStored == Spec => []SyncedIsStored
  <1>1. SInv => SyncedIsStored
    BY DEF SInv
  <1>2. QED BY <1>1, HandFileAndStoreAgree, PTL

\* When sync_run returns, everything it was handed is durable.
THEOREM ReturnedEventsAreStored == Spec => []ReturnedIsDurable
  <1>1. SInv => ReturnedIsDurable
    BY DEF SInv, InHand, ReturnedIsDurable
  <1>2. QED BY <1>1, HandFileAndStoreAgree, PTL

\* Every line that can be read belongs to the chain, after every append, mark,
\* crash and reset: verify_integrity never calls the file broken, although on half
\* a line it raises instead of accepting it.
THEOREM TheChainStaysIntact == Spec => []ChainStaysIntact
  <1>1. SInv => ChainStaysIntact
    BY DEF SInv, ChainHolds, ChainStaysIntact, VerifyIntegrity
  <1>2. QED BY <1>1, HandFileAndStoreAgree, PTL

\* A sync never writes an event before an earlier one it was handed: what it takes
\* next is the least number left, and what is no longer left is stored (sync_run).
THEOREM EventsAreSyncedInOrder == Spec => SyncsInOrder
  <1> DEFINE InOrder == pc = "sync" =>
                \A n \in stored' \ stored : \A m \in handed : m < n => m \in stored
  <1>1. SInv /\ [Next]_vars => [InOrder]_vars
    <2> SUFFICES ASSUME SInv, Next, pc = "sync", NEW n \in stored' \ stored,
                        NEW m \in handed, m < n
                 PROVE  m \in stored
      BY DEF vars
    <2>1. SyncEvent
      BY DEF Next, Working, Persist, Idle, PersistInsert, Recover, ReadBacklog, Look, SyncReturns,
             MarkSynced, Marking, Reset, Clear, GoesDown, ComesBack, Crash, CrashWhileAppending,
             CrashWhileMarking
    <2>2. n = Min(todo)
      BY <2>1 DEF SyncEvent, Inserts
    <2>3. todo \in SUBSET Nat /\ todo # {} /\ handed \subseteq Nat
      BY <2>1 DEF SyncEvent, SInv, TypeOK, Event
    <2>4. n \in todo /\ \A k \in todo : n <= k
      BY <2>2, <2>3, LeastOfNumbers
    <2>5. m \notin todo
      BY <2>3, <2>4
    <2>6. QED BY <2>5 DEF SInv, InHand
  <1>2. QED BY <1>1, HandFileAndStoreAgree, PTL DEF Spec, SyncsInOrder
=============================================================================
