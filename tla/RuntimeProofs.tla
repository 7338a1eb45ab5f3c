---------------------------- MODULE RuntimeProofs ----------------------------
(***************************************************************************)
(* Proofs about Runtime: for any set of runs, overlapping or not, any      *)
(* candidates the model comes up with, and any number of outages and lost  *)
(* answers.  What makes the properties inductive is where a run stands:    *)
(* how far it is decides which of its variables are set, to what, and how  *)
(* many events it has emitted.                                             *)
(***************************************************************************)
EXTENDS Runtime, SequenceTheorems, FiniteSetTheorems, TLAPS

-----------------------------------------------------------------------------
(***************************************************************************)
(* The inductive invariant                                                 *)
(***************************************************************************)
\* The order of the steps.
Rank ==
    [idle              |-> 0,
     connect           |-> 1,
     case              |-> 2,
     incident          |-> 3,
     first_candidate   |-> 4,
     first_proposal    |-> 5,
     first_verdict     |-> 6,
     bounded_candidate |-> 7,
     bounded_proposal  |-> 8,
     bounded_verdict   |-> 9,
     approval          |-> 10,
     approval_issued   |-> 11,
     commit            |-> 12,
     verification      |-> 13,
     verified          |-> 14,
     export            |-> 15,
     report            |-> 16,
     done              |-> 17]

\* A run has made the call of a step, or is beyond it.
Passed(r, step) ==
    Rank[step] < Rank[pc[r]] \/ (pc[r] = step /\ answer[r] # None)

\* The call is still to come.
Ahead(r, step) == ~Passed(r, step)

\* The decisions are made; a run that is not to act skips to here.
Closing(r) == pc[r] \in {"export", "report", "done"}

\* Which of a run's variables are set, and to what: an approval is out only for
\* the bounded candidate after a verdict that waited for a human, what is applied
\* is what was approved, and a run that may act does before it closes.
Decided(r) ==
    /\ Passed(r, "first_candidate") => bad[r] \in Candidate
    /\ IF Passed(r, "bounded_candidate") THEN good[r] \in Candidate ELSE good[r] = None
    /\ approval[r] # None => approval[r] = good[r] /\ FinalDisposition(r) = "WAITING_HUMAN"
    /\ committed[r] # None => committed[r] = approval[r]
    /\ Ahead(r, "approval") => approval[r] = None
    /\ Ahead(r, "commit") => committed[r] = None
    /\ Passed(r, "approval") /\ ~Closing(r) => approval[r] # None
    /\ Passed(r, "commit") /\ ~Closing(r) => committed[r] # None
    /\ pc[r] = "approval" => FinalDisposition(r) = "WAITING_HUMAN"
    /\ Closing(r) /\ FinalDisposition(r) = "WAITING_HUMAN" => committed[r] = good[r]
    /\ result[r] # None => pc[r] = "done"

\* The events a run has emitted when it comes to a step.
EventsBefore ==
    [idle              |-> 0,
     connect           |-> 0,
     case              |-> 0,
     incident          |-> 0,
     first_candidate   |-> 1,
     first_proposal    |-> 1,
     first_verdict     |-> 2,
     bounded_candidate |-> 3,
     bounded_proposal  |-> 3,
     bounded_verdict   |-> 4,
     approval          |-> 5,
     approval_issued   |-> 5,
     commit            |-> 6,
     verification      |-> 7,
     verified          |-> 7]

\* What a run has emitted, and where its approval and its commit stand in it.
Emitted(r) ==
    /\ ~Closing(r) =>
          Len(emitted[r]) = EventsBefore[pc[r]]
                            + (IF pc[r] \in Logs /\ answer[r] # None THEN 1 ELSE 0)
    /\ approval[r] # None /\ Len(emitted[r]) >= 6 =>
          /\ emitted[r][6].event_type = "APPROVAL_ISSUED"
          /\ emitted[r][6].payload = approval[r]
    /\ committed[r] # None =>
          /\ Len(emitted[r]) >= 7
          /\ emitted[r][7].event_type = "ACTION_COMMITTED"
          /\ emitted[r][7].payload = committed[r]

RInv ==
    /\ TypeOK
    /\ \A r \in Run : Decided(r) /\ Emitted(r)
    /\ JournalIsTruthful

-----------------------------------------------------------------------------
(***************************************************************************)
(* The steps                                                               *)
(***************************************************************************)
\* A run emits eight events at most.
LEMMA EightEvents == LastSequence = 7
  <1> DEFINE A == {"incident", "first_proposal"}
             B == A \cup {"first_verdict"}
             C == B \cup {"bounded_proposal"}
             D == C \cup {"bounded_verdict"}
             E == D \cup {"approval_issued"}
             F == E \cup {"commit"}
             G == F \cup {"verified"}
  <1>1. IsFiniteSet({"incident"}) /\ Cardinality({"incident"}) = 1
    BY FS_Singleton
  <1>2. IsFiniteSet(A) /\ Cardinality(A) = 2
    <2>1. A = {"incident"} \cup {"first_proposal"} /\ "first_proposal" \notin {"incident"}
      OBVIOUS
    <2>2. QED BY <1>1, <2>1, FS_AddElement
  <1> HIDE DEF A
  <1>3. IsFiniteSet(B) /\ Cardinality(B) = 3
    <2>1. "first_verdict" \notin A
      BY DEF A
    <2>2. QED BY <1>2, <2>1, FS_AddElement
  <1> HIDE DEF B
  <1>4. IsFiniteSet(C) /\ Cardinality(C) = 4
    <2>1. "bounded_proposal" \notin B
      BY DEF A, B
    <2>2. QED BY <1>3, <2>1, FS_AddElement
  <1> HIDE DEF C
  <1>5. IsFiniteSet(D) /\ Cardinality(D) = 5
    <2>1. "bounded_verdict" \notin C
      BY DEF A, B, C
    <2>2. QED BY <1>4, <2>1, FS_AddElement
  <1> HIDE DEF D
  <1>6. IsFiniteSet(E) /\ Cardinality(E) = 6
    <2>1. "approval_issued" \notin D
      BY DEF A, B, C, D
    <2>2. QED BY <1>5, <2>1, FS_AddElement
  <1> HIDE DEF E
  <1>7. IsFiniteSet(F) /\ Cardinality(F) = 7
    <2>1. "commit" \notin E
      BY DEF A, B, C, D, E
    <2>2. QED BY <1>6, <2>1, FS_AddElement
  <1> HIDE DEF F
  <1>8. IsFiniteSet(G) /\ Cardinality(G) = 8
    <2>1. "verified" \notin F
      BY DEF A, B, C, D, E, F
    <2>2. QED BY <1>7, <2>1, FS_AddElement
  <1>9. Logs = G
    BY DEF Logs, EventTypeOf, A, B, C, D, E, F
  <1>10. QED BY <1>8, <1>9 DEF LastSequence

\* A call is answered or fails for the run that made it; what MongoDB has grows
\* by what was inserted, for certain when the call was answered.
LEMMA CallProperties ==
  ASSUME TypeOK, NEW r \in Run, NEW events \in SUBSET Events,
         NEW docs \in SUBSET (Run \X Inserts), Calls(r, events, docs)
  PROVE  /\ answer' \in [Run -> {None, "ok", "failed"}]
         /\ answer'[r] \in {"ok", "failed"} /\ answer'[r] # None
         /\ \A q \in Run : q # r => answer'[q] = answer[q]
         /\ journalEvents \subseteq journalEvents'
         /\ journalEvents' \subseteq journalEvents \cup events
         /\ answer'[r] = "ok" => events \subseteq journalEvents'
         /\ documents' \subseteq Run \X Inserts
         /\ mongo' \in {"up", "down"} /\ faults' \in 0..MaxFaults
  <1>1. CASE CallSucceeds(r, events, docs)
    BY <1>1, NoneAssumption DEF CallSucceeds, Goes, TypeOK
  <1>2. CASE AnswerIsLost(r, events, docs)
    BY <1>2, NoneAssumption, ConstantsAssumption DEF AnswerIsLost, Goes, TypeOK
  <1>3. CASE CallFails(r)
    BY <1>3, NoneAssumption DEF CallFails, store, TypeOK
  <1>4. QED BY <1>1, <1>2, <1>3 DEF Calls

\* Where nothing of a run has changed, it stands where it stood.
LEMMA OthersStand ==
  ASSUME NEW q \in Run, Decided(q), Emitted(q),
         pc'[q] = pc[q], answer'[q] = answer[q], bad'[q] = bad[q], good'[q] = good[q],
         approval'[q] = approval[q], committed'[q] = committed[q],
         emitted'[q] = emitted[q], result'[q] = result[q]
  PROVE  Decided(q)' /\ Emitted(q)'
  <1>1. /\ \A step : Passed(q, step)' <=> Passed(q, step)
        /\ Closing(q)' <=> Closing(q)
        /\ FinalDisposition(q)' = FinalDisposition(q)
    BY DEF Passed, Closing, FinalDisposition, Evaluate
  <1>2. Decided(q)'
    BY <1>1 DEF Decided, Ahead
  <1>3. Emitted(q)'
    BY <1>1 DEF Emitted
  <1>4. QED BY <1>2, <1>3

\* What MongoDB has stays truthful while nothing is emitted or inserted.
LEMMA TruthStands ==
  ASSUME JournalIsTruthful, journalEvents' \subseteq journalEvents, emitted' = emitted
  PROVE  JournalIsTruthful'
  BY DEF JournalIsTruthful

\* A call that inserts no event leaves the journal alone.
LEMMA CallWithoutEvents ==
  ASSUME TypeOK, NEW r \in Run, NEW docs \in SUBSET (Run \X Inserts), Calls(r, {}, docs)
  PROVE  /\ answer' \in [Run -> {None, "ok", "failed"}] /\ answer'[r] # None
         /\ \A q \in Run : q # r => answer'[q] = answer[q]
         /\ journalEvents' = journalEvents
         /\ documents' \subseteq Run \X Inserts
         /\ mongo' \in {"up", "down"} /\ faults' \in 0..MaxFaults
  <1>1. {} \in SUBSET Events
    OBVIOUS
  <1>2. journalEvents' = journalEvents
    BY DEF Calls, CallSucceeds, AnswerIsLost, CallFails, Goes, store
  <1>3. QED BY <1>1, <1>2, CallProperties

\* connect, ensure_indexes and export_run write nothing.
LEMMA TouchStep ==
  ASSUME RInv, NEW r \in Run, Touch(r)
  PROVE  RInv'
  <1>1. /\ TypeOK /\ Decided(r) /\ Emitted(r) /\ JournalIsTruthful
        /\ Calls(r, {}, {}) /\ answer[r] = None
        /\ pc[r] \in {"connect", "export"}
    BY DEF RInv, Touch, At
  <1>2. {} \in SUBSET (Run \X Inserts)
    OBVIOUS
  <1>3. /\ answer' \in [Run -> {None, "ok", "failed"}] /\ answer'[r] # None
        /\ \A q \in Run : q # r => answer'[q] = answer[q]
        /\ journalEvents' = journalEvents
        /\ documents' \subseteq Run \X Inserts
        /\ mongo' \in {"up", "down"} /\ faults' \in 0..MaxFaults
    BY <1>1, <1>2, CallWithoutEvents
  <1>4. UNCHANGED <<pc, bad, good, approval, committed, emitted, result, mongoState>>
    BY DEF Touch
  <1>5. TypeOK'
    BY <1>1, <1>3, <1>4 DEF TypeOK
  <1>6. Decided(r)'
    BY <1>1, <1>3, <1>4, NoneAssumption
    DEF Decided, Ahead, Passed, Closing, FinalDisposition, Rank, TypeOK
  <1>7. Emitted(r)'
    BY <1>1, <1>3, <1>4 DEF Emitted, Decided, Ahead, Passed, Closing, Logs, EventTypeOf, EventsBefore, Rank
  <1>8. \A q \in Run \ {r} : Decided(q)' /\ Emitted(q)'
    BY <1>1, <1>3, <1>4, OthersStand DEF RInv
  <1>9. JournalIsTruthful'
    BY <1>1, <1>3, <1>4, TruthStands
  <1>10. QED BY <1>5, <1>6, <1>7, <1>8, <1>9 DEF RInv

\* The case is inserted.
LEMMA InsertCaseStep ==
  ASSUME RInv, NEW r \in Run, InsertCase(r)
  PROVE  RInv'
  <1>1. /\ TypeOK /\ Decided(r) /\ Emitted(r) /\ JournalIsTruthful
        /\ Calls(r, {}, {<<r, "case">>}) /\ answer[r] = None
        /\ pc[r] = "case"
    BY DEF RInv, InsertCase, At
  <1>2. {<<r, "case">>} \in SUBSET (Run \X Inserts)
    BY DEF Inserts
  <1>3. /\ answer' \in [Run -> {None, "ok", "failed"}] /\ answer'[r] # None
        /\ \A q \in Run : q # r => answer'[q] = answer[q]
        /\ journalEvents' = journalEvents
        /\ documents' \subseteq Run \X Inserts
        /\ mongo' \in {"up", "down"} /\ faults' \in 0..MaxFaults
    BY <1>1, <1>2, CallWithoutEvents
  <1>4. UNCHANGED <<pc, bad, good, approval, committed, emitted, result, mongoState>>
    BY DEF InsertCase
  <1>5. TypeOK'
    BY <1>1, <1>3, <1>4 DEF TypeOK
  <1>6. Decided(r)'
    BY <1>1, <1>3, <1>4, NoneAssumption
    DEF Decided, Ahead, Passed, Closing, FinalDisposition, Rank, TypeOK
  <1>7. Emitted(r)'
    BY <1>1, <1>3, <1>4 DEF Emitted, Decided, Ahead, Passed, Closing, Logs, EventTypeOf, EventsBefore, Rank
  <1>8. \A q \in Run \ {r} : Decided(q)' /\ Emitted(q)'
    BY <1>1, <1>3, <1>4, OthersStand DEF RInv
  <1>9. JournalIsTruthful'
    BY <1>1, <1>3, <1>4, TruthStands
  <1>10. QED BY <1>5, <1>6, <1>7, <1>8, <1>9 DEF RInv

\* The first proposal is made and inserted.
LEMMA InsertFirstCandidateStep ==
  ASSUME RInv, NEW r \in Run, InsertFirstCandidate(r)
  PROVE  RInv'
  <1>1. /\ TypeOK /\ Decided(r) /\ Emitted(r) /\ JournalIsTruthful
        /\ Calls(r, {}, {<<r, "first_candidate">>}) /\ answer[r] = None
        /\ pc[r] = "first_candidate"
    BY DEF RInv, InsertFirstCandidate, At
  <1>2. {<<r, "first_candidate">>} \in SUBSET (Run \X Inserts)
    BY DEF Inserts
  <1>3. /\ answer' \in [Run -> {None, "ok", "failed"}] /\ answer'[r] # None
        /\ \A q \in Run : q # r => answer'[q] = answer[q]
        /\ journalEvents' = journalEvents
        /\ documents' \subseteq Run \X Inserts
        /\ mongo' \in {"up", "down"} /\ faults' \in 0..MaxFaults
    BY <1>1, <1>2, CallWithoutEvents
  <1>4. UNCHANGED <<pc, good, approval, committed, emitted, result, mongoState>>
    BY DEF InsertFirstCandidate
  <1>5. /\ bad' \in [Run -> {None} \cup Candidate] /\ bad'[r] \in Candidate
        /\ \A q \in Run : q # r => bad'[q] = bad[q]
    BY <1>1, ConstantsAssumption DEF InsertFirstCandidate, TypeOK
  <1>6. TypeOK'
    BY <1>1, <1>3, <1>4, <1>5 DEF TypeOK
  <1>7. Decided(r)'
    BY <1>1, <1>3, <1>4, <1>5, NoneAssumption
    DEF Decided, Ahead, Passed, Closing, FinalDisposition, Rank, TypeOK
  <1>8. Emitted(r)'
    BY <1>1, <1>3, <1>4, <1>5 DEF Emitted, Decided, Ahead, Passed, Closing, Logs, EventTypeOf, EventsBefore, Rank
  <1>9. \A q \in Run \ {r} : Decided(q)' /\ Emitted(q)'
    BY <1>1, <1>3, <1>4, <1>5, OthersStand DEF RInv
  <1>10. JournalIsTruthful'
    BY <1>1, <1>3, <1>4, <1>5, TruthStands
  <1>11. QED BY <1>6, <1>7, <1>8, <1>9, <1>10 DEF RInv

\* The bounded proposal is made and inserted.
LEMMA InsertBoundedCandidateStep ==
  ASSUME RInv, NEW r \in Run, InsertBoundedCandidate(r)
  PROVE  RInv'
  <1>1. /\ TypeOK /\ Decided(r) /\ Emitted(r) /\ JournalIsTruthful
        /\ Calls(r, {}, {<<r, "bounded_candidate">>}) /\ answer[r] = None
        /\ pc[r] = "bounded_candidate"
    BY DEF RInv, InsertBoundedCandidate, At
  <1>2. {<<r, "bounded_candidate">>} \in SUBSET (Run \X Inserts)
    BY DEF Inserts
  <1>3. /\ answer' \in [Run -> {None, "ok", "failed"}] /\ answer'[r] # None
        /\ \A q \in Run : q # r => answer'[q] = answer[q]
        /\ journalEvents' = journalEvents
        /\ documents' \subseteq Run \X Inserts
        /\ mongo' \in {"up", "down"} /\ faults' \in 0..MaxFaults
    BY <1>1, <1>2, CallWithoutEvents
  <1>4. UNCHANGED <<pc, bad, approval, committed, emitted, result, mongoState>>
    BY DEF InsertBoundedCandidate
  <1>5. /\ good' \in [Run -> {None} \cup Candidate] /\ good'[r] \in Candidate
        /\ \A q \in Run : q # r => good'[q] = good[q]
    BY <1>1, ConstantsAssumption DEF InsertBoundedCandidate, TypeOK
  <1>6. TypeOK'
    BY <1>1, <1>3, <1>4, <1>5 DEF TypeOK
  <1>7. Decided(r)'
    BY <1>1, <1>3, <1>4, <1>5, NoneAssumption
    DEF Decided, Ahead, Passed, Closing, FinalDisposition, Rank, TypeOK
  <1>8. Emitted(r)'
    BY <1>1, <1>3, <1>4, <1>5 DEF Emitted, Decided, Ahead, Passed, Closing, Logs, EventTypeOf, EventsBefore, Rank
  <1>9. \A q \in Run \ {r} : Decided(q)' /\ Emitted(q)'
    BY <1>1, <1>3, <1>4, <1>5, OthersStand DEF RInv
  <1>10. JournalIsTruthful'
    BY <1>1, <1>3, <1>4, <1>5, TruthStands
  <1>11. QED BY <1>6, <1>7, <1>8, <1>9, <1>10 DEF RInv

\* The approval is made out for the bounded proposal, which waits for a human.
LEMMA InsertApprovalStep ==
  ASSUME RInv, NEW r \in Run, InsertApproval(r)
  PROVE  RInv'
  <1>1. /\ TypeOK /\ Decided(r) /\ Emitted(r) /\ JournalIsTruthful
        /\ Calls(r, {}, {<<r, "approval">>}) /\ answer[r] = None
        /\ pc[r] = "approval"
    BY DEF RInv, InsertApproval, At
  <1>2. {<<r, "approval">>} \in SUBSET (Run \X Inserts)
    BY DEF Inserts
  <1>3. /\ answer' \in [Run -> {None, "ok", "failed"}] /\ answer'[r] # None
        /\ \A q \in Run : q # r => answer'[q] = answer[q]
        /\ journalEvents' = journalEvents
        /\ documents' \subseteq Run \X Inserts
        /\ mongo' \in {"up", "down"} /\ faults' \in 0..MaxFaults
    BY <1>1, <1>2, CallWithoutEvents
  <1>4. UNCHANGED <<pc, bad, good, committed, emitted, result, mongoState>>
    BY DEF InsertApproval
  <1>5. /\ approval' \in [Run -> {None} \cup Candidate] /\ approval'[r] = good[r]
        /\ \A q \in Run : q # r => approval'[q] = approval[q]
    BY <1>1 DEF InsertApproval, TypeOK
  <1>6. TypeOK'
    BY <1>1, <1>3, <1>4, <1>5 DEF TypeOK
  <1>7. Decided(r)'
    BY <1>1, <1>3, <1>4, <1>5, NoneAssumption
    DEF Decided, Ahead, Passed, Closing, FinalDisposition, Rank, TypeOK
  <1>8. Emitted(r)'
    <2>1. Len(emitted[r]) = 5 /\ committed[r] = None
      BY <1>1 DEF Emitted, Decided, Ahead, Passed, Closing, EventsBefore, Rank, Logs, EventTypeOf
    <2>2. QED
      BY <1>1, <1>3, <1>4, <2>1 DEF Emitted, Closing, EventsBefore, Logs, EventTypeOf
  <1>9. \A q \in Run \ {r} : Decided(q)' /\ Emitted(q)'
    BY <1>1, <1>3, <1>4, <1>5, OthersStand DEF RInv
  <1>10. JournalIsTruthful'
    BY <1>1, <1>3, <1>4, <1>5, TruthStands
  <1>11. QED BY <1>6, <1>7, <1>8, <1>9, <1>10 DEF RInv

\* The verification is inserted.
LEMMA InsertVerificationStep ==
  ASSUME RInv, NEW r \in Run, InsertVerification(r)
  PROVE  RInv'
  <1>1. /\ TypeOK /\ Decided(r) /\ Emitted(r) /\ JournalIsTruthful
        /\ Calls(r, {}, {<<r, "verification">>}) /\ answer[r] = None
        /\ pc[r] = "verification"
    BY DEF RInv, InsertVerification, At
  <1>2. {<<r, "verification">>} \in SUBSET (Run \X Inserts)
    BY DEF Inserts
  <1>3. /\ answer' \in [Run -> {None, "ok", "failed"}] /\ answer'[r] # None
        /\ \A q \in Run : q # r => answer'[q] = answer[q]
        /\ journalEvents' = journalEvents
        /\ documents' \subseteq Run \X Inserts
        /\ mongo' \in {"up", "down"} /\ faults' \in 0..MaxFaults
    BY <1>1, <1>2, CallWithoutEvents
  <1>4. UNCHANGED <<pc, bad, good, approval, committed, emitted, result, mongoState>>
    BY DEF InsertVerification
  <1>5. TypeOK'
    BY <1>1, <1>3, <1>4 DEF TypeOK
  <1>6. Decided(r)'
    BY <1>1, <1>3, <1>4, NoneAssumption
    DEF Decided, Ahead, Passed, Closing, FinalDisposition, Rank, TypeOK
  <1>7. Emitted(r)'
    BY <1>1, <1>3, <1>4 DEF Emitted, Decided, Ahead, Passed, Closing, Logs, EventTypeOf, EventsBefore, Rank
  <1>8. \A q \in Run \ {r} : Decided(q)' /\ Emitted(q)'
    BY <1>1, <1>3, <1>4, OthersStand DEF RInv
  <1>9. JournalIsTruthful'
    BY <1>1, <1>3, <1>4, TruthStands
  <1>10. QED BY <1>5, <1>6, <1>7, <1>8, <1>9 DEF RInv

\* What a run emits is an event, numbered with the events before it.
LEMMA EmittedEvents ==
  ASSUME RInv, NEW r \in Run, pc[r] \in Logs, answer[r] = None
  PROVE  /\ Event(r) \in Events
         /\ Event(r).run = r /\ Event(r).sequence = Len(emitted[r])
         /\ Len(emitted[r]) = EventsBefore[pc[r]]
  <1>1. TypeOK /\ Decided(r) /\ Emitted(r)
    BY DEF RInv
  <1>2. pc[r] \in {"incident", "first_proposal", "first_verdict", "bounded_proposal",
                   "bounded_verdict", "approval_issued", "commit", "verified"}
    BY DEF Logs, EventTypeOf
  <1>3. Len(emitted[r]) = EventsBefore[pc[r]] /\ Len(emitted[r]) \in 0..7
    <2>1. ~Closing(r) /\ EventsBefore[pc[r]] \in 0..7
      BY <1>2 DEF Closing, EventsBefore
    <2>2. Len(emitted[r]) = EventsBefore[pc[r]] + 0
      BY <1>1, <2>1 DEF Emitted
    <2>3. QED BY <2>1, <2>2
  <1>4. /\ pc[r] # "incident" => bad[r] \in Candidate
        /\ pc[r] \notin {"incident", "first_proposal", "first_verdict"} => good[r] \in Candidate
        /\ pc[r] = "approval_issued" => approval[r] \in Candidate
    BY <1>1, <1>2, NoneAssumption DEF Decided, Passed, Closing, Rank, TypeOK
  <1>5. FirstDisposition(r) \in Dispositions /\ FinalDisposition(r) \in Dispositions
    BY DEF FirstDisposition, FinalDisposition, Evaluate, Dispositions
  <1>6. Payload(r) \in {None, "now", "success", "failure"} \cup Candidate \cup Dispositions
    BY <1>2, <1>4, <1>5 DEF Payload
  <1>7. EventTypeOf[pc[r]] \in {EventTypeOf[step] : step \in Logs}
    BY <1>2 DEF Logs
  <1>8. QED
    BY <1>3, <1>6, <1>7, EightEvents DEF Event, EventWith, Events

\* What is journaled of a run is its next event, whether or not the call succeeds.
LEMMA LogStep ==
  ASSUME RInv, NEW r \in Run, Log(r)
  PROVE  RInv'
  <1> DEFINE e == Event(r)
             k == Len(emitted[r])
  <1>1. /\ TypeOK /\ Decided(r) /\ Emitted(r) /\ JournalIsTruthful
        /\ Calls(r, {e}, {}) /\ answer[r] = None /\ pc[r] \in Logs
    BY DEF RInv, Log
  <1>2. e \in Events /\ e.run = r /\ e.sequence = k /\ k = EventsBefore[pc[r]]
    BY <1>1, EmittedEvents
  <1> HIDE DEF e
  <1>3. /\ answer' \in [Run -> {None, "ok", "failed"}] /\ answer'[r] # None
        /\ \A q \in Run : q # r => answer'[q] = answer[q]
        /\ journalEvents \subseteq journalEvents'
        /\ journalEvents' \subseteq journalEvents \cup {e}
        /\ documents' \subseteq Run \X Inserts
        /\ mongo' \in {"up", "down"} /\ faults' \in 0..MaxFaults
    <2>1. {e} \in SUBSET Events /\ {} \in SUBSET (Run \X Inserts)
      BY <1>2
    <2>2. QED BY <1>1, <2>1, CallProperties
  <1>4. UNCHANGED <<pc, bad, good, approval, result, mongoState>>
    BY DEF Log
  <1>5. /\ emitted' = [emitted EXCEPT ![r] = Append(@, e)]
        /\ committed' = IF pc[r] = "commit"
                        THEN [committed EXCEPT ![r] = good[r]] ELSE committed
    BY DEF Log, e
  <1>6. /\ emitted'[r] = Append(emitted[r], e) /\ emitted'[r] \in Seq(Events)
        /\ k \in Nat /\ Len(emitted'[r]) = k + 1 /\ emitted'[r][k + 1] = e
        /\ \A i \in 1..k : emitted'[r][i] = emitted[r][i]
    <2>1. emitted[r] \in Seq(Events) /\ emitted'[r] = Append(emitted[r], e)
      BY <1>1, <1>5 DEF TypeOK
    <2>2. QED BY <1>2, <2>1, AppendProperties, LenProperties
  <1>7. \A q \in Run : q # r => emitted'[q] = emitted[q] /\ committed'[q] = committed[q]
    BY <1>1, <1>5 DEF TypeOK
  <1>8. /\ committed' \in [Run -> {None} \cup Candidate]
        /\ pc[r] = "commit" => committed'[r] = good[r] /\ good[r] # None
        /\ pc[r] # "commit" => committed'[r] = committed[r]
    BY <1>1, <1>5, NoneAssumption DEF TypeOK, Decided, Passed, Rank
  <1>9. TypeOK'
    <2>1. emitted' \in [Run -> Seq(Events)]
      BY <1>1, <1>5, <1>6 DEF TypeOK
    <2>2. journalEvents' \subseteq Events
      BY <1>1, <1>2, <1>3 DEF TypeOK
    <2>3. QED BY <1>1, <1>3, <1>4, <1>8, <2>1, <2>2 DEF TypeOK
  <1>10. Decided(r)'
    <2>1. pc[r] = "commit" => approval[r] # None
      BY <1>1 DEF Decided, Passed, Closing, Rank
    <2>2. QED
      BY <1>1, <1>3, <1>4, <1>8, <2>1
      DEF Decided, Ahead, Passed, Closing, FinalDisposition, Rank, Logs, EventTypeOf
  <1>11. Emitted(r)'
    <2>1. ~Closing(r)' => Len(emitted'[r]) = EventsBefore[pc'[r]] + 1
      BY <1>1, <1>2, <1>4, <1>6 DEF Closing
    <2>2. /\ pc[r] = "approval_issued" => k = 5
          /\ pc[r] = "commit" => k = 6
          /\ pc[r] \notin {"approval_issued", "commit"} => k \notin {5, 6}
      BY <1>1, <1>2 DEF EventsBefore, Logs, EventTypeOf
    <2>3. /\ pc[r] = "approval_issued" =>
                e.event_type = "APPROVAL_ISSUED" /\ e.payload = approval[r]
          /\ pc[r] = "commit" => e.event_type = "ACTION_COMMITTED" /\ e.payload = good[r]
      BY DEF e, Event, EventWith, EventTypeOf, Payload
    <2>4. ASSUME approval[r] # None, k + 1 >= 6
          PROVE  emitted'[r][6].event_type = "APPROVAL_ISSUED" /\ emitted'[r][6].payload = approval[r]
      <3>1. CASE k = 5
        BY <1>6, <2>2, <2>3, <3>1
      <3>2. CASE k >= 6
        BY <1>1, <1>6, <2>4, <3>2 DEF Emitted
      <3>3. k = 5 \/ k >= 6
        <4>1. k \in Nat /\ k + 1 >= 6
          BY <1>6, <2>4
        <4> HIDE DEF k
        <4>2. QED BY <4>1
      <3>4. QED BY <3>1, <3>2, <3>3
    <2>5. ASSUME committed'[r] # None
          PROVE  /\ k + 1 >= 7 /\ emitted'[r][7].event_type = "ACTION_COMMITTED"
                 /\ emitted'[r][7].payload = committed'[r]
      <3>1. CASE pc[r] = "commit"
        <4>1. k = 6 /\ emitted'[r][k + 1] = e
          BY <1>6, <2>2, <3>1
        <4>2. emitted'[r][7] = e
          BY <4>1
        <4>3. QED BY <1>8, <2>3, <3>1, <4>1, <4>2
      <3>2. CASE pc[r] # "commit"
        BY <1>1, <1>6, <1>8, <2>5, <3>2 DEF Emitted
      <3>3. QED BY <3>1, <3>2
    <2>6. QED
      BY <1>1, <1>3, <1>4, <1>6, <2>1, <2>4, <2>5 DEF Emitted
  <1>12. \A q \in Run \ {r} : Decided(q)' /\ Emitted(q)'
    BY <1>3, <1>4, <1>7, OthersStand DEF RInv
  <1>13. JournalIsTruthful'
    <2> SUFFICES ASSUME NEW d \in journalEvents'
                 PROVE  d.sequence < Len(emitted'[d.run]) /\ d = emitted'[d.run][d.sequence + 1]
      BY DEF JournalIsTruthful
    <2>1. CASE d = e
      BY <1>2, <1>6, <2>1
    <2>2. CASE d \in journalEvents
      <3>1. d.run \in Run /\ d.sequence \in Nat
        BY <1>1, <2>2, EightEvents DEF TypeOK, Events
      <3>2. d.sequence < Len(emitted[d.run]) /\ d = emitted[d.run][d.sequence + 1]
        BY <1>1, <2>2 DEF JournalIsTruthful
      <3>3. CASE d.run = r
        <4>1. d.sequence + 1 \in 1..k /\ d = emitted[r][d.sequence + 1]
          BY <1>6, <3>1, <3>2, <3>3
        <4>2. d = emitted'[r][d.sequence + 1] /\ d.sequence < k + 1
          BY <1>6, <3>1, <4>1
        <4>3. QED BY <1>6, <3>3, <4>2
      <3>4. CASE d.run # r
        BY <1>7, <3>1, <3>2, <3>4
      <3>5. QED BY <3>3, <3>4
    <2>3. QED BY <1>3, <2>1, <2>2
  <1>14. QED BY <1>9, <1>10, <1>11, <1>12, <1>13 DEF RInv

\* What follows a call that was made is passed over or comes next.
LEMMA MoveKeepsStanding ==
  ASSUME RInv, NEW r \in Run, pc[r] \in Inserts \cup Logs \cup {"connect", "export"},
         answer[r] # None, Move(r, StepAfter(r)), result' = result,
         answer' \in [Run -> {None, "ok", "failed"}],
         pc[r] # "export" => answer'[r] = None,
         \A q \in Run : q # r => answer'[q] = answer[q],
         mongoState' \in [online : BOOLEAN, unsynced : Nat]
  PROVE  RInv'
  <1>1. /\ TypeOK /\ Decided(r) /\ Emitted(r) /\ JournalIsTruthful
        /\ UNCHANGED <<bad, good, approval, committed, emitted, store>>
    BY DEF RInv, Move
  <1>2. /\ UNCHANGED <<journalEvents, documents, mongo, faults>>
    BY <1>1 DEF store
  <1>3. pc[r] \in {"connect", "case", "first_candidate", "bounded_candidate", "approval",
                   "verification", "incident", "first_proposal", "first_verdict",
                   "bounded_proposal", "bounded_verdict", "approval_issued", "commit",
                   "verified", "export"}
    BY DEF Inserts, Logs, EventTypeOf
  <1>4. pc'[r] = StepAfter(r) /\ \A q \in Run : q # r => pc'[q] = pc[q]
    BY <1>1 DEF Move, TypeOK
  <1>5. StepAfter(r) \in Step
    BY <1>3 DEF StepAfter, Following, Step, Inserts, Logs, EventTypeOf
  <1>6. TypeOK'
    <2>1. pc' \in [Run -> Step]
      BY <1>1, <1>5 DEF Move, TypeOK
    <2>2. QED BY <1>1, <1>2, <2>1 DEF TypeOK
  <1>7. pc[r] = "approval_issued" => ApprovalMatches(r)
    BY <1>1 DEF Decided, Passed, Closing, Rank, ApprovalMatches
  <1>8. CASE pc[r] = "bounded_verdict" /\ FinalDisposition(r) # "WAITING_HUMAN"
    <2>1. pc'[r] = "export"
      BY <1>4, <1>8 DEF StepAfter
    <2>2. approval[r] = None /\ committed[r] = None /\ good[r] \in Candidate /\ bad[r] \in Candidate
      BY <1>1, <1>8 DEF Decided, Ahead, Passed, Rank
    <2>3. Decided(r)'
      BY <1>1, <1>8, <2>1, <2>2 DEF Decided, Ahead, Passed, Closing, FinalDisposition, Rank
    <2>4. Emitted(r)'
      BY <1>1, <2>1, <2>2 DEF Emitted, Closing
    <2>5. QED
      BY <1>1, <1>2, <1>4, <1>6, <2>3, <2>4, OthersStand, TruthStands DEF RInv
  <1>9. CASE ~(pc[r] = "bounded_verdict" /\ FinalDisposition(r) # "WAITING_HUMAN")
    <2>1. pc'[r] = Following[pc[r]]
      BY <1>4, <1>7, <1>9 DEF StepAfter
    <2>2. /\ \A step \in {"first_candidate", "bounded_candidate", "approval", "commit"} :
                Passed(r, step)' <=> Passed(r, step)
          /\ pc'[r] = "approval" => pc[r] = "bounded_verdict"
          /\ Closing(r)' <=> pc[r] \in {"verified", "export"}
          /\ Closing(r) => pc[r] = "export"
          /\ pc'[r] # "done" /\ pc[r] # "done"
      BY <1>3, <2>1 DEF Passed, Following, Rank, Closing
    <2>3. pc[r] = "verified" => committed[r] = good[r]
      BY <1>1 DEF Decided, Passed, Closing, Rank
    <2>4. FinalDisposition(r)' = FinalDisposition(r)
      BY <1>1 DEF FinalDisposition
    <2>5. Decided(r)'
      BY <1>1, <1>9, <2>2, <2>3, <2>4 DEF Decided, Ahead, Closing
    <2>6. Emitted(r)'
      <3>1. ASSUME ~Closing(r)'
            PROVE  /\ ~Closing(r) /\ answer'[r] = None
                   /\ EventsBefore[pc'[r]] = EventsBefore[pc[r]]
                                             + (IF pc[r] \in Logs THEN 1 ELSE 0)
        BY <1>3, <2>1, <2>2, <3>1 DEF Closing, Following, EventsBefore, Logs, EventTypeOf
      <3>2. ASSUME ~Closing(r)'
            PROVE  Len(emitted'[r]) = EventsBefore[pc'[r]]
        BY <1>1, <3>1, <3>2 DEF Emitted
      <3>3. EventsBefore[pc'[r]] = EventsBefore[pc'[r]] + 0 \/ Closing(r)'
        BY <1>3, <2>1 DEF Closing, Following, EventsBefore
      <3>4. QED
        BY <1>1, <3>1, <3>2, <3>3 DEF Emitted
    <2>7. QED
      BY <1>1, <1>2, <1>4, <1>6, <2>5, <2>6, OthersStand, TruthStands DEF RInv
  <1>10. QED BY <1>8, <1>9

\* A failed call that is not journaled only clears the flag.
LEMMA BestEffortStep ==
  ASSUME RInv, NEW r \in Run, BestEffort(r)
  PROVE  RInv'
  <1>1. TypeOK
    BY DEF RInv
  <1>2. mongoState' \in [online : BOOLEAN, unsynced : Nat]
    BY <1>1 DEF BestEffort, TypeOK
  <1>3. /\ answer' \in [Run -> {None, "ok", "failed"}]
        /\ pc[r] # "export" => answer'[r] = None
        /\ \A q \in Run : q # r => answer'[q] = answer[q]
    BY <1>1 DEF BestEffort, TypeOK
  <1>4. QED BY <1>2, <1>3, MoveKeepsStanding DEF BestEffort

\* A failed insert of an event is counted.
LEMMA LoggedStep ==
  ASSUME RInv, NEW r \in Run, Logged(r)
  PROVE  RInv'
  <1>1. TypeOK
    BY DEF RInv
  <1>2. mongoState' \in [online : BOOLEAN, unsynced : Nat]
    <2>1. mongoState.unsynced \in Nat /\ mongoState \in [online : BOOLEAN, unsynced : Nat]
      BY <1>1 DEF TypeOK
    <2>2. [mongoState EXCEPT !.online = TRUE] \in [online : BOOLEAN, unsynced : Nat]
      BY <2>1
    <2>3. [online |-> FALSE, unsynced |-> mongoState.unsynced + 1]
             \in [online : BOOLEAN, unsynced : Nat]
      BY <2>1
    <2>4. QED BY <2>2, <2>3 DEF Logged
  <1>3. /\ answer' \in [Run -> {None, "ok", "failed"}]
        /\ answer'[r] = None
        /\ \A q \in Run : q # r => answer'[q] = answer[q]
    BY <1>1 DEF Logged, TypeOK
  <1>4. QED BY <1>2, <1>3, MoveKeepsStanding DEF Logged

\* run() returns.
LEMMA ReportStep ==
  ASSUME RInv, NEW r \in Run, Report(r)
  PROVE  RInv'
  <1>1. /\ TypeOK /\ Decided(r) /\ Emitted(r) /\ JournalIsTruthful
        /\ UNCHANGED <<bad, good, approval, committed, emitted, mongoState,
                       journalEvents, documents, mongo, faults>>
        /\ pc[r] = "report"
    BY DEF RInv, Report, Move, store
  <1>2. /\ pc' \in [Run -> Step] /\ pc'[r] = "done"
        /\ \A q \in Run : q # r => pc'[q] = pc[q]
    BY <1>1 DEF Report, Move, TypeOK, Step
  <1>3. /\ answer' \in [Run -> {None, "ok", "failed"}]
        /\ \A q \in Run : q # r => answer'[q] = answer[q]
    BY <1>1 DEF Report, TypeOK
  <1>4. Cardinality(StoredOf(r)) \in Nat
    <2> DEFINE number == [d \in StoredOf(r) |-> d.sequence]
    <2>1. \A d \in StoredOf(r) : d.sequence \in 0..7 /\ d = emitted[r][d.sequence + 1]
      <3> SUFFICES ASSUME NEW d \in StoredOf(r)
                   PROVE  d.sequence \in 0..7 /\ d = emitted[r][d.sequence + 1]
        OBVIOUS
      <3>1. d \in journalEvents /\ d.run = r
        BY DEF StoredOf
      <3>2. d \in Events
        BY <1>1, <3>1 DEF TypeOK
      <3>3. d.sequence \in 0..7
        BY <3>2, EightEvents DEF Events
      <3>4. QED BY <1>1, <3>1, <3>3 DEF JournalIsTruthful
    <2>2. number \in Injection(StoredOf(r), 0..7)
      <3>1. number \in [StoredOf(r) -> 0..7]
        BY <2>1
      <3>2. ASSUME NEW c \in StoredOf(r), NEW d \in StoredOf(r), number[c] = number[d]
            PROVE  c = d
        <4>1. c.sequence = d.sequence
          BY <3>2
        <4> HIDE DEF number
        <4>2. QED BY <2>1, <4>1
      <3>3. DOMAIN number = StoredOf(r)
        OBVIOUS
      <3> HIDE DEF number
      <3>4. QED BY <3>1, <3>2, <3>3 DEF Injection, IsInjective
    <2>3. IsFiniteSet(0..7)
      <3>1. 0 \in Int /\ 7 \in Int
        OBVIOUS
      <3>2. QED BY <3>1, FS_Interval, Zenon
    <2>4. IsFiniteSet(StoredOf(r))
      BY <2>2, <2>3, FS_Injection
    <2>5. QED BY <2>4, FS_CardinalityType
  <1>5. /\ result' \in [Run -> {None} \cup Results]
        /\ \A q \in Run : q # r => result'[q] = result[q]
    <2>1. FirstDisposition(r) \in Dispositions /\ FinalDisposition(r) \in Dispositions
      BY DEF FirstDisposition, FinalDisposition, Evaluate, Dispositions
    <2>2. Len(emitted[r]) \in Nat
      BY <1>1, LenProperties DEF TypeOK
    <2>3. QED
      BY <1>1, <1>4, <2>1, <2>2 DEF Report, TypeOK, Results
  <1>6. TypeOK'
    BY <1>1, <1>2, <1>3, <1>5 DEF TypeOK
  <1>7. Decided(r)'
    BY <1>1, <1>2 DEF Decided, Ahead, Passed, Closing, FinalDisposition, Rank
  <1>8. Emitted(r)'
    BY <1>1, <1>2 DEF Emitted, Closing
  <1>9. QED
    BY <1>1, <1>2, <1>3, <1>5, <1>6, <1>7, <1>8, OthersStand, TruthStands DEF RInv

\* A run begins, and resets the flags.
LEMMA StartStep ==
  ASSUME RInv, NEW r \in Run, Start(r)
  PROVE  RInv'
  <1>1. /\ TypeOK /\ Decided(r) /\ Emitted(r) /\ JournalIsTruthful
        /\ UNCHANGED <<answer, bad, good, approval, committed, emitted, result,
                       journalEvents, documents, mongo, faults>>
        /\ pc[r] = "idle" /\ answer[r] = None
        /\ mongoState' = [online |-> TRUE, unsynced |-> 0]
    BY DEF RInv, Start, At, store
  <1>2. /\ pc' \in [Run -> Step] /\ pc'[r] = "connect"
        /\ \A q \in Run : q # r => pc'[q] = pc[q]
    BY <1>1 DEF Start, TypeOK, Step
  <1>3. TypeOK'
    BY <1>1, <1>2 DEF TypeOK
  <1>4. Decided(r)'
    BY <1>1, <1>2 DEF Decided, Ahead, Passed, Closing, FinalDisposition, Rank
  <1>5. Emitted(r)'
    BY <1>1, <1>2 DEF Emitted, Closing, EventsBefore, Logs, EventTypeOf
  <1>6. QED
    BY <1>1, <1>2, <1>3, <1>4, <1>5, OthersStand, TruthStands DEF RInv

\* MongoDB goes away and comes back without a trace.
LEMMA OutageStep ==
  ASSUME RInv, GoesDown \/ ComesBack
  PROVE  RInv'
  <1>1. /\ UNCHANGED <<pc, answer, bad, good, approval, committed, emitted, result,
                       mongoState, journalEvents, documents>>
        /\ TypeOK /\ JournalIsTruthful
    BY DEF RInv, GoesDown, ComesBack, local
  <1>2. mongo' \in {"up", "down"} /\ faults' \in 0..MaxFaults
    BY <1>1, ConstantsAssumption DEF GoesDown, ComesBack, TypeOK
  <1>3. TypeOK'
    BY <1>1, <1>2 DEF TypeOK
  <1>4. QED BY <1>1, <1>3, OthersStand, TruthStands DEF RInv

-----------------------------------------------------------------------------
(***************************************************************************)
(* The theorems                                                            *)
(***************************************************************************)
\* The inductive invariant holds before anything has run.
LEMMA RInvInitially == Init => RInv
  <1> SUFFICES ASSUME Init PROVE RInv
    OBVIOUS
  <1>1. TypeOK
    BY ConstantsAssumption, EmptySeq DEF Init, TypeOK, Step
  <1>2. ASSUME NEW r \in Run PROVE Decided(r) /\ Emitted(r)
    BY DEF Init, Decided, Emitted, Ahead, Passed, Closing, Rank, EventsBefore, Logs, EventTypeOf
  <1>3. JournalIsTruthful
    BY DEF Init, JournalIsTruthful
  <1>4. QED BY <1>1, <1>2, <1>3 DEF RInv

\* No step of a run, and nothing that happens to MongoDB, breaks it.
LEMMA RInvStep == RInv /\ [Next]_vars => RInv'
  <1> SUFFICES ASSUME RInv, [Next]_vars PROVE RInv'
    OBVIOUS
  <1>1. CASE UNCHANGED vars
    <2>1. UNCHANGED <<pc, answer, bad, good, approval, committed, emitted, result,
                      mongoState, journalEvents, documents, mongo, faults>>
      BY <1>1 DEF vars, local, store
    <2>2. TypeOK'
      BY <2>1 DEF RInv, TypeOK
    <2>3. QED BY <2>1, <2>2, OthersStand, TruthStands DEF RInv
  <1>2. CASE GoesDown \/ ComesBack
    BY <1>2, OutageStep
  <1>3. ASSUME NEW r \in Run, Start(r) PROVE RInv'
    BY <1>3, StartStep
  <1>4. ASSUME NEW r \in Run, RunStep(r) PROVE RInv'
    BY <1>4, TouchStep, InsertCaseStep, InsertFirstCandidateStep, InsertBoundedCandidateStep,
       InsertApprovalStep, InsertVerificationStep, LogStep, BestEffortStep, LoggedStep, ReportStep
    DEF RunStep
  <1>5. QED BY <1>1, <1>2, <1>3, <1>4 DEF Next

\* Where a run stands always decides what it has decided and emitted.
THEOREM RunsStandWhereTheyStand == Spec => []RInv
  <1>1. Init => RInv
    BY RInvInitially
  <1>2. RInv /\ [Next]_vars => RInv'
    BY RInvStep
  <1>3. QED BY <1>1, <1>2, PTL DEF Spec

\* Every variable keeps its type: a run numbers its events from 0 to 7, counts
\* are never negative, and the store holds nothing but events of the runs.
THEOREM RuntimeTypeCorrect == Spec => []TypeOK
  <1>1. RInv => TypeOK
    BY DEF RInv
  <1>2. QED BY <1>1, RunsStandWhereTheyStand, PTL

\* Any number of runs at once, any outages, any answers lost: what MongoDB holds
\* of a run is what the run emitted, each event under its own sequence number
\* (_journal, append_journal_event).
THEOREM TheJournalIsTruthful == Spec => []JournalIsTruthful
  <1>1. RInv => JournalIsTruthful
    BY DEF RInv
  <1>2. QED BY <1>1, RunsStandWhereTheyStand, PTL

\* Whatever the model proposes: what is applied is within the eligible traffic,
\* not global, and was approved before it was committed (run).
THEOREM OnlyTheApprovedIsCommitted == Spec => []CommitsOnlyWhatWasApproved
  <1>1. RInv => CommitsOnlyWhatWasApproved
    <2> SUFFICES ASSUME RInv, NEW r \in Run, committed[r] # None
                 PROVE  /\ Region[committed[r]] # "GLOBAL"
                        /\ TrafficPct[committed[r]] <= UsEligiblePct
                        /\ \E i \in Position(r, "APPROVAL_ISSUED", committed[r]),
                              j \in Position(r, "ACTION_COMMITTED", committed[r]) : i < j
      BY DEF CommitsOnlyWhatWasApproved
    <2>1. TypeOK /\ Decided(r) /\ Emitted(r)
      BY DEF RInv
    <2>2. /\ committed[r] = approval[r] /\ approval[r] = good[r]
          /\ FinalDisposition(r) = "WAITING_HUMAN" /\ good[r] \in Candidate
      BY <2>1 DEF Decided, TypeOK
    <2>3. Region[good[r]] # "GLOBAL" /\ ~(TrafficPct[good[r]] > UsEligiblePct)
      BY <2>2 DEF FinalDisposition, Evaluate
    <2>4. TrafficPct[good[r]] <= UsEligiblePct
      BY <2>2, <2>3, ConstantsAssumption
    <2>5. /\ Len(emitted[r]) \in Nat /\ Len(emitted[r]) >= 7
          /\ emitted[r][6].event_type = "APPROVAL_ISSUED"
          /\ emitted[r][6].payload = committed[r]
          /\ emitted[r][7].event_type = "ACTION_COMMITTED"
          /\ emitted[r][7].payload = committed[r]
      <3>1. Len(emitted[r]) \in Nat
        BY <2>1, LenProperties DEF TypeOK
      <3>2. QED BY <2>1, <2>2, <3>1 DEF Emitted
    <2>6. /\ 6 \in Position(r, "APPROVAL_ISSUED", committed[r])
          /\ 7 \in Position(r, "ACTION_COMMITTED", committed[r])
      BY <2>5 DEF Position
    <2>7. QED BY <2>2, <2>3, <2>4, <2>6
  <1>2. QED BY <1>1, RunsStandWhereTheyStand, PTL

-----------------------------------------------------------------------------
(***************************************************************************)
(* The count of unsynced events                                            *)
(***************************************************************************)
\* The flags are shared, so the count says something of a run only while no
\* other run resets them.
OneAtATime == ~Overlapping \/ \A q, r \in Run : q = r

Running(r) == pc[r] \notin {"idle", "done"}

\* An insert that failed and is still to be counted.
Uncounted(r) == IF pc[r] \in Logs /\ answer[r] = "failed" THEN 1 ELSE 0

CountInv ==
    /\ \A q, r \in Run : Running(q) /\ Running(r) => q = r
    /\ \A r \in Run : Running(r) =>
          Cardinality(Missing(r)) <= mongoState.unsynced + Uncounted(r)
    /\ ReportsAccountForEveryEvent

\* What a run misses is a number of its events.
LEMMA MissingIsFinite ==
  ASSUME TypeOK, NEW r \in Run
  PROVE  IsFiniteSet(Missing(r)) /\ Cardinality(Missing(r)) \in Nat
  <1>1. Len(emitted[r]) \in Nat
    BY LenProperties DEF TypeOK
  <1>2. IsFiniteSet(1..Len(emitted[r]))
    <2>1. 1 \in Int /\ Len(emitted[r]) \in Int
      BY <1>1
    <2>2. QED BY <2>1, FS_Interval, Zenon
  <1>3. Missing(r) \subseteq 1..Len(emitted[r])
    BY DEF Missing
  <1>4. QED BY <1>2, <1>3, FS_Subset, FS_CardinalityType

\* While a run emits nothing, it misses no more than before.
LEMMA MissingOnlyShrinks ==
  ASSUME TypeOK, NEW r \in Run, emitted'[r] = emitted[r], journalEvents \subseteq journalEvents'
  PROVE  Cardinality(Missing(r)') <= Cardinality(Missing(r)) /\ Cardinality(Missing(r)') \in Nat
  <1>1. Missing(r)' \subseteq Missing(r)
    BY DEF Missing
  <1>2. QED BY <1>1, MissingIsFinite, FS_Subset, FS_CardinalityType

\* What was reported stays accounted for.
LEMMA ReportsStand ==
  ASSUME TypeOK, ReportsAccountForEveryEvent, NEW q \in Run, result'[q] = result[q],
         emitted'[q] = emitted[q], journalEvents \subseteq journalEvents', result'[q] # None
  PROVE  Cardinality(Missing(q)') <= result'[q].unsynced_events
  <1>1. Cardinality(Missing(q)) <= result[q].unsynced_events
    BY DEF ReportsAccountForEveryEvent
  <1>2. result[q].unsynced_events \in Nat
    BY DEF TypeOK, Results
  <1>3. QED BY <1>1, <1>2, MissingOnlyShrinks, MissingIsFinite

\* A step of the one run that is running.
LEMMA CountOfTheRunning ==
  ASSUME RInv, CountInv, NEW r \in Run, Running(r),
         \A q \in Run : q # r => /\ pc'[q] = pc[q] /\ result'[q] = result[q]
                                 /\ emitted'[q] = emitted[q],
         journalEvents \subseteq journalEvents',
         Running(r)' => Cardinality(Missing(r)') <= mongoState'.unsynced + Uncounted(r)',
         result'[r] # None => Cardinality(Missing(r)') <= result'[r].unsynced_events
  PROVE  CountInv'
  <1>1. \A q \in Run : q # r => ~Running(q)'
    BY DEF CountInv, Running
  <1>2. \A q \in Run : result'[q] # None =>
           Cardinality(Missing(q)') <= result'[q].unsynced_events
    BY ReportsStand DEF RInv, CountInv
  <1>3. ReportsAccountForEveryEvent'
    BY <1>2 DEF ReportsAccountForEveryEvent
  <1>4. QED BY <1>1, <1>3 DEF CountInv

\* A call that inserts no event.
LEMMA CountOfDocumentCalls ==
  ASSUME RInv, CountInv, NEW r \in Run,
         Touch(r) \/ InsertCase(r) \/ InsertFirstCandidate(r) \/ InsertBoundedCandidate(r)
         \/ InsertApproval(r) \/ InsertVerification(r)
  PROVE  CountInv'
  <1>1. /\ UNCHANGED <<pc, emitted, result, mongoState>>
        /\ pc[r] \in Inserts \cup {"connect", "export"}
        /\ journalEvents \subseteq journalEvents'
    BY DEF Touch, InsertCase, InsertFirstCandidate, InsertBoundedCandidate, InsertApproval,
           InsertVerification, At, Inserts, Calls, CallSucceeds, AnswerIsLost, CallFails,
           Goes, store
  <1>2. Running(r) /\ pc[r] \notin Logs /\ pc[r] # "done"
    BY <1>1 DEF Running, Inserts, Logs, EventTypeOf
  <1>3. TypeOK /\ result[r] = None
    BY <1>2 DEF RInv, Decided
  <1>4. Cardinality(Missing(r)') <= mongoState'.unsynced + Uncounted(r)'
    <2>1. Cardinality(Missing(r)) <= mongoState.unsynced + 0
      BY <1>2 DEF CountInv, Uncounted
    <2>2. Uncounted(r)' = 0
      BY <1>1, <1>2 DEF Uncounted
    <2>3. Cardinality(Missing(r)) \in Nat /\ mongoState.unsynced \in Nat
      BY <1>3, MissingIsFinite DEF TypeOK
    <2>4. Cardinality(Missing(r)') <= Cardinality(Missing(r)) /\ Cardinality(Missing(r)') \in Nat
      BY <1>1, <1>3, MissingOnlyShrinks
    <2>5. QED BY <1>1, <2>1, <2>2, <2>3, <2>4
  <1>5. QED BY <1>1, <1>2, <1>3, <1>4, CountOfTheRunning

\* One more event is emitted: it is stored, or its failure will be counted.
LEMMA CountOfLog ==
  ASSUME RInv, CountInv, NEW r \in Run, Log(r)
  PROVE  CountInv'
  <1> DEFINE e == Event(r)
             k == Len(emitted[r])
  <1>1. /\ TypeOK /\ pc[r] \in Logs /\ answer[r] = None /\ Calls(r, {e}, {})
        /\ UNCHANGED <<pc, result, mongoState>>
        /\ emitted' = [emitted EXCEPT ![r] = Append(@, e)]
    BY DEF RInv, Log
  <1>2. e \in Events
    BY <1>1, EmittedEvents
  <1> HIDE DEF e
  <1>3. /\ answer'[r] \in {"ok", "failed"}
        /\ journalEvents \subseteq journalEvents'
        /\ answer'[r] = "ok" => e \in journalEvents'
    <2>1. {e} \in SUBSET Events /\ {} \in SUBSET (Run \X Inserts)
      BY <1>2
    <2>2. QED BY <1>1, <2>1, CallProperties
  <1>4. /\ k \in Nat /\ Len(emitted'[r]) = k + 1 /\ emitted'[r][k + 1] = e
        /\ \A i \in 1..k : emitted'[r][i] = emitted[r][i]
    <2>1. emitted[r] \in Seq(Events) /\ emitted'[r] = Append(emitted[r], e)
      BY <1>1 DEF TypeOK
    <2>2. QED BY <1>2, <2>1, AppendProperties, LenProperties
  <1>5. Running(r) /\ pc[r] # "done" /\ result[r] = None
    BY <1>1 DEF RInv, Decided, Running, Logs, EventTypeOf
  <1>6. Cardinality(Missing(r)) <= mongoState.unsynced
    <2>1. Uncounted(r) = 0
      BY <1>1, NoneAssumption DEF Uncounted
    <2>2. Cardinality(Missing(r)) <= mongoState.unsynced + 0
      BY <1>5, <2>1 DEF CountInv
    <2>3. QED BY <1>1, <2>2, MissingIsFinite DEF TypeOK
  <1>7. IsFiniteSet(Missing(r)) /\ Cardinality(Missing(r)) \in Nat /\ mongoState.unsynced \in Nat
    BY <1>1, MissingIsFinite DEF TypeOK
  <1>8. Cardinality(Missing(r)') <= mongoState'.unsynced + Uncounted(r)'
    <2>1. Missing(r)' \subseteq Missing(r) \cup {k + 1}
      <3> SUFFICES ASSUME NEW i \in 1..Len(emitted'[r]), emitted'[r][i] \notin journalEvents',
                          i # k + 1
                   PROVE  i \in Missing(r)
        BY DEF Missing
      <3>1. i \in 1..k
        BY <1>4
      <3>2. QED BY <1>3, <1>4, <3>1 DEF Missing
    <2>2. CASE answer'[r] = "ok"
      <3>1. k + 1 \notin Missing(r)'
        BY <1>3, <1>4, <2>2 DEF Missing
      <3>2. Missing(r)' \subseteq Missing(r)
        BY <2>1, <3>1
      <3>3. Cardinality(Missing(r)') <= Cardinality(Missing(r)) /\ Cardinality(Missing(r)') \in Nat
        BY <1>7, <3>2, FS_Subset, FS_CardinalityType
      <3>4. Uncounted(r)' = 0
        BY <2>2 DEF Uncounted
      <3>5. QED BY <1>1, <1>6, <1>7, <3>3, <3>4
    <2>3. CASE answer'[r] = "failed"
      <3>1. /\ IsFiniteSet(Missing(r) \cup {k + 1})
            /\ Cardinality(Missing(r) \cup {k + 1}) \in Nat
            /\ Cardinality(Missing(r) \cup {k + 1}) <= Cardinality(Missing(r)) + 1
        <4>1. /\ IsFiniteSet(Missing(r) \cup {k + 1})
              /\ Cardinality(Missing(r) \cup {k + 1}) =
                    IF k + 1 \in Missing(r) THEN Cardinality(Missing(r))
                                            ELSE Cardinality(Missing(r)) + 1
          BY <1>7, FS_AddElement
        <4> DEFINE more == Cardinality(Missing(r) \cup {k + 1})
                   less == Cardinality(Missing(r))
        <4>2. more = less \/ more = less + 1
          BY <4>1
        <4>3. less \in Nat
          BY <1>7
        <4> HIDE DEF more, less
        <4>4. more \in Nat /\ more <= less + 1
          BY <4>2, <4>3
        <4>5. QED BY <4>1, <4>4 DEF more, less
      <3>2. /\ Cardinality(Missing(r)') <= Cardinality(Missing(r) \cup {k + 1})
            /\ Cardinality(Missing(r)') \in Nat
        BY <2>1, <3>1, FS_Subset, FS_CardinalityType
      <3>3. Uncounted(r)' = 1
        BY <1>1, <2>3 DEF Uncounted
      <3>4. QED BY <1>1, <1>6, <1>7, <3>1, <3>2, <3>3
    <2>4. QED BY <1>3, <2>2, <2>3
  <1>9. \A q \in Run : q # r => emitted'[q] = emitted[q]
    BY <1>1 DEF TypeOK
  <1>10. QED BY <1>1, <1>3, <1>5, <1>8, <1>9, CountOfTheRunning

\* What follows a call: a failure is counted, and nothing is emitted.
LEMMA CountOfMoves ==
  ASSUME RInv, CountInv, NEW r \in Run, BestEffort(r) \/ Logged(r)
  PROVE  CountInv'
  <1>1. /\ TypeOK /\ UNCHANGED <<emitted, journalEvents, result>>
        /\ pc[r] \in Inserts \cup Logs \cup {"connect", "export"} /\ answer[r] # None
        /\ pc' = [pc EXCEPT ![r] = StepAfter(r)]
    BY DEF RInv, BestEffort, Logged, Move, store
  <1>2. Running(r) /\ pc[r] # "done" /\ result[r] = None
    BY <1>1 DEF RInv, Decided, Running, Inserts, Logs, EventTypeOf
  <1>3. /\ Cardinality(Missing(r)) <= mongoState.unsynced + Uncounted(r)
        /\ Cardinality(Missing(r)) \in Nat /\ mongoState.unsynced \in Nat
        /\ Missing(r)' = Missing(r)
    BY <1>1, <1>2, MissingIsFinite DEF CountInv, TypeOK, Missing
  <1>4. Uncounted(r)' = 0
    <2>1. CASE pc[r] = "export"
      <3>1. pc'[r] = "report"
        BY <1>1, <2>1 DEF StepAfter, Following, TypeOK
      <3>2. QED BY <3>1 DEF Uncounted, Logs, EventTypeOf
    <2>2. CASE pc[r] # "export"
      <3>1. answer'[r] = None
        BY <1>1, <2>2 DEF BestEffort, Logged, TypeOK
      <3>2. QED BY <3>1, NoneAssumption DEF Uncounted
    <2>3. QED BY <2>1, <2>2
  <1>5. mongoState.unsynced + Uncounted(r) <= mongoState'.unsynced
    <2>1. CASE BestEffort(r)
      <3>1. Uncounted(r) = 0
        BY <2>1 DEF BestEffort, Uncounted, Inserts, Logs, EventTypeOf
      <3>2. mongoState'.unsynced = mongoState.unsynced
        BY <1>1, <2>1 DEF BestEffort, TypeOK
      <3>3. QED BY <1>3, <3>1, <3>2
    <2>2. CASE Logged(r)
      <3>1. CASE answer[r] = "ok"
        <4>1. Uncounted(r) = 0
          BY <3>1 DEF Uncounted
        <4>2. mongoState'.unsynced = mongoState.unsynced
          BY <1>1, <2>2, <3>1 DEF Logged, TypeOK
        <4>3. QED BY <1>3, <4>1, <4>2
      <3>2. CASE answer[r] # "ok"
        <4>1. Uncounted(r) \in {0, 1}
          BY DEF Uncounted
        <4>2. mongoState'.unsynced = mongoState.unsynced + 1
          BY <2>2, <3>2 DEF Logged
        <4>3. QED BY <1>3, <4>1, <4>2
      <3>3. QED BY <3>1, <3>2
    <2>3. QED BY <2>1, <2>2
  <1>6. Cardinality(Missing(r)') <= mongoState'.unsynced + Uncounted(r)'
    <2>1. Uncounted(r) \in Nat /\ mongoState'.unsynced \in Nat
      <3>1. RInv'
        BY BestEffortStep, LoggedStep
      <3>2. QED BY <3>1 DEF RInv, TypeOK, Uncounted
    <2>2. QED BY <1>3, <1>4, <1>5, <2>1
  <1>7. \A q \in Run : q # r => pc'[q] = pc[q]
    BY <1>1 DEF TypeOK
  <1>8. QED BY <1>1, <1>2, <1>6, <1>7, CountOfTheRunning

\* The report takes over the count.
LEMMA CountOfReport ==
  ASSUME RInv, CountInv, NEW r \in Run, Report(r)
  PROVE  CountInv'
  <1>1. /\ TypeOK /\ pc[r] = "report" /\ UNCHANGED <<emitted, journalEvents, mongoState>>
        /\ pc' = [pc EXCEPT ![r] = "done"]
    BY DEF RInv, Report, Move, store
  <1>2. Running(r) /\ ~Running(r)'
    BY <1>1 DEF Running, TypeOK
  <1>3. result'[r].unsynced_events = mongoState.unsynced
        /\ \A q \in Run : q # r => result'[q] = result[q]
    BY <1>1 DEF Report, TypeOK
  <1>4. Cardinality(Missing(r)') <= result'[r].unsynced_events
    <2>1. Uncounted(r) = 0
      BY <1>1 DEF Uncounted, Logs, EventTypeOf
    <2>2. Cardinality(Missing(r)) <= mongoState.unsynced + 0
      BY <1>2, <2>1 DEF CountInv
    <2>3. Missing(r)' = Missing(r)
      BY <1>1 DEF Missing
    <2>4. Cardinality(Missing(r)) \in Nat /\ mongoState.unsynced \in Nat
      BY <1>1, MissingIsFinite DEF TypeOK
    <2>5. QED BY <1>3, <2>2, <2>3, <2>4
  <1>5. \A q \in Run : q # r => pc'[q] = pc[q]
    BY <1>1 DEF TypeOK
  <1>6. QED BY <1>1, <1>2, <1>3, <1>4, <1>5, CountOfTheRunning

\* A run begins with nothing emitted and nothing counted, when no other runs.
LEMMA CountOfStart ==
  ASSUME RInv, CountInv, OneAtATime, NEW r \in Run, Start(r)
  PROVE  CountInv'
  <1>1. /\ TypeOK /\ Emitted(r) /\ pc[r] = "idle"
        /\ UNCHANGED <<answer, emitted, journalEvents, result>>
        /\ pc' = [pc EXCEPT ![r] = "connect"]
        /\ mongoState' = [online |-> TRUE, unsynced |-> 0]
    BY DEF RInv, Start, At, store
  <1>2. \A q \in Run : q # r => ~Running(q)'
    <2> SUFFICES ASSUME NEW q \in Run, q # r PROVE ~Running(q)'
      OBVIOUS
    <2>1. ~Overlapping
      BY DEF OneAtATime
    <2>2. pc[q] \in {"idle", "done"}
      BY <2>1 DEF Start
    <2>3. QED BY <1>1, <2>2 DEF Running, TypeOK
  <1>3. Cardinality(Missing(r)') <= mongoState'.unsynced + Uncounted(r)'
    <2>1. Len(emitted[r]) = 0
      BY <1>1 DEF Emitted, Closing, EventsBefore, Logs, EventTypeOf
    <2>2. Missing(r)' = {}
      BY <1>1, <2>1 DEF Missing
    <2>3. Uncounted(r)' = 0
      BY <1>1 DEF Uncounted, Logs, EventTypeOf, TypeOK
    <2>4. QED BY <1>1, <2>2, <2>3, FS_EmptySet
  <1>4. ReportsAccountForEveryEvent'
    BY <1>1 DEF CountInv, ReportsAccountForEveryEvent, Missing
  <1>5. QED BY <1>2, <1>3, <1>4 DEF CountInv

\* The count is right from the start and stays right.
LEMMA CountInvStep == OneAtATime /\ RInv /\ CountInv /\ [Next]_vars => CountInv'
  <1> SUFFICES ASSUME OneAtATime, RInv, CountInv, [Next]_vars PROVE CountInv'
    OBVIOUS
  <1>1. CASE UNCHANGED vars \/ GoesDown \/ ComesBack
    <2>1. UNCHANGED <<pc, answer, emitted, result, mongoState, journalEvents>>
      BY <1>1 DEF vars, local, store, GoesDown, ComesBack
    <2>2. QED
      BY <2>1 DEF CountInv, Running, Uncounted, Missing, ReportsAccountForEveryEvent
  <1>2. ASSUME NEW r \in Run, Start(r) PROVE CountInv'
    BY <1>2, CountOfStart
  <1>3. ASSUME NEW r \in Run, RunStep(r) PROVE CountInv'
    BY <1>3, CountOfDocumentCalls, CountOfLog, CountOfMoves, CountOfReport DEF RunStep
  <1>4. QED BY <1>1, <1>2, <1>3 DEF Next

\* While runs do not overlap, a run that returns has counted every event MongoDB
\* does not hold, however many outages and lost answers there were.  When they do
\* overlap this is false: the flags of one run are reset by the next (_mongo_state).
THEOREM ReportsCountWhatIsMissing ==
  ASSUME OneAtATime
  PROVE  Spec => []ReportsAccountForEveryEvent
  <1>1. Init => CountInv
    BY DEF Init, CountInv, Running, ReportsAccountForEveryEvent
  <1>2. RInv /\ CountInv /\ [Next]_vars => CountInv'
    BY CountInvStep
  <1>3. CountInv => ReportsAccountForEveryEvent
    BY DEF CountInv
  <1>4. QED BY <1>1, <1>2, <1>3, RunsStandWhereTheyStand, PTL DEF Spec

-----------------------------------------------------------------------------
(***************************************************************************)
(* Governance                                                              *)
(***************************************************************************)
\* A bounded proposal is the proposal of Governance.
LEMMA ProposalsPropose ==
  ASSUME RInv, NEW r \in Run, InsertBoundedCandidate(r)
  PROVE  Gov!Propose(r)
  <1>1. good[r] = None
    BY DEF RInv, InsertBoundedCandidate, At, Decided, Passed, Rank
  <1>2. UNCHANGED <<approval, committed, result>>
    BY DEF InsertBoundedCandidate
  <1>3. \E c \in BoundedProposals : good' = [good EXCEPT ![r] = c]
    BY DEF InsertBoundedCandidate
  <1>4. QED BY <1>1, <1>2, <1>3 DEF Gov!Propose

\* An approval is made out for an admissible proposal, and once.
LEMMA ApprovalsApprove ==
  ASSUME RInv, NEW r \in Run, InsertApproval(r)
  PROVE  Gov!HumanApproves(r)
  <1>1. /\ approval[r] = None /\ good[r] \in Candidate
        /\ FinalDisposition(r) = "WAITING_HUMAN"
    BY DEF RInv, InsertApproval, At, Decided, Ahead, Passed, Rank
  <1>2. UNCHANGED <<good, committed, result>>
    BY DEF InsertApproval
  <1>3. approval' = [approval EXCEPT ![r] = good[r]]
    BY DEF InsertApproval
  <1>4. good[r] \in {c \in Candidate : Evaluate(c, UsEligiblePct) = "WAITING_HUMAN"}
    BY <1>1 DEF FinalDisposition
  <1>5. QED BY <1>1, <1>2, <1>3, <1>4 DEF Gov!HumanApproves

\* Of what a run journals only the commit acts: it applies what was approved, once.
LEMMA CommitsApply ==
  ASSUME RInv, NEW r \in Run, Log(r)
  PROVE  Gov!Apply(r) \/ UNCHANGED Gov!govVars
  <1>1. UNCHANGED <<good, approval, result>>
    BY DEF Log
  <1>2. CASE pc[r] = "commit"
    <2>1. approval[r] # None /\ committed[r] = None /\ approval[r] = good[r]
      BY <1>2 DEF RInv, Log, Decided, Ahead, Passed, Closing, Rank
    <2>2. committed' = [committed EXCEPT ![r] = good[r]]
      BY <1>2 DEF Log
    <2>3. QED BY <1>1, <2>1, <2>2 DEF Gov!Apply
  <1>3. CASE pc[r] # "commit"
    <2>1. committed' = committed
      BY <1>3 DEF Log
    <2>2. QED BY <1>1, <2>1 DEF Gov!govVars
  <1>4. QED BY <1>2, <1>3

\* A run returns only after it applied what it was let through with.
LEMMA ReportsClose ==
  ASSUME RInv, NEW r \in Run, Report(r)
  PROVE  Gov!Close(r) \/ UNCHANGED Gov!govVars
  <1> DEFINE closed == [q \in Run |-> result[q] # None]
  <1>1. UNCHANGED <<good, approval, committed>> /\ pc[r] = "report" /\ TypeOK /\ Decided(r)
    BY DEF RInv, Report, Move
  <1>2. result[r] = None /\ good[r] \in Candidate /\ good[r] # None
    BY <1>1, NoneAssumption DEF Decided, Passed, Rank
  <1>3. good[r] \in {c \in Candidate : Evaluate(c, UsEligiblePct) = "WAITING_HUMAN"}
           => committed[r] = good[r]
    BY <1>1 DEF Decided, Closing, FinalDisposition
  <1>4. \A q \in Run : q # r => result'[q] = result[q]
    BY <1>1 DEF Report, TypeOK
  <1>5. CASE result'[r] # None
    <2>1. closed' = [closed EXCEPT ![r] = TRUE]
      BY <1>4, <1>5
    <2>2. ~closed[r]
      BY <1>2
    <2>3. QED BY <1>1, <1>2, <1>3, <2>1, <2>2 DEF Gov!Close
  <1>6. CASE result'[r] = None
    <2>1. closed' = closed
      BY <1>2, <1>4, <1>6
    <2>2. QED BY <1>1, <2>1 DEF Gov!govVars
  <1>7. QED BY <1>5, <1>6

\* Every step of the runtime is a step of Governance or none at all.
LEMMA StepsOfGovernance == RInv /\ [Next]_vars => [Gov!GovNext]_Gov!govVars
  <1> SUFFICES ASSUME RInv, [Next]_vars
               PROVE  Gov!GovNext \/ UNCHANGED Gov!govVars
    OBVIOUS
  <1>1. ASSUME UNCHANGED <<good, approval, committed, result>>
        PROVE  UNCHANGED Gov!govVars
    BY <1>1 DEF Gov!govVars
  <1>2. CASE UNCHANGED vars \/ GoesDown \/ ComesBack
    BY <1>1, <1>2 DEF vars, local, GoesDown, ComesBack
  <1>3. ASSUME NEW r \in Run, Start(r) \/ RunStep(r)
        PROVE  Gov!GovNext \/ UNCHANGED Gov!govVars
    <2>1. CASE \/ Start(r) \/ Touch(r) \/ InsertCase(r) \/ InsertFirstCandidate(r)
               \/ InsertVerification(r) \/ BestEffort(r) \/ Logged(r)
      BY <1>1, <2>1
      DEF Start, Touch, InsertCase, InsertFirstCandidate, InsertVerification, BestEffort,
          Logged, Move
    <2>2. CASE InsertBoundedCandidate(r) \/ InsertApproval(r) \/ Log(r) \/ Report(r)
      BY <2>2, ProposalsPropose, ApprovalsApprove, CommitsApply, ReportsClose
      DEF Gov!GovNext, Gov!GovStep
    <2>3. QED BY <1>3, <2>1, <2>2 DEF RunStep
  <1>4. QED BY <1>2, <1>3 DEF Next

\* Whatever MongoDB does meanwhile, no run acts but as Governance allows: a run
\* approves only what it proposed and the contract lets through, applies only what
\* was approved, once, and closes only after it acted or had nothing to act on.
\* (That a run that began also closes is the part left to TLC.)
THEOREM RunsAreGoverned == Spec => Gov!GovSafety
  <1>1. Init => Gov!GovInit
    BY DEF Init, Gov!GovInit
  <1>2. RInv /\ [Next]_vars => [Gov!GovNext]_Gov!govVars
    BY StepsOfGovernance
  <1>3. QED BY <1>1, <1>2, RunsStandWhereTheyStand, PTL DEF Spec, Gov!GovSafety
=============================================================================
