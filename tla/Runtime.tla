------------------------------ MODULE Runtime ------------------------------
(***************************************************************************)
(* resolve/runtime.py: runs of run(), each on a thread of its own, with    *)
(* one shared MongoDB (resolve/mongo_store.py) that may be unreachable at  *)
(* any call.  A call into mongo_store is one step; what the run does when  *)
(* the call returns, up to the next call, is the next step: between the    *)
(* two, other runs move and MongoDB goes down or comes back.               *)
(*                                                                         *)
(* Abstractions.  A candidate is an id with a region and a traffic share,  *)
(* and its own fingerprint.  The mocks are swappable seams: what the model *)
(* proposes is any member of a set.  run_ids and event_ids are unique, so  *)
(* an insert is never a duplicate.  MongoDB itself is external.            *)
(***************************************************************************)
EXTENDS Naturals, Sequences, FiniteSets

CONSTANTS
    None,
    Run,               \* calls of run()
    Candidate,         \* what the model can propose
    Region,            \* candidate -> region
    TrafficPct,        \* candidate -> percentage of the traffic
    FirstProposals,    \* what propose_first may return
    BoundedProposals,  \* what propose_bounded may return
    UsEligiblePct,     \* us_eligible_pct of the revealed evidence
    Overlapping,       \* TRUE: runs overlap (app.py); FALSE: one after the other
    MaxFaults          \* bound: outages and lost answers

VARIABLES
    pc,              \* run -> the call it is at
    answer,          \* run -> how that call ended: None, "ok" or "failed"
    bad,             \* run -> the first proposal
    good,            \* run -> the bounded proposal
    approval,        \* run -> the candidate approved, None before
    committed,       \* run -> what its PaymentSimulator has applied
    emitted,         \* run -> the events it has created, in order
    result,          \* run -> what run() returned, None before
    mongoState,      \* _mongo_state, shared by all runs: online, unsynced
    journalEvents,   \* MongoDB: collection journal_events
    documents,       \* MongoDB: <<run, step>> for each document of the others
    mongo,           \* MongoDB: "up" or "down"
    faults           \* outages and lost answers so far

local == <<pc, answer, bad, good, approval, committed, emitted, result>>
store == <<journalEvents, documents, mongo, faults>>
vars == <<local, mongoState, store>>

ASSUME ConstantsAssumption ==
    /\ Region \in [Candidate -> STRING]
    /\ TrafficPct \in [Candidate -> Nat]
    /\ FirstProposals \subseteq Candidate
    /\ BoundedProposals \subseteq Candidate
    /\ UsEligiblePct \in Nat \ {0}
    /\ Overlapping \in BOOLEAN
    /\ MaxFaults \in Nat

ASSUME NoneAssumption == None \notin Candidate \cup {"ok", "failed"} /\ IsFiniteSet(Run)

-----------------------------------------------------------------------------
(***************************************************************************)
(* The decision core                                                       *)
(***************************************************************************)
\* Mutant: the eligible share is not compared.
EvaluateRegionOnly(candidate, eligible) ==
    IF Region[candidate] = "GLOBAL" THEN "BLOCKED"
    ELSE IF eligible = 0 THEN "MORE_EVIDENCE_REQUIRED" ELSE "WAITING_HUMAN"

\* mock_contract.evaluate; eligible is 0 when there is no traffic breakdown.
Evaluate(candidate, eligible) ==
    IF Region[candidate] = "GLOBAL" THEN "BLOCKED"
    ELSE IF eligible = 0 THEN "MORE_EVIDENCE_REQUIRED"
    ELSE IF TrafficPct[candidate] > eligible THEN "BLOCKED" ELSE "WAITING_HUMAN"

FirstDisposition(r) == Evaluate(bad[r], 0)

FinalDisposition(r) == Evaluate(good[r], UsEligiblePct)

ApprovalMatches(r) == approval[r] = good[r]

\* apply_failover: only traffic of the US recovers.
Recovers(candidate) == Region[candidate] = "US" /\ TrafficPct[candidate] > 0

-----------------------------------------------------------------------------
(***************************************************************************)
(* The calls of a run, in order                                            *)
(***************************************************************************)
Inserts == {"case", "first_candidate", "bounded_candidate", "approval", "verification"}

EventTypeOf ==
    [incident          |-> "INCIDENT_DETECTED",
     first_proposal    |-> "AI_PROPOSAL",
     first_verdict     |-> "CONTRACT_EVALUATED",
     bounded_proposal  |-> "AI_PROPOSAL",
     bounded_verdict   |-> "CONTRACT_EVALUATED",
     approval_issued   |-> "APPROVAL_ISSUED",
     commit            |-> "ACTION_COMMITTED",
     verified          |-> "VERIFIED"]

Logs == DOMAIN EventTypeOf

Step == {"idle", "connect", "export", "report", "done"} \cup Inserts \cup Logs

Following ==
    [connect           |-> "case",
     case              |-> "incident",
     incident          |-> "first_candidate",
     first_candidate   |-> "first_proposal",
     first_proposal    |-> "first_verdict",
     first_verdict     |-> "bounded_candidate",
     bounded_candidate |-> "bounded_proposal",
     bounded_proposal  |-> "bounded_verdict",
     bounded_verdict   |-> "approval",
     approval          |-> "approval_issued",
     approval_issued   |-> "commit",
     commit            |-> "verification",
     verification      |-> "verified",
     verified          |-> "export",
     export            |-> "report"]

\* Without a human's turn, or when the approval does not match, the run is over.
StepAfter(r) ==
    IF \/ pc[r] = "bounded_verdict" /\ FinalDisposition(r) # "WAITING_HUMAN"
       \/ pc[r] = "approval_issued" /\ ~ApprovalMatches(r)
    THEN "export" ELSE Following[pc[r]]

At(r, step) == pc[r] = step /\ answer[r] = None

-----------------------------------------------------------------------------
(***************************************************************************)
(* MongoDB: a call gets through and is answered, gets through although its *)
(* answer is lost, or does not get through.                                *)
(***************************************************************************)
Goes(r, events, docs) ==
    /\ mongo = "up"
    /\ journalEvents' = journalEvents \cup events
    /\ documents' = documents \cup docs
    /\ mongo' = mongo

CallSucceeds(r, events, docs) ==
    /\ Goes(r, events, docs)
    /\ answer' = [answer EXCEPT ![r] = "ok"]
    /\ faults' = faults

AnswerIsLost(r, events, docs) ==
    /\ faults < MaxFaults
    /\ Goes(r, events, docs)
    /\ answer' = [answer EXCEPT ![r] = "failed"]
    /\ faults' = faults + 1

CallFails(r) ==
    /\ mongo = "down"
    /\ answer' = [answer EXCEPT ![r] = "failed"]
    /\ UNCHANGED store

Calls(r, events, docs) ==
    \/ CallSucceeds(r, events, docs)
    \/ AnswerIsLost(r, events, docs)
    \/ CallFails(r)

GoesDown ==
    /\ mongo = "up"
    /\ faults < MaxFaults
    /\ mongo' = "down"
    /\ faults' = faults + 1
    /\ UNCHANGED <<local, mongoState, journalEvents, documents>>

ComesBack ==
    /\ mongo = "down"
    /\ mongo' = "up"
    /\ UNCHANGED <<local, mongoState, journalEvents, documents, faults>>

-----------------------------------------------------------------------------
(***************************************************************************)
(* The steps of a run                                                      *)
(***************************************************************************)
Start(r) ==
    /\ At(r, "idle")
    /\ Overlapping \/ \A q \in Run : pc[q] \in {"idle", "done"}
    /\ mongoState' = [online |-> TRUE, unsynced |-> 0]
    /\ pc' = [pc EXCEPT ![r] = "connect"]
    /\ UNCHANGED <<answer, bad, good, approval, committed, emitted, result, store>>

\* connect and ensure_indexes, and at the end export_run: nothing is written.
Touch(r) ==
    /\ At(r, "connect") \/ At(r, "export")
    /\ Calls(r, {}, {})
    /\ UNCHANGED <<pc, bad, good, approval, committed, emitted, result, mongoState>>

InsertCase(r) ==
    /\ At(r, "case")
    /\ Calls(r, {}, {<<r, "case">>})
    /\ UNCHANGED <<pc, bad, good, approval, committed, emitted, result, mongoState>>

InsertFirstCandidate(r) ==
    /\ At(r, "first_candidate")
    /\ \E c \in FirstProposals : bad' = [bad EXCEPT ![r] = c]
    /\ Calls(r, {}, {<<r, "first_candidate">>})
    /\ UNCHANGED <<pc, good, approval, committed, emitted, result, mongoState>>

InsertBoundedCandidate(r) ==
    /\ At(r, "bounded_candidate")
    /\ \E c \in BoundedProposals : good' = [good EXCEPT ![r] = c]
    /\ Calls(r, {}, {<<r, "bounded_candidate">>})
    /\ UNCHANGED <<pc, bad, approval, committed, emitted, result, mongoState>>

\* Mutant: the approval is made out for the first proposal.
InsertApprovalOfFirst(r) ==
    /\ At(r, "approval")
    /\ approval' = [approval EXCEPT ![r] = bad[r]]
    /\ Calls(r, {}, {<<r, "approval">>})
    /\ UNCHANGED <<pc, bad, good, committed, emitted, result, mongoState>>

InsertApproval(r) ==
    /\ At(r, "approval")
    /\ approval' = [approval EXCEPT ![r] = good[r]]
    /\ Calls(r, {}, {<<r, "approval">>})
    /\ UNCHANGED <<pc, bad, good, committed, emitted, result, mongoState>>

InsertVerification(r) ==
    /\ At(r, "verification")
    /\ Calls(r, {}, {<<r, "verification">>})
    /\ UNCHANGED <<pc, bad, good, approval, committed, emitted, result, mongoState>>

Payload(r) ==
    CASE pc[r] = "incident" -> "now"
      [] pc[r] = "first_proposal" -> bad[r]
      [] pc[r] = "first_verdict" -> FirstDisposition(r)
      [] pc[r] = "bounded_verdict" -> FinalDisposition(r)
      [] pc[r] \in {"bounded_proposal", "commit"} -> good[r]
      [] pc[r] = "approval_issued" -> approval[r]
      [] pc[r] = "verified" -> IF Recovers(committed[r]) THEN "success" ELSE "failure"

EventWith(r, sequence) ==
    [run |-> r, sequence |-> sequence, event_type |-> EventTypeOf[pc[r]], payload |-> Payload(r)]

\* Mutant: the sequence number is taken from what MongoDB already has.
EventAfterStored(r) ==
    EventWith(r, Cardinality({e \in journalEvents : e.run = r}))

\* seq counts the events of the run, whether or not MongoDB took them.
Event(r) == EventWith(r, Len(emitted[r]))

\* _journal up to the insert; at "commit", apply_failover runs just before it.
Log(r) ==
    /\ pc[r] \in Logs /\ answer[r] = None
    /\ emitted' = [emitted EXCEPT ![r] = Append(@, Event(r))]
    /\ committed' = IF pc[r] = "commit"
                    THEN [committed EXCEPT ![r] = good[r]] ELSE committed
    /\ Calls(r, {Event(r)}, {})
    /\ UNCHANGED <<pc, bad, good, approval, result, mongoState>>

Move(r, step) ==
    /\ pc' = [pc EXCEPT ![r] = step]
    /\ UNCHANGED <<bad, good, approval, committed, emitted, store>>

\* _safe, and the handlers around connect, insert_verification and export_run.
BestEffort(r) ==
    /\ pc[r] \in Inserts \cup {"connect", "export"} /\ answer[r] # None
    /\ mongoState' = IF answer[r] = "failed"
                     THEN [mongoState EXCEPT !.online = FALSE] ELSE mongoState
    /\ answer' = IF pc[r] = "export" THEN answer ELSE [answer EXCEPT ![r] = None]
    /\ Move(r, StepAfter(r))
    /\ UNCHANGED result

\* Mutant: a failed insert is noticed but not counted.
LoggedUncounted(r) ==
    /\ pc[r] \in Logs /\ answer[r] # None
    /\ mongoState' = [mongoState EXCEPT !.online = answer[r] = "ok"]
    /\ answer' = [answer EXCEPT ![r] = None]
    /\ Move(r, StepAfter(r))
    /\ UNCHANGED result

\* Mutant: the exception of a failed insert is not caught.
LoggedOrRaised(r) ==
    /\ pc[r] \in Logs /\ answer[r] = "ok"
    /\ mongoState' = [mongoState EXCEPT !.online = TRUE]
    /\ answer' = [answer EXCEPT ![r] = None]
    /\ Move(r, StepAfter(r))
    /\ UNCHANGED result

\* Mutant: each success takes one off the count.
LoggedSynced(r) ==
    /\ pc[r] \in Logs /\ answer[r] # None
    /\ mongoState' = IF answer[r] = "ok"
                     THEN [online |-> TRUE, unsynced |-> mongoState.unsynced - 1]
                     ELSE [online |-> FALSE, unsynced |-> mongoState.unsynced + 1]
    /\ answer' = [answer EXCEPT ![r] = None]
    /\ Move(r, StepAfter(r))
    /\ UNCHANGED result

\* _journal after the insert.  The fallback, journal.append, raises
\* AttributeError (resolve.journal has no append) and keeps nothing.
Logged(r) ==
    /\ pc[r] \in Logs /\ answer[r] # None
    /\ mongoState' = IF answer[r] = "ok" THEN [mongoState EXCEPT !.online = TRUE]
                     ELSE [online |-> FALSE, unsynced |-> mongoState.unsynced + 1]
    /\ answer' = [answer EXCEPT ![r] = None]
    /\ Move(r, StepAfter(r))
    /\ UNCHANGED result

StoredOf(r) == {e \in journalEvents : e.run = r}

\* run() returns; health() changes nothing.  The count of events is MongoDB's,
\* or the run's own when export_run failed.
Report(r) ==
    /\ pc[r] = "report"
    /\ result' = [result EXCEPT ![r] =
          [first_disposition |-> FirstDisposition(r),
           final_disposition |-> FinalDisposition(r),
           journal_events    |-> IF answer[r] = "ok" THEN Cardinality(StoredOf(r))
                                 ELSE Len(emitted[r]),
           mongo_online      |-> mongoState.online,
           unsynced_events   |-> mongoState.unsynced]]
    /\ answer' = [answer EXCEPT ![r] = None]
    /\ Move(r, "done")
    /\ UNCHANGED mongoState

RunStep(r) ==
    \/ Touch(r)
    \/ InsertCase(r) \/ InsertFirstCandidate(r) \/ InsertBoundedCandidate(r)
    \/ InsertApproval(r) \/ InsertVerification(r)
    \/ Log(r)
    \/ BestEffort(r) \/ Logged(r)
    \/ Report(r)

Init ==
    /\ pc = [r \in Run |-> "idle"]
    /\ answer = [r \in Run |-> None]
    /\ bad = [r \in Run |-> None]
    /\ good = [r \in Run |-> None]
    /\ approval = [r \in Run |-> None]
    /\ committed = [r \in Run |-> None]
    /\ emitted = [r \in Run |-> <<>>]
    /\ result = [r \in Run |-> None]
    /\ mongoState = [online |-> TRUE, unsynced |-> 0]
    /\ journalEvents = {}
    /\ documents = {}
    /\ mongo \in {"up", "down"}
    /\ faults = 0

Next ==
    \/ \E r \in Run : Start(r) \/ RunStep(r)
    \/ GoesDown
    \/ ComesBack

\* A thread that is in the middle of a run is scheduled, and every call into
\* mongo_store returns: the client gives up on a server after 3 seconds.
Spec == Init /\ [][Next]_vars /\ \A r \in Run : WF_vars(RunStep(r))

-----------------------------------------------------------------------------
(***************************************************************************)
(* Properties                                                              *)
(***************************************************************************)
Dispositions == {"BLOCKED", "MORE_EVIDENCE_REQUIRED", "WAITING_HUMAN"}

LastSequence == Cardinality(Logs) - 1

Events ==
    [run : Run, sequence : 0..LastSequence, event_type : {EventTypeOf[step] : step \in Logs},
     payload : {None, "now", "success", "failure"} \cup Candidate \cup Dispositions]

Results ==
    [first_disposition : Dispositions, final_disposition : Dispositions,
     journal_events : Nat, mongo_online : BOOLEAN, unsynced_events : Nat]

\* The type invariant: events are numbered from 0 to the last event of a run.
TypeOK ==
    /\ pc \in [Run -> Step]
    /\ answer \in [Run -> {None, "ok", "failed"}]
    /\ bad \in [Run -> {None} \cup Candidate]
    /\ good \in [Run -> {None} \cup Candidate]
    /\ approval \in [Run -> {None} \cup Candidate]
    /\ committed \in [Run -> {None} \cup Candidate]
    /\ emitted \in [Run -> Seq(Events)]
    /\ result \in [Run -> {None} \cup Results]
    /\ mongoState \in [online : BOOLEAN, unsynced : Nat]
    /\ journalEvents \subseteq Events
    /\ documents \subseteq Run \X Inserts
    /\ mongo \in {"up", "down"}
    /\ faults \in 0..MaxFaults

\* What MongoDB holds of a run is what the run emitted, each event at its own
\* sequence number and none twice, whichever calls failed or lost their answer
\* and whatever other runs wrote in between (_journal, append_journal_event).
JournalIsTruthful ==
    \A e \in journalEvents :
        /\ e.sequence < Len(emitted[e.run])
        /\ e = emitted[e.run][e.sequence + 1]

Position(r, type, candidate) ==
    {i \in 1..Len(emitted[r]) :
        emitted[r][i].event_type = type /\ emitted[r][i].payload = candidate}

\* Whatever the model proposes, what is applied stays within the eligible
\* traffic, is never global, and was approved, as exactly that candidate,
\* before it was committed (run, approval_matches).
CommitsOnlyWhatWasApproved ==
    \A r \in Run : committed[r] # None =>
        /\ Region[committed[r]] # "GLOBAL"
        /\ TrafficPct[committed[r]] <= UsEligiblePct
        /\ \E i \in Position(r, "APPROVAL_ISSUED", committed[r]),
              j \in Position(r, "ACTION_COMMITTED", committed[r]) : i < j

Missing(r) == {i \in 1..Len(emitted[r]) : emitted[r][i] \notin journalEvents}

\* While runs do not overlap, a run that returns has counted every event MongoDB
\* does not hold: its unsynced_events covers them, so that no result without
\* unsynced events stands on an incomplete journal (_journal, run).
ReportsAccountForEveryEvent ==
    \A r \in Run : result[r] # None =>
        Cardinality(Missing(r)) <= result[r].unsynced_events

\* Resolve never blocks on MongoDB: a run that has begun returns, whether
\* MongoDB is up, down for good, or coming and going (_journal, _safe, run).
EveryRunFinishes ==
    \A r \in Run : pc[r] = "connect" ~> result[r] # None

\* MongoDB records decisions and makes none: what is proposed, approved and
\* applied, and that every run closes, is the behaviour of Governance.
Gov == INSTANCE Governance WITH
    Proposals  <- BoundedProposals,
    Admissible <- {c \in Candidate : Evaluate(c, UsEligiblePct) = "WAITING_HUMAN"},
    proposed   <- good,
    approved   <- approval,
    applied    <- committed,
    closed     <- [r \in Run |-> result[r] # None]

ImplementsGovernance == Gov!GovSpec

-----------------------------------------------------------------------------
(***************************************************************************)
(* What the documentation says and the code does not do.                   *)
(***************************************************************************)
\* What the fallback of _journal holds of a run: resolve.journal, the module
\* the import finds, has no append, and the AttributeError is swallowed.
HeldLocally(r) == {}

\* runtime.py: the journal exists so a temporary Mongo outage never loses an event.
NoEventIsLost ==
    \A r \in Run : result[r] # None =>
        \A i \in 1..Len(emitted[r]) :
            emitted[r][i] \in journalEvents \cup HeldLocally(r)

ClaimsDurable(r) ==
    result[r] # None /\ result[r].mongo_online /\ result[r].unsynced_events = 0

\* MONGODB_P0.md: no durable, auditable commit is claimed without its journal receipt.
DurableClaimsHold ==
    \A r \in Run : ClaimsDurable(r) /\ committed[r] # None =>
        Position(r, "ACTION_COMMITTED", committed[r]) \cap Missing(r) = {}
=============================================================================
