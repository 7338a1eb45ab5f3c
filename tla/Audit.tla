-------------------------------- MODULE Audit --------------------------------
(***************************************************************************)
(* What the service shows of recorded runs: the replay and the explanation *)
(* of a blocked decision (replay_run and why_blocked of                    *)
(* resolve/mongo_store.py), and the demo endpoint that alters a stored     *)
(* event (tamper of app.py), over the journal that Runtime leaves behind.  *)
(*                                                                         *)
(* A request is several queries, and each query is one step: between two   *)
(* of them another request alters an event, and MongoDB goes away.  Whoever *)
(* asks about a run has its run_id from the result of POST /run.  There is *)
(* one viewer and one client of /tamper.                                   *)
(*                                                                         *)
(* SHA-256 is ideal: a payload_hash is the payload it was made of, and an  *)
(* event_hash_or_mac is everything the run had emitted up to that event.   *)
(***************************************************************************)
EXTENDS Runtime

CONSTANTS
    TamperedNumbers,   \* bound: the numbers POST /tamper is asked to alter
    MaxTampered        \* bound: stored events that get altered

\* The payload POST /tamper writes is none that a run journals.
Tampered == "tampered"

ASSUME AuditAssumption ==
    /\ TamperedNumbers \subseteq Nat /\ MaxTampered \in Nat
    /\ Tampered \notin {None} \cup Candidate

VARIABLES
    tampered,    \* MongoDB: <<run, sequence>> of the events that were altered
    tampering,   \* the request to /tamper between its two calls, None if none
    viewing,     \* the viewer's request between two of its queries
    shown        \* the answer just given, None once another request is under way

auditVars == <<tampered, tampering, viewing, shown>>
allVars == <<vars, auditVars>>

-----------------------------------------------------------------------------
(***************************************************************************)
(* What MongoDB returns                                                    *)
(***************************************************************************)
\* A stored event as it is read now.
Document(e) ==
    IF <<e.run, e.sequence>> \in tampered THEN [e EXCEPT !.payload = Tampered] ELSE e

\* list_journal: the events of a run in the order of their numbers.
ListJournal(r) ==
    [i \in 1..Cardinality(StoredOf(r)) |->
        Document(CHOOSE e \in StoredOf(r) :
                    Cardinality({f \in StoredOf(r) : f.sequence < e.sequence}) = i - 1)]

\* What the event was made of; its payload_hash still says so.
Original(e) == emitted[e.run][e.sequence + 1]

\* event_hash_or_mac covers the payload, the number, the type and prev_hash.
EventHash(e) ==
    [i \in 1..e.sequence + 1 |-> <<emitted[e.run][i].event_type, emitted[e.run][i].payload>>]

\* prev is what the call of _journal before returned, whether or not it stored.
PrevHash(e) == SubSeq(EventHash(e), 1, e.sequence)

-----------------------------------------------------------------------------
(***************************************************************************)
(* verify_journal_chain                                                    *)
(***************************************************************************)
Unlinked(events, i) == i > 1 /\ PrevHash(events[i]) # EventHash(events[i - 1])

Altered(events, i) == events[i].payload # Original(events[i]).payload

\* Mutant: only the links are checked.
BrokenLinks(events) == {i \in DOMAIN events : Unlinked(events, i)}

Flaws(events) == {i \in DOMAIN events : Unlinked(events, i) \/ Altered(events, i)}

\* The report: the number of the first event with a flaw, None if intact.
VerifyJournalChain(events) ==
    [intact |-> Flaws(events) = {},
     broken_at_sequence |->
        IF Flaws(events) = {} THEN None
        ELSE events[CHOOSE i \in Flaws(events) : \A j \in Flaws(events) : i <= j].sequence,
     events |-> Len(events)]

-----------------------------------------------------------------------------
(***************************************************************************)
(* POST /tamper/{run_id}: update_one, then verify_journal_chain            *)
(***************************************************************************)
Known(r) == result[r] # None

Overwrite(r, sequence) ==
    /\ tampering = None /\ Known(r) /\ mongo = "up"
    /\ LET matched == \E e \in StoredOf(r) : e.sequence = sequence
       IN /\ tampered' = IF matched THEN tampered \cup {<<r, sequence>>} ELSE tampered
          /\ tampering' = [run |-> r, sequence |-> sequence, matched |-> matched]
    /\ Cardinality(tampered') <= MaxTampered
    /\ shown' = None
    /\ UNCHANGED <<vars, viewing>>

ReportTampering ==
    /\ tampering # None /\ mongo = "up"
    /\ shown' = [view    |-> "tamper",
                 request |-> tampering,
                 chain   |-> VerifyJournalChain(ListJournal(tampering.run))]
    /\ tampering' = None
    /\ UNCHANGED <<vars, tampered, viewing>>

-----------------------------------------------------------------------------
(***************************************************************************)
(* GET /replay/{run_id}: export_run, then verify_journal_chain             *)
(***************************************************************************)
ReplayExport(r) ==
    /\ viewing = None /\ Known(r) /\ mongo = "up"
    /\ viewing' = [view |-> "replay", run |-> r, timeline |-> ListJournal(r)]
    /\ shown' = None
    /\ UNCHANGED <<vars, tampered, tampering>>

\* Mutant: the chain is verified when the timeline is read, not after.
ReplayChainOfTimeline ==
    /\ viewing # None /\ viewing.view = "replay" /\ mongo = "up"
    /\ \E timeline \in {viewing.timeline, ListJournal(viewing.run)} :
          shown' = IF viewing.timeline = <<>> THEN None
                   ELSE [view     |-> "replay",
                         run      |-> viewing.run,
                         timeline |-> ListJournal(viewing.run),
                         chain    |-> VerifyJournalChain(timeline)]
    /\ viewing' = None
    /\ UNCHANGED <<vars, tampered, tampering>>

\* An empty timeline is answered with 404.
ReplayChain ==
    /\ viewing # None /\ viewing.view = "replay" /\ mongo = "up"
    /\ shown' = IF viewing.timeline = <<>> THEN None
                ELSE [view     |-> "replay",
                      run      |-> viewing.run,
                      timeline |-> viewing.timeline,
                      chain    |-> VerifyJournalChain(ListJournal(viewing.run))]
    /\ viewing' = None
    /\ UNCHANGED <<vars, tampered, tampering>>

-----------------------------------------------------------------------------
(***************************************************************************)
(* GET /why-blocked/{run_id}: a blocked verdict, the proposal before it,   *)
(* and the candidate with the fingerprint of that proposal                 *)
(***************************************************************************)
BlockedVerdicts(r) ==
    {e \in StoredOf(r) :
        Document(e).event_type = "CONTRACT_EVALUATED" /\ Document(e).payload = "BLOCKED"}

\* find_one has no order: any of them.
WhyVerdict(r) ==
    /\ viewing = None /\ Known(r) /\ mongo = "up"
    /\ IF BlockedVerdicts(r) = {}
       THEN /\ shown' = [view |-> "why", run |-> r, blocked |-> FALSE]
            /\ viewing' = viewing
       ELSE /\ \E e \in BlockedVerdicts(r) :
                  viewing' = [view |-> "why_prior", run |-> r, at_sequence |-> e.sequence]
            /\ shown' = None
    /\ UNCHANGED <<vars, tampered, tampering>>

ProposalsBefore(r, sequence) ==
    {e \in StoredOf(r) : e.event_type = "AI_PROPOSAL" /\ e.sequence < sequence}

\* Mutant: the first proposal of the run, without the descending sort.
FirstOf(events) == CHOOSE e \in events : \A f \in events : f.sequence >= e.sequence

LastOf(events) == CHOOSE e \in events : \A f \in events : f.sequence <= e.sequence

WhyPrior ==
    /\ viewing # None /\ viewing.view = "why_prior" /\ mongo = "up"
    /\ LET prior == ProposalsBefore(viewing.run, viewing.at_sequence)
       IN viewing' = [view        |-> "why_document",
                      run         |-> viewing.run,
                      at_sequence |-> viewing.at_sequence,
                      candidate   |-> IF prior = {} THEN None
                                      ELSE Document(LastOf(prior)).payload]
    /\ UNCHANGED <<vars, tampered, tampering, shown>>

\* The candidates the run has stored a document of.
CandidateDocuments(r) ==
    {c \in Candidate :
        \/ c = bad[r] /\ <<r, "first_candidate">> \in documents
        \/ c = good[r] /\ <<r, "bounded_candidate">> \in documents}

WhyDocument ==
    /\ viewing # None /\ viewing.view = "why_document" /\ mongo = "up"
    /\ shown' = [view        |-> "why",
                 run         |-> viewing.run,
                 blocked     |-> TRUE,
                 at_sequence |-> viewing.at_sequence,
                 candidate   |-> viewing.candidate,
                 candidate_fingerprint |->
                    IF viewing.candidate \in CandidateDocuments(viewing.run)
                    THEN viewing.candidate ELSE None]
    /\ viewing' = None
    /\ UNCHANGED <<vars, tampered, tampering>>

\* A query raises while MongoDB is down, and the request ends with an error.
ViewFails ==
    /\ viewing # None /\ mongo = "down"
    /\ viewing' = None
    /\ UNCHANGED <<vars, tampered, tampering, shown>>

TamperFails ==
    /\ tampering # None /\ mongo = "down"
    /\ tampering' = None
    /\ UNCHANGED <<vars, tampered, viewing, shown>>

-----------------------------------------------------------------------------
AuditInit ==
    /\ Init
    /\ tampered = {}
    /\ tampering = None
    /\ viewing = None
    /\ shown = None

Requests ==
    \/ \E r \in Run : \E sequence \in TamperedNumbers : Overwrite(r, sequence)
    \/ ReportTampering
    \/ TamperFails
    \/ \E r \in Run : ReplayExport(r) \/ WhyVerdict(r)
    \/ ReplayChain \/ WhyPrior \/ WhyDocument
    \/ ViewFails

AuditNext ==
    \/ Next /\ UNCHANGED auditVars
    \/ Requests

\* Runs are scheduled as in Spec of Runtime; nobody has to ask for a view.
AuditSpec == AuditInit /\ [][AuditNext]_allVars /\ \A r \in Run : WF_vars(RunStep(r))

-----------------------------------------------------------------------------
(***************************************************************************)
(* Properties                                                              *)
(***************************************************************************)
Contiguous(r, timeline) ==
    \E first, last \in 1..Len(emitted[r]) : timeline = SubSeq(emitted[r], first, last)

Replayed == shown # None /\ shown.view = "replay"

\* A replay whose chain is reported intact shows events exactly as the run
\* emitted them, with no gap between them, although the timeline and the chain
\* are two reads and an event may be altered between them (replay_run).  When
\* the result of the run counts no unsynced event, it shows the whole run: the
\* count stands in for the ends of the chain, which the links do not cover.
IntactReplaysAreTrue ==
    Replayed /\ shown.chain.intact =>
        /\ Contiguous(shown.run, shown.timeline)
        /\ result[shown.run].unsynced_events = 0 => shown.timeline = emitted[shown.run]

\* An altered event never goes unnoticed, and the number that is reported is
\* that of an altered event or of one whose predecessor is not stored, never
\* that of an event that is as it was (tamper, verify_journal_chain).
TamperingIsReported ==
    shown # None /\ shown.view = "tamper" /\ shown.request.matched =>
        LET r == shown.request.run
            at == shown.chain.broken_at_sequence
        IN /\ ~shown.chain.intact
           /\ at <= shown.request.sequence
           /\ \/ <<r, at>> \in tampered
              \/ \A e \in StoredOf(r) : e.sequence # at - 1

\* The candidate whose evaluation has this number.
Judged(r, sequence) == emitted[r][sequence].payload

Explained == shown # None /\ shown.view = "why" /\ shown.blocked

\* As long as the journal of a run verifies, the explanation of a blocked
\* decision names the candidate that was judged, or none, and never another
\* proposal of the run; and a fingerprint is only given of a candidate the run
\* proposed (why_blocked).
ExplanationsNameTheJudged ==
    Explained =>
        /\ VerifyJournalChain(ListJournal(shown.run)).intact =>
              shown.candidate \in {None, Judged(shown.run, shown.at_sequence)}
        /\ shown.candidate_fingerprint \in {None, bad[shown.run], good[shown.run]}
=============================================================================
