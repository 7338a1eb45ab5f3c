------------------------------- MODULE Journal -------------------------------
(***************************************************************************)
(* The signed journal of src/resolve/journal.py.  Core signs events, each  *)
(* with its number and the MAC of the event before it; persistence keeps   *)
(* their records and may lose, reorder, repeat, mix or alter them; a       *)
(* replay restores the records and verifies the chain, with or without     *)
(* the separately retained anchor.                                         *)
(*                                                                         *)
(* The caller of create_event is not under src/: it continues any history  *)
(* it signed before, so a restart may fork one.  A replay is given a list  *)
(* nobody changes any more: the model lets nothing else happen during it.  *)
(*                                                                         *)
(* Abstractions.  SHA-256 and HMAC under core's key are collision-free     *)
(* constructors over what they sign.  event_type stands for the timestamp  *)
(* too: both are only signed.  A result's failed_sequence, which repeats   *)
(* what the failing event claims, and limits on text are left out.         *)
(***************************************************************************)
EXTENDS Naturals, FiniteSets, Sequences, SequencesExt

CONSTANTS
    None,
    EventId,
    CaseId,
    RunId,
    EventType,
    Payload,
    MaxChainEvents,  \* _MAX_CHAIN_EVENTS
    MaxSigned,       \* bound: histories core has signed
    MaxAlterations   \* bound: things that happen to the records

VARIABLES
    histories,    \* every sequence of events core has signed, from the first on
    records,      \* the records persistence hands out
    alterations,  \* how often they were tampered with
    check         \* the verification: None, or [anchor, checked, status]

vars == <<histories, records, alterations, check>>

ASSUME JournalAssumption ==
    /\ MaxChainEvents \in Nat
    /\ MaxSigned \in Nat
    /\ MaxAlterations \in Nat

-----------------------------------------------------------------------------
(***************************************************************************)
(* Events                                                                  *)
(***************************************************************************)
GenesisHash == <<"genesis", None>>

PayloadHash(payload) == <<"sha256", payload>>

IntegrityFor(body) == <<"hmac", body>>

Sealed(body) == [body |-> body, event_hash_or_mac |-> IntegrityFor(body)]

CreateEvent(event_id, case_id, run_id, sequence, event_type, payload, prev_hash) ==
    Sealed([event_id     |-> event_id,
            case_id      |-> case_id,
            run_id       |-> run_id,
            sequence     |-> sequence,
            event_type   |-> event_type,
            payload      |-> payload,
            payload_hash |-> PayloadHash(payload),
            prev_hash    |-> prev_hash])

JournalFields ==
    {"event_id", "case_id", "run_id", "sequence", "event_type",
     "payload", "payload_hash", "prev_hash"}

\* journal_event_from_dict raises JournalValidationError otherwise.
Restorable(record) ==
    /\ DOMAIN record.body = JournalFields
    /\ record.body.sequence >= 1

\* Mutant: the MAC is not compared.
VerifyEventHashOnly(event) ==
    IF event.body.payload_hash # PayloadHash(event.body.payload)
    THEN "PAYLOAD_HASH_MISMATCH" ELSE "VALID"

VerifyEvent(event) ==
    IF event.body.payload_hash # PayloadHash(event.body.payload)
    THEN "PAYLOAD_HASH_MISMATCH"
    ELSE IF event.event_hash_or_mac # IntegrityFor(event.body)
    THEN "EVENT_INTEGRITY_INVALID"
    ELSE "VALID"

\* The MAC the event after these must name.
TipHash(events) ==
    IF events = <<>> THEN GenesisHash ELSE events[Len(events)].event_hash_or_mac

-----------------------------------------------------------------------------
(***************************************************************************)
(* Core signs; persistence keeps.                                          *)
(***************************************************************************)
\* Mutant: the first event has number 0.
SignFromZero(history, event_id, case_id, run_id, event_type, payload) ==
    /\ check = None
    /\ Cardinality(histories) <= MaxSigned
    /\ histories' = histories \cup
          {Append(history, CreateEvent(event_id, case_id, run_id, Len(history),
                                       event_type, payload, TipHash(history)))}
    /\ UNCHANGED <<records, alterations, check>>

Sign(history, event_id, case_id, run_id, event_type, payload) ==
    /\ check = None
    /\ Cardinality(histories) <= MaxSigned
    /\ histories' = histories \cup
          {Append(history, CreateEvent(event_id, case_id, run_id, Len(history) + 1,
                                       event_type, payload, TipHash(history)))}
    /\ UNCHANGED <<records, alterations, check>>

\* The records of one history are written and read back as they are.
Export(history) ==
    /\ check = None
    /\ alterations = 0
    /\ records' = history
    /\ UNCHANGED <<histories, alterations, check>>

Tamper(new) ==
    /\ check = None
    /\ alterations < MaxAlterations
    /\ records' = new
    /\ alterations' = alterations + 1
    /\ UNCHANGED <<histories, check>>

Drop(i) == Tamper(RemoveAt(records, i))

\* A record is repeated, or one of another history is slipped in.
Insert(i, event) == Tamper(InsertAt(records, i, event))

\* A field changes, or is lost; the MAC stays.
Alter(i, body) == Tamper([records EXCEPT ![i].body = body])

\* A record gets the MAC of another event.
Reseal(i, event) == Tamper([records EXCEPT ![i].event_hash_or_mac = event.event_hash_or_mac])

SignedEvents == UNION {ToSet(h) : h \in histories}

\* None stands for a payload core never signed.
AlteredBodies(body) ==
    {[body EXCEPT !.payload = None], [body EXCEPT !.payload_hash = PayloadHash(None)]}
    \cup {[body EXCEPT !.run_id = r] : r \in RunId}
    \cup {[body EXCEPT !.sequence = n] : n \in {0, body.sequence + 1}}
    \cup {[body EXCEPT !.prev_hash = e.event_hash_or_mac] : e \in SignedEvents}
    \cup {[f \in JournalFields \ {"event_type"} |-> body[f]]}

-----------------------------------------------------------------------------
(***************************************************************************)
(* Verification                                                            *)
(***************************************************************************)
AnchorOf(history) == [sequence |-> Len(history), hash |-> TipHash(history)]

\* journal_event_from_dict for every record, then verify_chain up to its loop.
\* An exception is the status ERROR.
BeginVerification(anchor) ==
    /\ check = None
    /\ check' = [anchor  |-> anchor,
                 checked |-> 0,
                 status  |-> IF \E i \in DOMAIN records : ~Restorable(records[i])
                             THEN "ERROR"
                             ELSE IF Len(records) > MaxChainEvents THEN "ERROR"
                             ELSE IF records = <<>> THEN "EMPTY_CHAIN"
                             ELSE "CHECKING"]
    /\ UNCHANGED <<histories, records, alterations>>

Checked == SubSeq(records, 1, check.checked)

\* Mutant: the link to the event before is not compared.
FlawUnlinked(event) ==
    IF VerifyEvent(event) # "VALID" THEN VerifyEvent(event)
    ELSE IF event.body.sequence # check.checked + 1 THEN "SEQUENCE_INVALID"
    ELSE IF event.body.run_id # records[1].body.run_id THEN "RUN_MISMATCH"
    ELSE IF event.body.case_id # records[1].body.case_id THEN "CASE_MISMATCH"
    ELSE IF \E e \in ToSet(Checked) : e.body.event_id = event.body.event_id
    THEN "DUPLICATE_EVENT_ID"
    ELSE "VALID"

\* The body of verify_chain's loop.
Flaw(event) ==
    IF VerifyEvent(event) # "VALID" THEN VerifyEvent(event)
    ELSE IF event.body.sequence # check.checked + 1 THEN "SEQUENCE_INVALID"
    ELSE IF event.body.run_id # records[1].body.run_id THEN "RUN_MISMATCH"
    ELSE IF event.body.case_id # records[1].body.case_id THEN "CASE_MISMATCH"
    ELSE IF \E e \in ToSet(Checked) : e.body.event_id = event.body.event_id
    THEN "DUPLICATE_EVENT_ID"
    ELSE IF event.body.prev_hash # TipHash(Checked) THEN "PREV_HASH_MISMATCH"
    ELSE "VALID"

CheckEvent ==
    /\ check # None /\ check.status = "CHECKING"
    /\ check.checked < Len(records)
    /\ LET flaw == Flaw(records[check.checked + 1])
       IN  check' = IF flaw = "VALID" THEN [check EXCEPT !.checked = @ + 1]
                    ELSE [check EXCEPT !.status = flaw]
    /\ UNCHANGED <<histories, records, alterations>>

\* Mutant: an anchored chain may end before its anchor.
VerdictUpToAnchor(anchor) ==
    IF anchor # None /\ Len(records) > anchor.sequence THEN "TERMINAL_SEQUENCE_MISMATCH"
    ELSE "VALID"

\* Mutant: the number of the last event is computed one too high.
VerdictOffByOne(anchor) ==
    IF anchor = None THEN "VALID"
    ELSE IF records[1].body.sequence + Len(records) # anchor.sequence
    THEN "TERMINAL_SEQUENCE_MISMATCH"
    ELSE IF TipHash(records) # anchor.hash THEN "TERMINAL_HASH_MISMATCH"
    ELSE "VALID"

\* What the anchor says once every event has passed.
Verdict(anchor) ==
    IF anchor = None THEN "VALID"
    ELSE IF records[1].body.sequence + Len(records) - 1 # anchor.sequence
    THEN "TERMINAL_SEQUENCE_MISMATCH"
    ELSE IF TipHash(records) # anchor.hash THEN "TERMINAL_HASH_MISMATCH"
    ELSE "VALID"

CheckAnchor ==
    /\ check # None /\ check.status = "CHECKING"
    /\ check.checked = Len(records)
    /\ check' = [check EXCEPT !.status = Verdict(check.anchor)]
    /\ UNCHANGED <<histories, records, alterations>>

Init ==
    /\ histories = {<<>>}
    /\ records = <<>>
    /\ alterations = 0
    /\ check = None

Persistence ==
    \/ \E history \in histories : Export(history)
    \/ \E i \in DOMAIN records : Drop(i)
    \/ \E i \in 1..(Len(records) + 1), e \in SignedEvents : Insert(i, e)
    \/ \E i \in DOMAIN records :
          /\ DOMAIN records[i].body = JournalFields
          /\ \E body \in AlteredBodies(records[i].body) : Alter(i, body)
    \/ \E i \in DOMAIN records, e \in SignedEvents : Reseal(i, e)

Anchors == {None} \cup {AnchorOf(h) : h \in histories \ {<<>>}}

Next ==
    \/ \E h \in histories, id \in EventId, c \in CaseId, r \in RunId,
          t \in EventType, p \in Payload : Sign(h, id, c, r, t, p)
    \/ Persistence
    \/ \E anchor \in Anchors : BeginVerification(anchor)
    \/ CheckEvent
    \/ CheckAnchor

Spec == Init /\ [][Next]_vars

-----------------------------------------------------------------------------
(***************************************************************************)
(* Properties                                                              *)
(***************************************************************************)
JournalStatus ==
    {"VALID", "EMPTY_CHAIN", "PAYLOAD_HASH_MISMATCH", "EVENT_INTEGRITY_INVALID",
     "SEQUENCE_INVALID", "PREV_HASH_MISMATCH", "RUN_MISMATCH", "CASE_MISMATCH",
     "DUPLICATE_EVENT_ID", "TERMINAL_SEQUENCE_MISMATCH", "TERMINAL_HASH_MISMATCH"}

\* What one run looks like: one case, and no event id twice.
OneRun(events) ==
    /\ \A i \in DOMAIN events :
          /\ events[i].body.run_id = events[1].body.run_id
          /\ events[i].body.case_id = events[1].body.case_id
    /\ \A i, j \in DOMAIN events :
          events[i].body.event_id = events[j].body.event_id => i = j

\* The type invariant: what core signed is sealed and numbered from 1 on, every
\* MAC in persistence is one core made, no verification passes the end of its list.
TypeOK ==
    /\ <<>> \in histories
    /\ \A h \in histories :
          /\ h \in Seq(ToSet(h))
          /\ \A i \in DOMAIN h :
                /\ h[i] = Sealed(h[i].body)
                /\ DOMAIN h[i].body = JournalFields
                /\ h[i].body.sequence = i
    /\ records \in Seq(ToSet(records))
    /\ \A i \in DOMAIN records : \E e \in SignedEvents :
          records[i] = [body |-> records[i].body,
                        event_hash_or_mac |-> e.event_hash_or_mac]
    /\ alterations \in 0..MaxAlterations
    /\ check # None =>
          /\ check.anchor \in Anchors
          /\ check.checked \in 0..Len(records)
          /\ check.status \in JournalStatus \cup {"CHECKING", "ERROR"}

\* A chain that verifies is a history core signed, in this order and from its
\* first event on, of one run and one case, whatever was lost, repeated,
\* reordered, altered or mixed in from other histories (verify_chain).
ValidChainsAreHistories ==
    check # None /\ check.status = "VALID" => records \in histories /\ OneRun(records)

\* With the separately retained anchor, a chain that verifies is the very
\* history the anchor was retained for: its tail is complete, and it is not
\* another fork of the run (verify_chain, expected_final_sequence and hash).
AnchoredChainsAreComplete ==
    check # None /\ check.status = "VALID" /\ check.anchor # None =>
        \A h \in histories \ {<<>>} : AnchorOf(h) = check.anchor => records = h

\* A history of one run that persistence returned intact verifies, against no
\* anchor and against its own: no check refuses what core itself signed.
IntactHistoriesVerify ==
    check # None
    /\ records \in histories \ {<<>>} /\ OneRun(records) /\ Len(records) <= MaxChainEvents
    /\ check.anchor \in {None, AnchorOf(records)}
        => check.status \in {"CHECKING", "VALID"}

\* Also while it runs, and where it stops: what the loop has passed is the
\* beginning of one history core signed (verify_chain).
CheckedEventsAreHistories == check # None => Checked \in histories
=============================================================================
