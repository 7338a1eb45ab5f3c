------------------------------ MODULE Approval ------------------------------
(***************************************************************************)
(* Approval grants: src/resolve/approval.py.  A grant is a signed record   *)
(* bound to one decision.  Validation and consumption are pure functions   *)
(* of the copy they are given: they know nothing of other copies.          *)
(*                                                                         *)
(* A grant is [body, integrity]; the HMAC is a collision-free constructor  *)
(* over the body, so a body that was altered after signing does not match. *)
(* The reason code of a refusal (the order of the tests) is left out.      *)
(***************************************************************************)
EXTENDS Contract

IntegrityFor(body) == <<"hmac", body>>

Sealed(body) == [body |-> body, integrity |-> IntegrityFor(body)]

\* Mutant: any envelope with an authority and a class can be approved.
ApprovableInAnyDisposition(envelope) ==
    /\ envelope # Null
    /\ envelope.required_authority # Null
    /\ envelope.consequence_class # Null

\* create_approval_for_decision refuses every other envelope.
Approvable(envelope) ==
    /\ envelope # Null
    /\ envelope.disposition = "WAITING_HUMAN"
    /\ envelope.required_authority # Null
    /\ envelope.consequence_class # Null

CreateApproval(envelope, nonce, issuedAt, expiresAt) ==
    Sealed([candidate_fingerprint |-> envelope.candidate_fingerprint,
            case_fingerprint      |-> envelope.case_fingerprint,
            evidence_fingerprint  |-> envelope.evidence_fingerprint,
            state_fingerprint     |-> envelope.state_fingerprint,
            decision_fingerprint  |-> envelope.decision_fingerprint,
            authority             |-> envelope.required_authority,
            consequence_class     |-> envelope.consequence_class,
            issued_at             |-> issuedAt,
            expires_at            |-> expiresAt,
            nonce                 |-> nonce,
            used                  |-> FALSE])

InForce(body, now) == body.issued_at <= now /\ now < body.expires_at

\* Mutant: the starting state is not compared.
ExpectedInAnyState(body, e) ==
    /\ body.candidate_fingerprint = e.candidate_fingerprint
    /\ body.case_fingerprint = e.case_fingerprint
    /\ body.evidence_fingerprint = e.evidence_fingerprint
    /\ body.decision_fingerprint = e.decision_fingerprint
    /\ body.authority = e.authority
    /\ body.consequence_class = e.consequence_class

\* e is what the caller expects: five fingerprints, the authority, the class.
Expected(body, e) ==
    /\ body.candidate_fingerprint = e.candidate_fingerprint
    /\ body.case_fingerprint = e.case_fingerprint
    /\ body.evidence_fingerprint = e.evidence_fingerprint
    /\ body.state_fingerprint = e.state_fingerprint
    /\ body.decision_fingerprint = e.decision_fingerprint
    /\ body.authority = e.authority
    /\ body.consequence_class = e.consequence_class

\* Mutant: the signature is not checked.
ApprovalValidUnsigned(grant, e, now) ==
    /\ ~grant.body.used
    /\ InForce(grant.body, now)
    /\ Expected(grant.body, e)

ApprovalValid(grant, e, now) ==
    /\ grant.integrity = IntegrityFor(grant.body)
    /\ ~grant.body.used
    /\ InForce(grant.body, now)
    /\ Expected(grant.body, e)

\* The signed used copy consume_approval returns.
ConsumedCopy(grant) == Sealed([grant.body EXCEPT !.used = TRUE])
=============================================================================
