-------------------------- MODULE PermissionProofs --------------------------
(***************************************************************************)
(* Proofs about Permission, for every case, candidate, registry, state and *)
(* bound.  First the type invariant; then the inductive invariant that     *)
(* every decision input tells the truth about its own subject (but for the *)
(* three fields no receipt binds), and what follows from it.               *)
(***************************************************************************)
EXTENDS Permission, TLAPS

-----------------------------------------------------------------------------
(***************************************************************************)
(* Type correctness                                                        *)
(***************************************************************************)
\* EvaluateContract always returns one of the four dispositions.
LEMMA ContractReturnsADisposition ==
    ASSUME NEW d PROVE EvaluateContract(d) \in Disposition
  BY DEF EvaluateContract, Disposition

\* A newly built receipt is of the type of its kind (the build_* functions).
LEMMA ReceiptsAreTyped ==
    ASSUME TypeOK, BuildReceipt PROVE receipts' \in ReceiptsType
  <1>0. /\ receipts \in ReceiptsType
        /\ world.case \in Content
        /\ world.candidate \in Candidate /\ world.registry \in Registry
        /\ world.state \in State
    BY CasesAssumption DEF TypeOK, World
  <1>1. CASE BuildEvidenceReceipt
    <2>1. EvidenceOf(world.registry, world.case, world.candidate)
             \in EvidenceReceipts
      BY <1>0 DEF EvidenceReceipts
    <2>2. QED BY <1>0, <1>1, <2>1 DEF BuildEvidenceReceipt, Keep, ReceiptsType
  <1>2. CASE BuildObjectiveReceipt
    <2>1. PICK r \in Registry, c \in Content, k \in Candidate :
             receipts.evidence = EvidenceOf(r, c, k)
      <3>1. receipts.evidence \in {Null} \cup EvidenceReceipts
        BY <1>0 DEF ReceiptsType
      <3>2. receipts.evidence # Null
        BY <1>2 DEF BuildObjectiveReceipt
      <3>3. QED BY <3>1, <3>2 DEF EvidenceReceipts
    <2>2. receipts.evidence.evidence_fingerprint = EvidenceFingerprint(r)
      BY <2>1 DEF EvidenceOf, EvidenceReceipt
    <2>3. receipts.evidence.evidence_fingerprint[2] = r
      BY <2>2 DEF EvidenceFingerprint
    <2> DEFINE new == ObjectiveOf(world.case, receipts.evidence, r, world.candidate)
    <2>4. new = ObjectiveOf(world.case, [evidence_fingerprint |-> EvidenceFingerprint(r)],
                            r, world.candidate)
      BY <2>2 DEF ObjectiveOf, ObjectiveReceipt
    <2>5. new \in ObjectiveReceipts
      BY <1>0, <2>4 DEF ObjectiveReceipts
    <2>6. receipts' = [receipts EXCEPT !.objective = new]
      BY <1>2, <2>3 DEF BuildObjectiveReceipt, Keep
    <2>7. QED BY <1>0, <2>5, <2>6 DEF ReceiptsType
  <1>3. ASSUME NEW checked \in SUBSET NormalizeCase(world.case).constraints,
               BuildConstraintReceipt(checked)
        PROVE  receipts' \in ReceiptsType
    <2>1. ConstraintsOf(world.case, world.candidate, checked) \in ConstraintReceipts
      <3>1. ConstraintsOf(world.case, world.candidate, checked)
               \in ConstraintReceiptsFor(world.case, world.candidate)
        BY DEF ConstraintReceiptsFor
      <3>2. QED BY <1>0, <3>1 DEF ConstraintReceipts
    <2>2. QED BY <1>0, <1>3, <2>1 DEF BuildConstraintReceipt, Keep, ReceiptsType
  <1>4. CASE BuildRehearsalReceipt
    <2>1. RehearsalOf(world.candidate, world.state) \in RehearsalReceipts
      BY <1>0 DEF RehearsalReceipts
    <2>2. QED BY <1>0, <1>4, <2>1 DEF BuildRehearsalReceipt, Keep, ReceiptsType
  <1>5. CASE BuildVerificationReceipt
    <2>1. VerificationOf(world.candidate, world.state) \in VerificationReceipts
      BY <1>0 DEF VerificationReceipts
    <2>2. QED BY <1>0, <1>5, <2>1 DEF BuildVerificationReceipt, Keep, ReceiptsType
  <1>6. QED BY <1>1, <1>2, <1>3, <1>4, <1>5 DEF BuildReceipt

\* Building a receipt changes nothing but the receipts.
LEMMA OnlyReceipts ==
    ASSUME BuildReceipt
    PROVE  UNCHANGED <<world, changes, envelope, grants, now, admissions>>
  BY DEF BuildReceipt, BuildEvidenceReceipt, BuildObjectiveReceipt,
         BuildConstraintReceipt, BuildRehearsalReceipt, BuildVerificationReceipt, Keep

\* The world moves within its type, and moves nothing else.
LEMMA OnlyTheWorld ==
    ASSUME TypeOK, WorldChanges
    PROVE  /\ world' \in World /\ changes' \in 0..MaxChanges /\ now' \in 0..MaxTime
           /\ UNCHANGED <<receipts, envelope, grants, admissions>>
  <1>1. /\ world \in World /\ changes \in 0..MaxChanges /\ now \in 0..MaxTime
        /\ MaxChanges \in Nat /\ MaxTime \in Nat
    BY BoundsAssumption DEF TypeOK
  <1>2. ASSUME NEW new \in World, Change(new)
        PROVE  /\ world' \in World /\ changes' \in 0..MaxChanges /\ now' \in 0..MaxTime
               /\ UNCHANGED <<receipts, envelope, grants, admissions>>
    BY <1>1, <1>2 DEF Change
  <1>3. CASE Tick
    BY <1>1, <1>3 DEF Tick
  <1>4. /\ \A raw \in Content : [world EXCEPT !.case = raw] \in World
        /\ \A k \in Candidate : [world EXCEPT !.candidate = k] \in World
        /\ \A r \in Registry : [world EXCEPT !.registry = r] \in World
        /\ \A s \in State : [world EXCEPT !.state = s] \in World
    BY <1>1 DEF World
  <1>5. QED
    BY <1>2, <1>3, <1>4
    DEF WorldChanges, ReviseCase, Propose, EvidenceArrives, StateMoves

\* What a step does to the grants: they stay, and a new one is a freshly signed
\* grant of the envelope, a signed used copy of one, or an altered copy.
GrantsStep ==
    \/ grants' = grants
    \/ \E nonce \in Nonce, issuedAt, expiresAt \in Nat :
          /\ Approvable(envelope) /\ issuedAt < expiresAt
          /\ grants' = grants \cup {CreateApproval(envelope, nonce, issuedAt, expiresAt)}
    \/ \E g \in grants :
          /\ ApprovalValid(g, Expectation, now)
          /\ grants' = grants \cup {ConsumedCopy(g)}
    \/ \E g \in grants :
          \E body \in {[g.body EXCEPT !.used = FALSE],
                      [g.body EXCEPT !.expires_at = @ + 1]} :
             grants' = grants \cup {[g EXCEPT !.body = body]}

LEMMA GrantsMoveSo ==
    ASSUME TypeOK, [Next]_vars PROVE GrantsStep
  <1>0. now \in Nat /\ MaxTime \in Nat /\ MaxLifetime \in Nat
    BY BoundsAssumption DEF TypeOK
  <1>1. CASE WorldChanges
    BY <1>1, OnlyTheWorld DEF GrantsStep
  <1>2. CASE BuildReceipt
    BY <1>2, OnlyReceipts DEF GrantsStep
  <1>3. CASE \E a \in Assertion : Decide(a)
    BY <1>3 DEF Decide, GrantsStep
  <1>4. ASSUME NEW nonce \in Nonce, NEW issuedAt \in now..MaxTime,
               NEW lifetime \in 0..MaxLifetime,
               Approve(nonce, issuedAt, issuedAt + lifetime)
        PROVE  GrantsStep
    <2>1. issuedAt \in Nat /\ issuedAt + lifetime \in Nat
      BY <1>0
    <2>2. QED BY <1>4, <2>1 DEF Approve, GrantsStep
  <1>5. CASE \E g \in grants : Consume(g)
    BY <1>5 DEF Consume, GrantsStep
  <1>6. ASSUME NEW g \in grants,
               \/ Alter(g, [g.body EXCEPT !.used = FALSE])
               \/ Alter(g, [g.body EXCEPT !.expires_at = @ + 1])
        PROVE  GrantsStep
    BY <1>6 DEF Alter, GrantsStep
  <1>7. CASE UNCHANGED vars
    BY <1>7 DEF vars, GrantsStep
  <1>8. QED BY <1>1, <1>2, <1>3, <1>4, <1>5, <1>6, <1>7 DEF Next, UseGrant

\* What the type invariant says of one grant.
GrantTyped(g) ==
    /\ DOMAIN g = {"body", "integrity"} /\ DOMAIN g.body = GrantFields
    /\ g.body.nonce \in Nonce
    /\ g.body.issued_at \in Nat /\ g.body.expires_at \in Nat
    /\ g.body.issued_at < g.body.expires_at
    /\ g.body.used \in BOOLEAN

\* Creating, consuming and altering grants keeps them typed.
LEMMA GrantsAreTyped ==
    ASSUME \A g \in grants : GrantTyped(g), GrantsStep
    PROVE  \A g \in grants' : GrantTyped(g)
  <1>1. ASSUME NEW nonce \in Nonce, NEW issuedAt \in Nat, NEW expiresAt \in Nat,
               issuedAt < expiresAt
        PROVE  GrantTyped(CreateApproval(envelope, nonce, issuedAt, expiresAt))
    BY <1>1 DEF GrantTyped, CreateApproval, Sealed, GrantFields
  <1>2. ASSUME NEW g \in grants PROVE GrantTyped(ConsumedCopy(g))
    BY <1>2 DEF GrantTyped, ConsumedCopy, Sealed, GrantFields
  <1>3. ASSUME NEW g \in grants,
               NEW body \in {[g.body EXCEPT !.used = FALSE],
                             [g.body EXCEPT !.expires_at = @ + 1]}
        PROVE  GrantTyped([g EXCEPT !.body = body])
    <2>1. /\ DOMAIN body = GrantFields /\ body.nonce = g.body.nonce
          /\ body.issued_at = g.body.issued_at
          /\ body.expires_at \in Nat /\ g.body.issued_at < body.expires_at
          /\ body.used \in BOOLEAN
      <3>1. GrantTyped(g)
        BY <1>3
      <3>2. CASE body = [g.body EXCEPT !.used = FALSE]
        BY <3>1, <3>2 DEF GrantTyped, GrantFields
      <3>3. CASE body = [g.body EXCEPT !.expires_at = @ + 1]
        BY <3>1, <3>3 DEF GrantTyped, GrantFields
      <3>4. QED BY <1>3, <3>2, <3>3
    <2>2. /\ DOMAIN [g EXCEPT !.body = body] = {"body", "integrity"}
          /\ [g EXCEPT !.body = body].body = body
      BY <1>3 DEF GrantTyped
    <2>3. g.body.nonce \in Nonce /\ g.body.issued_at \in Nat
      BY DEF GrantTyped
    <2>4. QED BY <2>1, <2>2, <2>3 DEF GrantTyped
  <1>4. CASE grants' = grants
    BY <1>4
  <1>5. CASE \E nonce \in Nonce, issuedAt, expiresAt \in Nat :
                /\ issuedAt < expiresAt
                /\ grants' = grants \cup {CreateApproval(envelope, nonce, issuedAt, expiresAt)}
    BY <1>1, <1>5
  <1>6. CASE \E g \in grants : grants' = grants \cup {ConsumedCopy(g)}
    BY <1>2, <1>6
  <1>7. CASE \E g \in grants :
                \E body \in {[g.body EXCEPT !.used = FALSE],
                            [g.body EXCEPT !.expires_at = @ + 1]} :
                   grants' = grants \cup {[g EXCEPT !.body = body]}
    BY <1>3, <1>7
  <1>8. QED BY <1>4, <1>5, <1>6, <1>7 DEF GrantsStep

\* Every state of the life cycle has the types of the code (Permission!TypeOK).
THEOREM TypeCorrect == Spec => []TypeOK
  <1>1. Init => TypeOK
    <2>1. ASSUME Init PROVE receipts \in ReceiptsType
      BY <2>1 DEF Init, ReceiptsType, ReceiptKind
    <2>2. QED BY <2>1, BoundsAssumption DEF Init, TypeOK
  <1>2. ASSUME TypeOK, [Next]_vars PROVE TypeOK'
    <2>0. MaxChanges \in Nat /\ MaxTime \in Nat
      BY BoundsAssumption
    <2>1. \A g \in grants' : GrantTyped(g)
      <3>1. \A g \in grants : GrantTyped(g)
        BY <1>2 DEF TypeOK, GrantTyped
      <3>2. GrantsStep
        BY <1>2, GrantsMoveSo
      <3>3. QED BY <3>1, <3>2, GrantsAreTyped
    <2>2. /\ world' \in World /\ changes' \in 0..MaxChanges /\ now' \in 0..MaxTime
      <3>1. world \in World /\ changes \in 0..MaxChanges /\ now \in 0..MaxTime
        BY <1>2 DEF TypeOK
      <3>2. ASSUME NEW g \in grants, NEW body, Alter(g, body)
            PROVE  UNCHANGED <<world, now>> /\ changes' \in 0..MaxChanges
        BY <2>0, <3>1, <3>2 DEF Alter
      <3>3. QED
        BY <1>2, <3>1, <3>2, OnlyTheWorld, OnlyReceipts
        DEF Next, vars, Decide, UseGrant, Approve, Consume
    <2>3. receipts' \in ReceiptsType
      <3>1. receipts \in ReceiptsType
        BY <1>2 DEF TypeOK
      <3>2. QED
        BY <1>2, <3>1, ReceiptsAreTyped, OnlyTheWorld
        DEF Next, vars, Decide, UseGrant, Approve, Consume, Alter
    <2>4. envelope' # Null => envelope'.disposition \in Disposition
      <3>1. ASSUME NEW a \in Assertion, Decide(a)
            PROVE  envelope'.disposition \in Disposition
        BY <3>1, ContractReturnsADisposition DEF Decide, EvaluateDecision
      <3>2. CASE UNCHANGED envelope
        BY <1>2, <3>2 DEF TypeOK
      <3>3. QED
        BY <1>2, <3>1, <3>2, OnlyTheWorld, OnlyReceipts
        DEF Next, vars, UseGrant, Approve, Consume, Alter
    <2>5. admissions' \in Seq([nonce : Nonce, world : World, at : 0..MaxTime])
      <3>1. ASSUME NEW g \in grants, Consume(g)
            PROVE  admissions' \in Seq([nonce : Nonce, world : World, at : 0..MaxTime])
        BY <1>2, <3>1 DEF Consume, TypeOK
      <3>2. CASE UNCHANGED admissions
        BY <1>2, <3>2 DEF TypeOK
      <3>3. QED
        BY <1>2, <3>1, <3>2, OnlyTheWorld, OnlyReceipts
        DEF Next, vars, Decide, UseGrant, Approve, Alter
    <2>6. QED
      BY <2>1, <2>2, <2>3, <2>4, <2>5
      DEF TypeOK, GrantTyped, ReceiptsType
  <1>3. QED BY <1>1, <1>2, PTL DEF Spec

-----------------------------------------------------------------------------
(***************************************************************************)
(* Decision inputs tell the truth                                          *)
(***************************************************************************)
\* build_decision_input lets receipts of different moments meet only when the
\* fingerprints they carry agree, so what it assembles is true of one subject, and
\* the fields no receipt binds are true of some candidate and some case.
LEMMA DecisionTellsTheTruth ==
    ASSUME TypeOK, NEW a,
           ReceiptsMatch(world.case, world.candidate, world.state, receipts)
    PROVE  TellsTheTruth(
              DecisionInput(world.case, world.candidate, world.state, receipts, a))
  <1> DEFINE d == DecisionInput(world.case, world.candidate, world.state, receipts, a)
             policy == DerivePolicy(world.case, world.candidate)
  <1>1. /\ world.case \in Content
        /\ world.candidate \in Candidate /\ world.state \in State
    BY CasesAssumption DEF TypeOK, World
  <1>2. /\ receipts.evidence \in EvidenceReceipts
        /\ receipts.objective \in ObjectiveReceipts
        /\ receipts.constraint \in {Null} \cup ConstraintReceipts
        /\ receipts.rehearsal \in {Null} \cup RehearsalReceipts
        /\ receipts.verification \in {Null} \cup VerificationReceipts
    BY DEF TypeOK, ReceiptsType, ReceiptsMatch
  <1>3. PICK r \in Registry : receipts.evidence.evidence_fingerprint = EvidenceFingerprint(r)
    BY <1>2 DEF EvidenceReceipts, EvidenceOf, EvidenceReceipt
  <1> DEFINE s == [content |-> world.case, candidate |-> world.candidate,
                   registry |-> r, state |-> world.state]
  <1>4. Subject(d) = s
    BY <1>3 DEF Subject, DecisionInput, CaseFingerprint, CandidateFingerprint,
                EvidenceFingerprint, StateFingerprint
  <1>5. s \in Subjects
    BY <1>1 DEF Subjects
  <1>6. PolicyOf(s) = policy
    BY DEF PolicyOf, ListedAction, ActionOf, DerivePolicy, NormalizeCase
  <1>7. d.authorized_objective = AuthorizedObjective[<<s.content, s.registry>>]
    <2>1. PICK raw \in Content, q \in Registry, k \in Candidate :
             receipts.objective =
                ObjectiveOf(raw, [evidence_fingerprint |-> EvidenceFingerprint(q)], q, k)
      BY <1>2 DEF ObjectiveReceipts
    <2>2. /\ receipts.objective.case_fingerprint = CaseFingerprint(raw)
          /\ receipts.objective.evidence_fingerprint = EvidenceFingerprint(q)
          /\ receipts.objective.authorized_objective = AuthorizedObjective[<<raw, q>>]
      BY <2>1 DEF ObjectiveOf, ObjectiveReceipt
    <2>3. raw = world.case /\ q = r
      BY <1>3, <2>2 DEF ReceiptsMatch, ObjectiveReceiptMatches, CaseFingerprint,
                        EvidenceFingerprint
    <2>4. d.authorized_objective = receipts.objective.authorized_objective
      BY DEF DecisionInput
    <2>5. QED BY <2>2, <2>3, <2>4
  <1>7a. \E k \in Candidate : d.candidate_objective = CandidateOf[k].objective
    <2>1. PICK raw \in Content, q \in Registry, k \in Candidate :
             receipts.objective =
                ObjectiveOf(raw, [evidence_fingerprint |-> EvidenceFingerprint(q)], q, k)
      BY <1>2 DEF ObjectiveReceipts
    <2>2. receipts.objective.candidate_objective = CandidateOf[k].objective
      BY <2>1 DEF ObjectiveOf, ObjectiveReceipt
    <2>3. d.candidate_objective = receipts.objective.candidate_objective
      BY DEF DecisionInput
    <2>4. QED BY <2>2, <2>3
  <1>7b. /\ d.available_evidence_ids = DOMAIN s.registry
         /\ \E c \in Content, k \in Candidate :
               /\ d.required_evidence_ids = RequiredEvidence[c]
               /\ d.candidate_evidence_ids = CandidateOf[k].evidence_ids
    <2>1. PICK q \in Registry, c \in Content, k \in Candidate :
             receipts.evidence = EvidenceOf(q, c, k)
      BY <1>2 DEF EvidenceReceipts
    <2>2. /\ receipts.evidence.evidence_fingerprint = EvidenceFingerprint(q)
          /\ receipts.evidence.available_evidence_ids = DOMAIN q
          /\ receipts.evidence.required_evidence_ids = RequiredEvidence[c]
          /\ receipts.evidence.candidate_evidence_ids = CandidateOf[k].evidence_ids
      BY <2>1 DEF EvidenceOf, EvidenceReceipt
    <2>3. q = r
      BY <1>3, <2>2 DEF EvidenceFingerprint
    <2>4. /\ d.available_evidence_ids = receipts.evidence.available_evidence_ids
          /\ d.required_evidence_ids = receipts.evidence.required_evidence_ids
          /\ d.candidate_evidence_ids = receipts.evidence.candidate_evidence_ids
      BY DEF DecisionInput
    <2>5. QED BY <2>2, <2>3, <2>4
  <1>8. /\ policy.violations \subseteq d.hard_constraint_violations
        /\ d.constraints_checked =>
              /\ policy.constraints_checked
              /\ Report(CaseOf[s.content].constraints, s.content, s.candidate)
                    \subseteq d.hard_constraint_violations
    <2>1. /\ d.hard_constraint_violations = policy.violations \cup
                (IF receipts.constraint = Null THEN {} ELSE receipts.constraint.violations)
          /\ d.constraints_checked =
                (/\ receipts.constraint # Null
                 /\ policy.constraints_checked
                 /\ receipts.constraint.checked_constraint_ids
                       = NormalizeCase(world.case).constraints)
      BY DEF DecisionInput
    <2>2. ASSUME receipts.constraint # Null,
                 receipts.constraint.checked_constraint_ids
                    = NormalizeCase(world.case).constraints
          PROVE  receipts.constraint.violations =
                    Report(CaseOf[s.content].constraints, s.content, s.candidate)
      <3>1. PICK raw \in Content, k \in Candidate :
               receipts.constraint \in ConstraintReceiptsFor(raw, k)
        BY <1>2, <2>2 DEF ConstraintReceipts
      <3>2. PICK checked : receipts.constraint = ConstraintsOf(raw, k, checked)
        BY <3>1 DEF ConstraintReceiptsFor
      <3>3. /\ receipts.constraint.case_fingerprint = CaseFingerprint(raw)
            /\ receipts.constraint.candidate_fingerprint = CandidateFingerprint(k)
            /\ receipts.constraint.checked_constraint_ids = checked
            /\ receipts.constraint.violations = Report(checked, raw, k)
        BY <3>2 DEF ConstraintsOf, ConstraintReceipt
      <3>4. raw = world.case /\ k = world.candidate
        BY <2>2, <3>3 DEF ReceiptsMatch, ConstraintReceiptMatches, CaseFingerprint,
                          CandidateFingerprint
      <3>5. checked = CaseOf[s.content].constraints
        BY <2>2, <3>3 DEF NormalizeCase
      <3>6. QED BY <3>3, <3>4, <3>5
    <2>3. QED BY <2>1, <2>2
  <1>9. d.rehearsal_passed \in {Null, RehearsalOutcome[<<s.candidate, s.state>>]}
    <2>1. ASSUME receipts.rehearsal # Null
          PROVE  receipts.rehearsal.passed = RehearsalOutcome[<<s.candidate, s.state>>]
      <3>1. PICK k \in Candidate, t \in State : receipts.rehearsal = RehearsalOf(k, t)
        BY <1>2, <2>1 DEF RehearsalReceipts
      <3>2. /\ receipts.rehearsal.candidate_fingerprint = CandidateFingerprint(k)
            /\ receipts.rehearsal.state_fingerprint = StateFingerprint(t)
            /\ receipts.rehearsal.passed = RehearsalOutcome[<<k, t>>]
        BY <3>1 DEF RehearsalOf, RehearsalReceipt
      <3>3. k = world.candidate /\ t = world.state
        BY <2>1, <3>2 DEF ReceiptsMatch, RunReceiptMatches, CandidateFingerprint,
                          StateFingerprint
      <3>4. QED BY <3>2, <3>3
    <2>2. QED BY <2>1 DEF DecisionInput
  <1>10. d.verification_possible \in {Null, VerificationOutcome[<<s.candidate, s.state>>]}
    <2>1. ASSUME receipts.verification # Null
          PROVE  receipts.verification.possible = VerificationOutcome[<<s.candidate, s.state>>]
      <3>1. PICK k \in Candidate, t \in State :
               receipts.verification = VerificationOf(k, t)
        BY <1>2, <2>1 DEF VerificationReceipts
      <3>2. /\ receipts.verification.candidate_fingerprint = CandidateFingerprint(k)
            /\ receipts.verification.state_fingerprint = StateFingerprint(t)
            /\ receipts.verification.possible = VerificationOutcome[<<k, t>>]
        BY <3>1 DEF VerificationOf, VerificationReceipt
      <3>3. k = world.candidate /\ t = world.state
        BY <2>1, <3>2 DEF ReceiptsMatch, RunReceiptMatches, CandidateFingerprint,
                          StateFingerprint
      <3>4. QED BY <3>2, <3>3
    <2>2. QED BY <2>1 DEF DecisionInput
  <1>11. /\ d.consequence_class = policy.consequence_class
         /\ d.reversibility_required = policy.reversibility_required
         /\ policy.reversibility_required /\ ~policy.reversible
               => d.reversibility_confirmed = FALSE
         /\ d.rehearsal_required = policy.rehearsal_required
         /\ d.human_approval_required = policy.human_required
         /\ d.required_authority = policy.required_authority
    BY DEF DecisionInput
  <1>12. DOMAIN d = DecisionFields
    BY DEF DecisionInput, DecisionFields
  <1> HIDE DEF d, s, policy
  <1>13. TellsTheTruth(d)
    BY <1>4, <1>5, <1>6, <1>7, <1>7a, <1>7b, <1>8, <1>9, <1>10, <1>11, <1>12 DEF TellsTheTruth
  <1>14. QED BY <1>13 DEF d

\* Two parties agree only when both have spoken; a fact that is required passes
\* only when it is known and true.
LEMMA GatesPassOnFacts ==
    /\ \A a, b : AgreementGate(a, b) = "PASS" => a # Null /\ a = b
    /\ \A required \in BOOLEAN : \A fact, truth :
          /\ fact \in {Null, truth} /\ truth \in BOOLEAN
          /\ required /\ FactGate(required, fact) = "PASS"
          => truth
  BY DEF AgreementGate, FactGate

\* A decision is let through only when every gate passes.
LEMMA EveryGatePasses ==
    ASSUME NEW d, EvaluateContract(d) \in {"WAITING_HUMAN", "ADMISSIBLE"}
    PROVE  /\ EvaluateIntent(d) = "PASS" /\ EvaluateEvidence(d) = "PASS"
           /\ EvaluateConstraints(d) = "PASS"
           /\ EvaluateReversibility(d) = "PASS" /\ EvaluateRehearsal(d) = "PASS"
           /\ EvaluateVerification(d) = "PASS"
           /\ EvaluateContract(d) =
                 IF d.human_approval_required THEN "WAITING_HUMAN" ELSE "ADMISSIBLE"
  <1>1. "FAIL" \notin GateValues(d) /\ "UNKNOWN" \notin GateValues(d)
    BY DEF EvaluateContract
  <1>2. \A v \in GateValues(d) : v \in GateValue
    BY DEF GateValues, GateValue, EvaluateIntent, EvaluateEvidence, EvaluateConstraints,
           EvaluateConsequence, EvaluateReversibility, EvaluateRehearsal,
           EvaluateAuthority, EvaluateVerification, AgreementGate, FactGate
  <1>3. \A v \in GateValues(d) : v = "PASS"
    BY <1>1, <1>2 DEF GateValue
  <1>4. QED BY <1>1, <1>3 DEF GateValues, EvaluateContract

\* A verdict on a parameter is true, false or Null: no fourth outcome slips by.
LEMMA VerdictIsTernary ==
    ASSUME NEW value, NEW rule, rule.kind \in {"list", "mapping", "scalar"}
    PROVE  ParameterAllowed(value, rule) \in BOOLEAN \cup {Null}
  <1>1. CASE rule.kind = "list"
    BY <1>1 DEF ParameterAllowed
  <1>2. CASE rule.kind = "mapping"
    <2>1. ParameterAllowed(value, rule) =
             IF WellFormedBounds(rule) THEN WithinRange(value, rule) ELSE Null
      BY <1>2 DEF ParameterAllowed
    <2>2. WithinRange(value, rule) \in BOOLEAN
      BY DEF WithinRange
    <2>3. QED BY <2>1, <2>2
  <1>3. CASE rule.kind = "scalar"
    <2>1. ParameterAllowed(value, rule) = SameScalar(value, rule.scalar)
      BY <1>3 DEF ParameterAllowed
    <2>2. SameScalar(value, rule.scalar) \in BOOLEAN
      BY DEF SameScalar
    <2>3. QED BY <2>1, <2>2
  <1>4. QED BY <1>1, <1>2, <1>3

\* A candidate the policy finds nothing against, having checked everything, is
\* a listed action within the bounds of the case (_derive_policy).
LEMMA CleanPolicyMeansWithinCase ==
    ASSUME NEW s \in Subjects, PolicyOf(s).violations = {}, PolicyOf(s).constraints_checked
    PROVE  ListedAction(s) /\ WithinCase(s)
  <1> DEFINE action == ActionOf(s)
             proposed == CandidateOf[s.candidate]
  <1>1. ListedAction(s)
    BY DEF PolicyOf, UnknownActionPolicy
  <1>2. PolicyViolations(action, proposed) = {} /\ PolicyChecked(action, proposed)
    BY <1>1 DEF PolicyOf, ActionPolicy
  <1>3. \A name \in DOMAIN action.allowed_parameters :
           action.allowed_parameters[name].kind \in {"list", "mapping", "scalar"}
    BY <1>1, CasesAssumption DEF Subjects, ListedAction, ActionOf
  <1> HIDE DEF action, proposed
  <1>4. /\ action.allowed_targets # Null
        /\ \E t \in action.allowed_targets : SameScalar(proposed.target, t)
    BY <1>2 DEF PolicyViolations, PolicyChecked
  <1>5. DOMAIN proposed.parameters = DOMAIN action.allowed_parameters
    BY <1>2 DEF PolicyViolations
  <1>6. ASSUME NEW name \in DOMAIN proposed.parameters
        PROVE  ParameterVerdict(action, proposed, name) = TRUE
    <2>1. name \in SharedParameters(action, proposed)
      BY <1>5 DEF SharedParameters
    <2>2. ParameterVerdict(action, proposed, name) \in BOOLEAN \cup {Null}
      <3>1. action.allowed_parameters[name].kind \in {"list", "mapping", "scalar"}
        BY <1>3, <1>5
      <3>2. QED BY <3>1, VerdictIsTernary DEF ParameterVerdict
    <2>3. ParameterVerdict(action, proposed, name) # Null
      BY <1>2, <2>1 DEF PolicyChecked
    <2>4. ParameterVerdict(action, proposed, name) # FALSE
      BY <1>2, <2>1 DEF PolicyViolations
    <2>5. QED BY <2>2, <2>3, <2>4
  <1>7. QED BY <1>1, <1>4, <1>5, <1>6 DEF WithinCase, action, proposed

\* An input that tells the truth and passes is justified, and reaches a human
\* exactly when the case wants one.
LEMMA PassingIsJustified ==
    ASSUME NEW d, TellsTheTruth(d), EvaluateContract(d) \in {"WAITING_HUMAN", "ADMISSIBLE"}
    PROVE  /\ Justified(Subject(d))
           /\ NeedsHuman(Subject(d)) = (EvaluateContract(d) = "WAITING_HUMAN")
  <1> DEFINE s == Subject(d)
             policy == PolicyOf(s)
  <1>0. /\ EvaluateIntent(d) = "PASS" /\ EvaluateEvidence(d) = "PASS"
        /\ EvaluateConstraints(d) = "PASS"
        /\ EvaluateReversibility(d) = "PASS" /\ EvaluateRehearsal(d) = "PASS"
        /\ EvaluateVerification(d) = "PASS"
        /\ EvaluateContract(d) =
              IF d.human_approval_required THEN "WAITING_HUMAN" ELSE "ADMISSIBLE"
    BY EveryGatePasses
  <1>1. s \in Subjects
    BY DEF TellsTheTruth
  <1>2. d.hard_constraint_violations = {} /\ d.constraints_checked
    BY <1>0 DEF EvaluateConstraints
  <1>3. /\ policy.violations = {} /\ policy.constraints_checked
        /\ Report(CaseOf[s.content].constraints, s.content, s.candidate) = {}
    BY <1>2 DEF TellsTheTruth
  <1>4. ListedAction(s) /\ WithinCase(s)
    BY <1>1, <1>3, CleanPolicyMeansWithinCase
  <1>5. MeetsConstraints(s)
    BY <1>3 DEF MeetsConstraints, Report
  <1>6. Authorized(s) /\ SomePursue(s)
    <2>1. /\ d.authorized_objective # Null
          /\ d.candidate_objective = d.authorized_objective
      BY <1>0, GatesPassOnFacts DEF EvaluateIntent
    <2>2. /\ d.authorized_objective = AuthorizedObjective[<<s.content, s.registry>>]
          /\ \E k \in Candidate : d.candidate_objective = CandidateOf[k].objective
      BY DEF TellsTheTruth
    <2>3. QED BY <2>1, <2>2 DEF Authorized, SomePursue
  <1>6a. SomeCite(s)
    <2>1. /\ d.required_evidence_ids \subseteq d.candidate_evidence_ids
          /\ d.candidate_evidence_ids \subseteq d.available_evidence_ids
      BY <1>0 DEF EvaluateEvidence, InvalidReferences, MissingRequired
    <2>2. /\ d.available_evidence_ids = DOMAIN s.registry
          /\ \E c \in Content, k \in Candidate :
                /\ d.required_evidence_ids = RequiredEvidence[c]
                /\ d.candidate_evidence_ids = CandidateOf[k].evidence_ids
      BY DEF TellsTheTruth
    <2>3. QED BY <2>1, <2>2 DEF SomeCite
  <1>7. /\ ActionOf(s).reversible \in BOOLEAN
        /\ ActionOf(s).rehearsal_required \in BOOLEAN
        /\ ActionOf(s).human_approval_required \in BOOLEAN
    BY <1>1, <1>4, CasesAssumption DEF Subjects, ListedAction, ActionOf
  <1>8. policy = ActionPolicy(ActionOf(s), CandidateOf[s.candidate])
    BY <1>4 DEF PolicyOf
  <1>9. /\ policy.reversibility_required = HighConsequence(ActionOf(s).consequence)
        /\ policy.reversible = ActionOf(s).reversible
        /\ policy.rehearsal_required =
              (HighConsequence(ActionOf(s).consequence) \/ ActionOf(s).rehearsal_required)
        /\ policy.human_required = NeedsHuman(s)
    BY <1>8 DEF ActionPolicy, NeedsHuman
  <1>10. HighConsequence(ActionOf(s).consequence) \in BOOLEAN
    BY DEF HighConsequence
  <1>11. Tried(s)
    <2>1. ASSUME HighConsequence(ActionOf(s).consequence) PROVE ActionOf(s).reversible
      <3>1. SUFFICES ASSUME ~ActionOf(s).reversible PROVE FALSE
        BY <1>7
      <3>2. d.reversibility_required = TRUE /\ d.reversibility_confirmed = FALSE
        BY <1>9, <1>10, <2>1, <3>1 DEF TellsTheTruth
      <3>3. EvaluateReversibility(d) # "PASS"
        BY <3>2 DEF EvaluateReversibility, FactGate
      <3>4. QED BY <3>3, <1>0
    <2>2. /\ RehearsalOutcome[<<s.candidate, s.state>>] \in BOOLEAN
          /\ VerificationOutcome[<<s.candidate, s.state>>] \in BOOLEAN
      BY <1>1, OutcomesAssumption DEF Subjects
    <2>3. ASSUME \/ HighConsequence(ActionOf(s).consequence)
                 \/ ActionOf(s).rehearsal_required
          PROVE  RehearsalOutcome[<<s.candidate, s.state>>]
      <3>1. d.rehearsal_required = TRUE
        BY <1>7, <1>9, <1>10, <2>3 DEF TellsTheTruth
      <3>2. FactGate(TRUE, d.rehearsal_passed) = "PASS"
        BY <3>1, <1>0 DEF EvaluateRehearsal
      <3>3. d.rehearsal_passed \in {Null, RehearsalOutcome[<<s.candidate, s.state>>]}
        BY DEF TellsTheTruth
      <3>4. QED BY <2>2, <3>2, <3>3, GatesPassOnFacts
    <2>4. VerificationOutcome[<<s.candidate, s.state>>]
      <3>1. FactGate(TRUE, d.verification_possible) = "PASS"
        BY <1>0 DEF EvaluateVerification
      <3>2. d.verification_possible \in {Null, VerificationOutcome[<<s.candidate, s.state>>]}
        BY DEF TellsTheTruth
      <3>3. QED BY <2>2, <3>1, <3>2, GatesPassOnFacts
    <2>5. QED BY <2>1, <2>3, <2>4 DEF Tried
  <1>12. NeedsHuman(s) = (EvaluateContract(d) = "WAITING_HUMAN")
    <2>1. d.human_approval_required = NeedsHuman(s) /\ NeedsHuman(s) \in BOOLEAN
      BY <1>7, <1>9, <1>10 DEF TellsTheTruth, NeedsHuman
    <2>2. QED BY <2>1, <1>0
  <1>13. QED BY <1>4, <1>5, <1>6, <1>6a, <1>11, <1>12 DEF Justified

-----------------------------------------------------------------------------
(***************************************************************************)
(* The inductive invariant                                                 *)
(***************************************************************************)
\* Only a decision changes the envelope.
LEMMA EnvelopeKept ==
    ASSUME TypeOK, [Next]_vars
    PROVE  \/ UNCHANGED envelope
           \/ \E a \in Assertion : Decide(a)
  BY OnlyTheWorld, OnlyReceipts DEF Next, vars, UseGrant, Approve, Consume, Alter

\* An envelope is the verdict on the input its fingerprint names.
LEMMA EnvelopeOfItsInput ==
    ASSUME NEW d
    PROVE  InputOf(EvaluateDecision(d)) = d
  BY DEF InputOf, EvaluateDecision, DecisionFingerprint

\* Every step keeps the envelope truthful.
LEMMA EnvelopeStep ==
    ASSUME TypeOK, EnvelopeInv, [Next]_vars PROVE EnvelopeInv'
  <1>1. ASSUME NEW a \in Assertion, Decide(a) PROVE EnvelopeInv'
    <2> DEFINE d == DecisionInput(world.case, world.candidate, world.state, receipts, a)
    <2>1. envelope' = EvaluateDecision(d)
      BY <1>1 DEF Decide
    <2>2. TellsTheTruth(d)
      BY <1>1, DecisionTellsTheTruth DEF Decide
    <2> HIDE DEF d
    <2>3. InputOf(envelope') = d
      BY <2>1, EnvelopeOfItsInput
    <2>4. QED BY <2>1, <2>2, <2>3 DEF EnvelopeInv
  <1>2. CASE UNCHANGED envelope
    BY <1>2 DEF EnvelopeInv
  <1>3. QED BY <1>1, <1>2, EnvelopeKept

\* What an envelope says of its subject and what its input says agree.
LEMMA EnvelopeMatchesItsInput ==
    ASSUME EnvelopeInv, envelope # Null
    PROVE  LET d == InputOf(envelope)
           IN  /\ TellsTheTruth(d)
               /\ Subject(envelope) = Subject(d)
               /\ envelope.disposition = EvaluateContract(d)
               /\ envelope.required_authority = d.required_authority
               /\ envelope.consequence_class = d.consequence_class
  <1> DEFINE d == InputOf(envelope)
  <1>1. envelope = EvaluateDecision(d) /\ TellsTheTruth(d)
    BY DEF EnvelopeInv
  <1> HIDE DEF d
  <1>2. /\ Subject(EvaluateDecision(d)) = Subject(d)
        /\ EvaluateDecision(d).disposition = EvaluateContract(d)
        /\ EvaluateDecision(d).required_authority = d.required_authority
        /\ EvaluateDecision(d).consequence_class = d.consequence_class
    BY DEF Subject, EvaluateDecision
  <1>3. QED BY <1>1, <1>2 DEF d

\* Signing names its body, and no other.
LEMMA SealNamesItsBody ==
    ASSUME NEW body
    PROVE  Sealed(body).integrity[2] = body /\ Sealed(body).body = body
           /\ Sealed(body).integrity = IntegrityFor(body)
  BY DEF Sealed, IntegrityFor

\* The kernel signs grants only for envelopes that wait for a human.
LEMMA CreatedByTheKernel ==
    ASSUME EnvelopeInv, Approvable(envelope), NEW nonce, NEW issuedAt, NEW expiresAt
    PROVE  \E body : /\ CreateApproval(envelope, nonce, issuedAt, expiresAt) = Sealed(body)
                     /\ MadeByTheKernel(body)
                     /\ body.issued_at = issuedAt /\ body.expires_at = expiresAt
  <1> DEFINE body ==
           [candidate_fingerprint |-> envelope.candidate_fingerprint,
            case_fingerprint      |-> envelope.case_fingerprint,
            evidence_fingerprint  |-> envelope.evidence_fingerprint,
            state_fingerprint     |-> envelope.state_fingerprint,
            decision_fingerprint  |-> envelope.decision_fingerprint,
            authority             |-> envelope.required_authority,
            consequence_class     |-> envelope.consequence_class,
            issued_at             |-> issuedAt,
            expires_at            |-> expiresAt,
            nonce                 |-> nonce,
            used                  |-> FALSE]
  <1>1. CreateApproval(envelope, nonce, issuedAt, expiresAt) = Sealed(body)
    BY DEF CreateApproval
  <1>2. /\ envelope # Null /\ envelope.disposition = "WAITING_HUMAN"
    BY DEF Approvable
  <1>3. /\ DOMAIN body = GrantFields
        /\ InputOf(body) = InputOf(envelope)
        /\ Subject(body) = Subject(envelope)
        /\ body.authority = envelope.required_authority
        /\ body.consequence_class = envelope.consequence_class
        /\ body.issued_at = issuedAt /\ body.expires_at = expiresAt
    BY DEF GrantFields, InputOf, Subject
  <1> HIDE DEF body
  <1>4. MadeByTheKernel(body)
    BY <1>2, <1>3, EnvelopeMatchesItsInput DEF MadeByTheKernel
  <1>5. QED BY <1>1, <1>3, <1>4

\* Marking a body as used leaves it one the kernel made, for the same subject
\* and the same time.
LEMMA UsedCopyIsMadeByTheKernel ==
    ASSUME NEW body, MadeByTheKernel(body)
    PROVE  LET copy == [body EXCEPT !.used = TRUE]
           IN  /\ MadeByTheKernel(copy)
               /\ Subject(copy) = Subject(body)
               /\ copy.issued_at = body.issued_at /\ copy.expires_at = body.expires_at
  <1> DEFINE copy == [body EXCEPT !.used = TRUE]
  <1>1. DOMAIN body = GrantFields
    BY DEF MadeByTheKernel
  <1>2. /\ DOMAIN copy = GrantFields
        /\ InputOf(copy) = InputOf(body) /\ Subject(copy) = Subject(body)
        /\ copy.authority = body.authority
        /\ copy.consequence_class = body.consequence_class
        /\ copy.issued_at = body.issued_at /\ copy.expires_at = body.expires_at
    BY <1>1 DEF GrantFields, InputOf, Subject
  <1> HIDE DEF copy
  <1>3. MadeByTheKernel(copy)
    BY <1>2 DEF MadeByTheKernel
  <1>4. QED BY <1>2, <1>3 DEF copy

\* Every step keeps every signature over a body the kernel made.
LEMMA SealStep ==
    ASSUME TypeOK, EnvelopeInv, SealInv, [Next]_vars PROVE SealInv'
  <1> DEFINE Good(g, all) == /\ g.integrity = IntegrityFor(g.integrity[2])
                             /\ MadeByTheKernel(g.integrity[2])
                             /\ Sealed(g.integrity[2]) \in all
  <1>1. \A g \in grants : Good(g, grants)
    BY DEF SealInv
  <1>2. \A body, all : MadeByTheKernel(body) /\ Sealed(body) \in all
                          => Good(Sealed(body), all)
    BY SealNamesItsBody
  <1>3. SUFFICES \A g \in grants' : Good(g, grants')
    BY DEF SealInv
  <1> HIDE DEF Good
  <1>4. \A g, all, more : Good(g, all) /\ all \subseteq more => Good(g, more)
    BY DEF Good
  <1>5. CASE grants' = grants
    BY <1>1, <1>5
  <1>6. ASSUME NEW nonce \in Nonce, NEW issuedAt \in Nat, NEW expiresAt \in Nat,
               Approvable(envelope),
               grants' = grants \cup {CreateApproval(envelope, nonce, issuedAt, expiresAt)}
        PROVE  \A g \in grants' : Good(g, grants')
    <2>1. PICK body : /\ CreateApproval(envelope, nonce, issuedAt, expiresAt) = Sealed(body)
                      /\ MadeByTheKernel(body)
      BY <1>6, CreatedByTheKernel
    <2>2. QED BY <1>1, <1>2, <1>4, <1>6, <2>1
  <1>7. ASSUME NEW g \in grants, ApprovalValid(g, Expectation, now),
               grants' = grants \cup {ConsumedCopy(g)}
        PROVE  \A h \in grants' : Good(h, grants')
    <2>1. g.integrity = IntegrityFor(g.body)
      BY <1>7 DEF ApprovalValid
    <2>2. g.integrity[2] = g.body
      BY <2>1 DEF IntegrityFor
    <2>3. MadeByTheKernel(g.body)
      BY <1>1, <2>2 DEF Good
    <2> DEFINE copy == [g.body EXCEPT !.used = TRUE]
    <2>4. MadeByTheKernel(copy)
      BY <2>3, UsedCopyIsMadeByTheKernel
    <2>5. ConsumedCopy(g) = Sealed(copy)
      BY DEF ConsumedCopy
    <2> HIDE DEF copy
    <2>6. Good(Sealed(copy), grants')
      BY <1>2, <1>7, <2>4, <2>5
    <2>7. QED BY <1>1, <1>4, <1>7, <2>5, <2>6
  <1>8. ASSUME NEW g \in grants, NEW body, grants' = grants \cup {[g EXCEPT !.body = body]}
        PROVE  \A h \in grants' : Good(h, grants')
    <2>1. [g EXCEPT !.body = body].integrity = g.integrity
      BY DEF TypeOK
    <2>2. Good([g EXCEPT !.body = body], grants)
      BY <1>1, <2>1 DEF Good
    <2>3. QED BY <1>1, <1>4, <1>8, <2>2
  <1>9. QED BY <1>5, <1>6, <1>7, <1>8, GrantsMoveSo DEF GrantsStep

\* The inductive invariant holds of every state.
THEOREM Inductive == Spec => [](TypeOK /\ EnvelopeInv /\ SealInv)
  <1>1. Init => EnvelopeInv /\ SealInv
    BY DEF Init, EnvelopeInv, SealInv
  <1>2. TypeOK /\ EnvelopeInv /\ SealInv /\ [Next]_vars => EnvelopeInv' /\ SealInv'
    BY EnvelopeStep, SealStep
  <1>3. QED BY <1>1, <1>2, TypeCorrect, PTL DEF Spec

\* The newest envelope is always a verdict on an input that is true of its own
\* subject, except that the candidate's objective and citations may be those of
\* another candidate, and the required evidence that of another case
\* (Permission!EnvelopeInv).
THEOREM EnvelopesTellTheTruth == Spec => []EnvelopeInv
  BY Inductive, PTL

\* The signature of every copy of a grant is over a body the kernel made for a
\* decision that waited for a human (Permission!SealInv).
THEOREM SealsAreTheKernels == Spec => []SealInv
  BY Inductive, PTL

-----------------------------------------------------------------------------
(***************************************************************************)
(* Safety                                                                  *)
(***************************************************************************)
\* The kernel waits for a human, or admits, only where the case's policy, its
\* constraints, the authorized objective and the trials justify one subject.
\* Whose objective and citations, and which case's required evidence, were
\* compared is open (Justified, Permission!PermitsOnlyTheJustified).
THEOREM OnlyTheJustifiedIsPermitted == Spec => []PermitsOnlyTheJustified
  <1>1. EnvelopeInv => PermitsOnlyTheJustified
    <2>1. SUFFICES ASSUME EnvelopeInv, Permits(envelope)
                   PROVE  /\ Justified(Subject(envelope))
                          /\ NeedsHuman(Subject(envelope))
                                = (envelope.disposition = "WAITING_HUMAN")
      BY DEF PermitsOnlyTheJustified
    <2>2. envelope # Null /\ envelope.disposition \in {"WAITING_HUMAN", "ADMISSIBLE"}
      BY <2>1 DEF Permits
    <2> DEFINE d == InputOf(envelope)
    <2>3. /\ TellsTheTruth(d)
          /\ Subject(envelope) = Subject(d)
          /\ envelope.disposition = EvaluateContract(d)
      BY <2>1, <2>2, EnvelopeMatchesItsInput
    <2> HIDE DEF d
    <2>4. QED BY <2>2, <2>3, PassingIsJustified
  <1>2. QED BY <1>1, Inductive, PTL

\* Seven gates look neither at the available evidence nor at the citations; the
\* evidence gate can only get stricter when some evidence goes missing, cited or not.
LEMMA OnlyTheEvidenceGateMoves ==
    ASSUME NEW d, DOMAIN d = DecisionFields, NEW lost \in SUBSET d.available_evidence_ids,
           NEW uncited \in SUBSET lost
    PROVE  LET w == [d EXCEPT !.available_evidence_ids = @ \ lost,
                              !.candidate_evidence_ids = @ \ uncited]
           IN  /\ EvaluateIntent(w) = EvaluateIntent(d)
               /\ EvaluateConstraints(w) = EvaluateConstraints(d)
               /\ EvaluateConsequence(w) = EvaluateConsequence(d)
               /\ EvaluateReversibility(w) = EvaluateReversibility(d)
               /\ EvaluateRehearsal(w) = EvaluateRehearsal(d)
               /\ EvaluateAuthority(w) = EvaluateAuthority(d)
               /\ EvaluateVerification(w) = EvaluateVerification(d)
               /\ w.human_approval_required = d.human_approval_required
               /\ EvaluateEvidence(d) = "FAIL" => EvaluateEvidence(w) = "FAIL"
               /\ EvaluateEvidence(d) = "UNKNOWN" => EvaluateEvidence(w) \in {"FAIL", "UNKNOWN"}
               /\ {EvaluateEvidence(d), EvaluateEvidence(w)} \subseteq GateValue
  <1> DEFINE w == [d EXCEPT !.available_evidence_ids = @ \ lost,
                            !.candidate_evidence_ids = @ \ uncited]
  <1>1. /\ w.available_evidence_ids = d.available_evidence_ids \ lost
        /\ w.required_evidence_ids = d.required_evidence_ids
        /\ w.candidate_evidence_ids = d.candidate_evidence_ids \ uncited
        /\ w.human_approval_required = d.human_approval_required
    BY DEF DecisionFields
  <1>2. /\ w.authorized_objective = d.authorized_objective
        /\ w.candidate_objective = d.candidate_objective
        /\ w.hard_constraint_violations = d.hard_constraint_violations
        /\ w.constraints_checked = d.constraints_checked
        /\ w.consequence_class = d.consequence_class
        /\ w.consequence_assessed = d.consequence_assessed
    BY DEF DecisionFields
  <1>3. /\ w.reversibility_required = d.reversibility_required
        /\ w.reversibility_confirmed = d.reversibility_confirmed
        /\ w.rehearsal_required = d.rehearsal_required
        /\ w.rehearsal_passed = d.rehearsal_passed
        /\ w.required_authority = d.required_authority
        /\ w.requested_approver_role = d.requested_approver_role
        /\ w.verification_possible = d.verification_possible
    BY DEF DecisionFields
  <1> HIDE DEF w
  <1>4. /\ InvalidReferences(d) \subseteq InvalidReferences(w)
        /\ MissingRequired(d) \subseteq MissingRequired(w)
    BY <1>1 DEF InvalidReferences, MissingRequired
  <1>5. /\ EvaluateEvidence(d) = "FAIL" => EvaluateEvidence(w) = "FAIL"
        /\ EvaluateEvidence(d) = "UNKNOWN" => EvaluateEvidence(w) \in {"FAIL", "UNKNOWN"}
        /\ {EvaluateEvidence(d), EvaluateEvidence(w)} \subseteq GateValue
    BY <1>4 DEF EvaluateEvidence, GateValue
  <1>6. /\ EvaluateIntent(w) = EvaluateIntent(d)
        /\ EvaluateConstraints(w) = EvaluateConstraints(d)
        /\ EvaluateConsequence(w) = EvaluateConsequence(d)
    BY <1>2 DEF EvaluateIntent, EvaluateConstraints, EvaluateConsequence
  <1>7. /\ EvaluateReversibility(w) = EvaluateReversibility(d)
        /\ EvaluateRehearsal(w) = EvaluateRehearsal(d)
        /\ EvaluateAuthority(w) = EvaluateAuthority(d)
        /\ EvaluateVerification(w) = EvaluateVerification(d)
    BY <1>3 DEF EvaluateReversibility, EvaluateRehearsal, EvaluateAuthority,
                EvaluateVerification
  <1>8. QED BY <1>1, <1>5, <1>6, <1>7 DEF w

\* Had some evidence been missing, cited or no longer cited, the disposition
\* would have been the same or a stricter one (Permission!
\* WeakerEvidenceNeverHelps).
THEOREM LosingEvidenceNeverHelps == Spec => []WeakerEvidenceNeverHelps
  <1>1. ASSUME NEW d, DOMAIN d = DecisionFields, NEW lost \in SUBSET d.available_evidence_ids,
               NEW uncited \in SUBSET lost
        PROVE  Autonomy(EvaluateContract(
                    [d EXCEPT !.available_evidence_ids = @ \ lost,
                              !.candidate_evidence_ids = @ \ uncited]))
                  <= Autonomy(EvaluateContract(d))
    <2> DEFINE w == [d EXCEPT !.available_evidence_ids = @ \ lost,
                              !.candidate_evidence_ids = @ \ uncited]
    <2>1. /\ "FAIL" \in GateValues(d) => "FAIL" \in GateValues(w)
          /\ "UNKNOWN" \in GateValues(d) => GateValues(w) \cap {"FAIL", "UNKNOWN"} # {}
          /\ w.human_approval_required = d.human_approval_required
      <3>1. /\ EvaluateIntent(w) = EvaluateIntent(d)
            /\ EvaluateConstraints(w) = EvaluateConstraints(d)
            /\ EvaluateConsequence(w) = EvaluateConsequence(d)
            /\ EvaluateReversibility(w) = EvaluateReversibility(d)
            /\ EvaluateRehearsal(w) = EvaluateRehearsal(d)
            /\ EvaluateAuthority(w) = EvaluateAuthority(d)
            /\ EvaluateVerification(w) = EvaluateVerification(d)
            /\ w.human_approval_required = d.human_approval_required
            /\ EvaluateEvidence(d) = "FAIL" => EvaluateEvidence(w) = "FAIL"
            /\ EvaluateEvidence(d) = "UNKNOWN" => EvaluateEvidence(w) \in {"FAIL", "UNKNOWN"}
        BY <1>1, OnlyTheEvidenceGateMoves
      <3> HIDE DEF w
      <3>2. QED BY <3>1 DEF GateValues
    <2> HIDE DEF w
    <2>2. Autonomy(EvaluateContract(w)) <= Autonomy(EvaluateContract(d))
      BY <2>1 DEF EvaluateContract, Autonomy
    <2>3. QED BY <2>2 DEF w
  <1>2. EnvelopeInv => WeakerEvidenceNeverHelps
    <2>1. SUFFICES ASSUME EnvelopeInv, envelope # Null,
                          NEW lost \in SUBSET InputOf(envelope).available_evidence_ids,
                          NEW uncited \in SUBSET lost
                   PROVE  Autonomy(EvaluateContract(
                             [InputOf(envelope) EXCEPT !.available_evidence_ids = @ \ lost,
                                                       !.candidate_evidence_ids = @ \ uncited]))
                            <= Autonomy(envelope.disposition)
      BY DEF WeakerEvidenceNeverHelps
    <2>2. /\ DOMAIN InputOf(envelope) = DecisionFields
          /\ envelope.disposition = EvaluateContract(InputOf(envelope))
      BY <2>1, EnvelopeMatchesItsInput DEF TellsTheTruth
    <2>3. QED BY <1>1, <2>1, <2>2
  <1>3. QED BY <1>2, Inductive, PTL

\* A grant whose signature matches its body has a body the kernel made.
LEMMA SignedMeansMade ==
    ASSUME SealInv, NEW g \in grants, Signed(g)
    PROVE  MadeByTheKernel(g.body)
  <1>1. g.integrity[2] = g.body
    BY DEF Signed, IntegrityFor
  <1>2. QED BY <1>1 DEF SealInv

\* Every signed grant is for one decision that a human had to make, about a
\* subject that is justified (with the exception stated at Permission!
\* Justified), with the authority and class of the case (Permission!
\* GrantsAreExact).
THEOREM SignedGrantsAreExact == Spec => []GrantsAreExact
  <1>1. ASSUME SealInv, NEW g \in grants, Signed(g)
        PROVE  LET d == InputOf(g.body)
                   s == Subject(g.body)
               IN  /\ Subject(d) = s
                   /\ EvaluateContract(d) = "WAITING_HUMAN"
                   /\ Justified(s) /\ NeedsHuman(s)
                   /\ g.body.authority = ActionOf(s).authority
                   /\ g.body.consequence_class = ActionOf(s).consequence
    <2> DEFINE d == InputOf(g.body)
               s == Subject(g.body)
    <2>1. /\ TellsTheTruth(d)
          /\ EvaluateContract(d) = "WAITING_HUMAN"
          /\ s = Subject(d)
          /\ g.body.authority = d.required_authority
          /\ g.body.consequence_class = d.consequence_class
      BY <1>1, SignedMeansMade DEF MadeByTheKernel
    <2> HIDE DEF d, s
    <2>2. Justified(s) /\ NeedsHuman(s)
      BY <2>1, PassingIsJustified
    <2>3. /\ d.required_authority = PolicyOf(s).required_authority
          /\ d.consequence_class = PolicyOf(s).consequence_class
      BY <2>1 DEF TellsTheTruth
    <2>4. PolicyOf(s) = ActionPolicy(ActionOf(s), CandidateOf[s.candidate])
      BY <2>2 DEF Justified, PolicyOf
    <2>5. /\ PolicyOf(s).required_authority = ActionOf(s).authority
          /\ PolicyOf(s).consequence_class = ActionOf(s).consequence
      BY <2>4 DEF ActionPolicy
    <2>6. QED BY <2>1, <2>2, <2>3, <2>5 DEF d, s
  <1>2. SealInv => GrantsAreExact
    BY <1>1 DEF GrantsAreExact
  <1>3. QED BY <1>2, Inductive, PTL

\* Copies of grants stay in circulation.
LEMMA GrantsStay ==
    ASSUME TypeOK, [Next]_vars PROVE grants \subseteq grants'
  BY GrantsMoveSo DEF GrantsStep

\* Admissions are recorded only by consuming a grant, one at a time.
LEMMA AdmissionsMoveSo ==
    ASSUME TypeOK, [Next]_vars
    PROVE  UNCHANGED admissions \/ \E g \in grants : Consume(g)
  BY OnlyTheWorld, OnlyReceipts DEF Next, vars, UseGrant, Approve, Alter, Decide

\* What a valid grant shows: it is signed, in force, and for the world as it is.
LEMMA ValidForTheWorld ==
    ASSUME NEW g, ApprovalValid(g, Expectation, now)
    PROVE  /\ Signed(g) /\ Subject(g.body) = SubjectOf(world)
           /\ g.body.issued_at <= now /\ now < g.body.expires_at
  <1>1. /\ g.body.candidate_fingerprint = CandidateFingerprint(world.candidate)
        /\ g.body.case_fingerprint = CaseFingerprint(world.case)
        /\ g.body.evidence_fingerprint = EvidenceFingerprint(world.registry)
        /\ g.body.state_fingerprint = StateFingerprint(world.state)
    BY DEF ApprovalValid, Expected, Expectation
  <1>2. Subject(g.body) = SubjectOf(world)
    BY <1>1 DEF Subject, SubjectOf, CaseFingerprint, CandidateFingerprint,
                EvidenceFingerprint, StateFingerprint
  <1>3. QED BY <1>2 DEF ApprovalValid, InForce, Signed

\* A grant is consumed only in the world a human approved, from the moment the
\* approval is issued and before it expires (Permission!AdmissionsWereApproved).
THEOREM OnlyTheApprovedIsAdmitted == Spec => []AdmissionsWereApproved
  <1> DEFINE Backed(a, all) == \E g \in all : /\ Signed(g)
                                              /\ g.body.nonce = a.nonce
                                              /\ Subject(g.body) = SubjectOf(a.world)
                                              /\ g.body.issued_at <= a.at
                                              /\ a.at < g.body.expires_at
  <1>1. Init => AdmissionsWereApproved
    BY DEF Init, AdmissionsWereApproved
  <1>2. ASSUME TypeOK, AdmissionsWereApproved, [Next]_vars PROVE AdmissionsWereApproved'
    <2>1. \A i \in 1..Len(admissions) : Backed(admissions[i], grants)
      BY <1>2 DEF AdmissionsWereApproved
    <2>2. \A a : Backed(a, grants) => Backed(a, grants')
      BY <1>2, GrantsStay
    <2>3. ASSUME NEW g \in grants, Consume(g)
          PROVE  Backed([nonce |-> g.body.nonce, world |-> world, at |-> now], grants)
      BY <2>3, ValidForTheWorld DEF Consume
    <2>4. SUFFICES \A i \in 1..Len(admissions') : Backed(admissions'[i], grants')
      BY DEF AdmissionsWereApproved
    <2> HIDE DEF Backed
    <2>5. CASE UNCHANGED admissions
      BY <2>1, <2>2, <2>5
    <2>6. ASSUME NEW g \in grants, Consume(g)
          PROVE  \A i \in 1..Len(admissions') : Backed(admissions'[i], grants')
      <3> DEFINE a == [nonce |-> g.body.nonce, world |-> world, at |-> now]
      <3>1. admissions' = Append(admissions, a) /\ Backed(a, grants')
        BY <2>2, <2>3, <2>6 DEF Consume
      <3>2. admissions \in Seq([nonce : Nonce, world : World, at : 0..MaxTime])
        BY <1>2 DEF TypeOK
      <3> HIDE DEF a
      <3>3. QED BY <2>1, <2>2, <3>1, <3>2
    <2>7. QED BY <1>2, <2>5, <2>6, AdmissionsMoveSo
  <1>3. QED BY <1>1, <1>2, TypeCorrect, PTL DEF Spec

-----------------------------------------------------------------------------
(***************************************************************************)
(* Refinement                                                              *)
(***************************************************************************)
Permit(g) == [situation |-> Subject(g.body), from |-> g.body.issued_at,
              until |-> g.body.expires_at]

PermitsOf(all) == {Permit(g) : g \in {h \in all : Signed(h)}}

AdmittedOf(log) ==
    [i \in 1..Len(log) |-> [situation |-> SubjectOf(log[i].world), at |-> log[i].at]]

\* The world is always about one of the subjects.
LEMMA WorldIsASubject ==
    ASSUME NEW w \in World PROVE SubjectOf(w) \in Subjects
  <1>1. w.case \in Content /\ w.candidate \in Candidate /\ w.registry \in Registry
        /\ w.state \in State
    BY DEF World
  <1>2. QED BY <1>1, CasesAssumption DEF SubjectOf, Subjects

\* Using a grant, or altering a copy of it, permits nothing that was not
\* permitted: the used copy is for the same subject and time, and an altered
\* copy is unsigned unless it restores the body that was signed.
LEMMA CopiesPermitNothingNew ==
    ASSUME TypeOK, SealInv, NEW g \in grants, NEW h,
           \/ ApprovalValid(g, Expectation, now) /\ h = ConsumedCopy(g)
           \/ \E body : h = [g EXCEPT !.body = body]
    PROVE  PermitsOf(grants \cup {h}) = PermitsOf(grants)
  <1>1. ASSUME Signed(h) PROVE \E k \in grants : Signed(k) /\ Permit(k) = Permit(h)
    <2>1. CASE ApprovalValid(g, Expectation, now) /\ h = ConsumedCopy(g)
      <3>1. Signed(g)
        BY <2>1, ValidForTheWorld
      <3>2. MadeByTheKernel(g.body)
        BY <3>1, SignedMeansMade
      <3> DEFINE copy == [g.body EXCEPT !.used = TRUE]
      <3>3. /\ Subject(copy) = Subject(g.body)
            /\ copy.issued_at = g.body.issued_at /\ copy.expires_at = g.body.expires_at
        BY <3>2, UsedCopyIsMadeByTheKernel
      <3>4. h.body = copy
        BY <2>1, SealNamesItsBody DEF ConsumedCopy
      <3> HIDE DEF copy
      <3>5. Permit(h) = Permit(g)
        BY <3>3, <3>4 DEF Permit
      <3>6. QED BY <3>1, <3>5
    <2>2. CASE \E body : h = [g EXCEPT !.body = body]
      <3>1. h.integrity = g.integrity
        BY <2>2 DEF TypeOK
      <3>2. h.body = g.integrity[2]
        BY <1>1, <3>1 DEF Signed, IntegrityFor
      <3>3. Sealed(h.body) \in grants
        BY <3>2 DEF SealInv
      <3>4. Signed(Sealed(h.body)) /\ Permit(Sealed(h.body)) = Permit(h)
        BY SealNamesItsBody DEF Signed, Permit
      <3>5. QED BY <3>3, <3>4
    <2>3. QED BY <2>1, <2>2
  <1>2. QED BY <1>1 DEF PermitsOf

\* Recording an admission records it for the abstract log too.
LEMMA AppendAdmitted ==
    ASSUME NEW S, NEW log \in Seq(S), NEW a \in S
    PROVE  AdmittedOf(Append(log, a)) =
              Append(AdmittedOf(log), [situation |-> SubjectOf(a.world), at |-> a.at])
  BY DEF AdmittedOf

\* Every step of the kernel is a step, or a stutter, of the abstract authority.
LEMMA StepsRefine ==
    ASSUME TypeOK, EnvelopeInv, SealInv, [Next]_vars
    PROVE  [Auth!AuthNext]_(Auth!authVars)
  <1>1. /\ world \in World /\ now \in Nat
        /\ admissions \in Seq([nonce : Nonce, world : World, at : 0..MaxTime])
        /\ now \in 0..MaxTime
    BY BoundsAssumption DEF TypeOK
  <1>2. ASSUME UNCHANGED <<world, now, grants, admissions>>
        PROVE  UNCHANGED Auth!authVars
    BY <1>2 DEF Auth!authVars
  <1>3. CASE WorldChanges
    <2>1. /\ world' \in World
          /\ UNCHANGED <<grants, admissions>>
      BY <1>3, OnlyTheWorld
    <2>2. CASE Tick
      <3>1. now' = now + 1 /\ UNCHANGED <<world, grants, admissions>>
        BY <2>2 DEF Tick
      <3>2. Auth!TimePasses
        BY <3>1 DEF Auth!TimePasses
      <3>3. QED BY <3>2 DEF Auth!AuthNext
    <2>3. CASE UNCHANGED now
      <3>1. SubjectOf(world') \in Subjects
        BY <2>1, WorldIsASubject
      <3>2. SubjectOf(world)' \in Subjects
        BY <3>1 DEF SubjectOf
      <3>3. Auth!SituationChanges
        BY <2>1, <2>3, <3>2 DEF Auth!SituationChanges
      <3>4. QED BY <3>3 DEF Auth!AuthNext
    <2>4. QED
      BY <1>3, <2>2, <2>3
      DEF WorldChanges, ReviseCase, Propose, EvidenceArrives, StateMoves, Change
  <1>4. CASE BuildReceipt
    BY <1>2, <1>4, OnlyReceipts
  <1>5. CASE \E a \in Assertion : Decide(a)
    BY <1>2, <1>5 DEF Decide
  <1>6. CASE UNCHANGED vars
    BY <1>2, <1>6 DEF vars
  <1>7. ASSUME NEW g \in grants, Consume(g)
        PROVE  Auth!Admit
    <2>1. /\ ApprovalValid(g, Expectation, now)
          /\ grants' = grants \cup {ConsumedCopy(g)}
          /\ UNCHANGED <<world, now>>
      BY <1>7 DEF Consume
    <2>2. PermitsOf(grants') = PermitsOf(grants)
      BY <2>1, CopiesPermitNothingNew
    <2>3. /\ Signed(g) /\ Subject(g.body) = SubjectOf(world)
          /\ g.body.issued_at <= now /\ now < g.body.expires_at
      BY <2>1, ValidForTheWorld
    <2>4. \E p \in PermitsOf(grants) :
             p.situation = SubjectOf(world) /\ p.from <= now /\ now < p.until
      <3>1. Permit(g) \in PermitsOf(grants)
        BY <2>3 DEF PermitsOf
      <3>2. /\ Permit(g).situation = SubjectOf(world)
            /\ Permit(g).from <= now /\ now < Permit(g).until
        BY <2>3 DEF Permit
      <3>3. QED BY <3>1, <3>2
    <2>5. AdmittedOf(admissions') =
             Append(AdmittedOf(admissions), [situation |-> SubjectOf(world), at |-> now])
      <3> DEFINE a == [nonce |-> g.body.nonce, world |-> world, at |-> now]
      <3>1. admissions' = Append(admissions, a)
        BY <1>7 DEF Consume
      <3>2. g.body.nonce \in Nonce
        BY DEF TypeOK
      <3>3. a \in [nonce : Nonce, world : World, at : 0..MaxTime]
        BY <1>1, <3>2
      <3>4. a.world = world /\ a.at = now
        OBVIOUS
      <3> HIDE DEF a
      <3>5. QED BY <1>1, <3>1, <3>3, <3>4, AppendAdmitted
    <2>6. QED
      BY <2>1, <2>2, <2>4, <2>5
      DEF Auth!Admit, Auth!Permitted, PermitsOf, Permit, AdmittedOf
  <1>8. ASSUME NEW nonce \in Nonce, NEW issuedAt \in now..MaxTime,
               NEW lifetime \in 0..MaxLifetime,
               Approve(nonce, issuedAt, issuedAt + lifetime)
        PROVE  \E p \in PermitsOf(grants') :
                  /\ p.situation \in {s \in Subjects : Justified(s)}
                  /\ p.from < p.until
                  /\ PermitsOf(grants') = PermitsOf(grants) \cup {[situation |-> p.situation,
                                                from |-> p.from, until |-> p.until]}
                  /\ UNCHANGED <<world, now, admissions>>
    <2> DEFINE new == CreateApproval(envelope, nonce, issuedAt, issuedAt + lifetime)
    <2>1. /\ Approvable(envelope) /\ issuedAt < issuedAt + lifetime
          /\ grants' = grants \cup {new}
          /\ UNCHANGED <<world, now, admissions>>
      <3>1. issuedAt \in Nat /\ issuedAt + lifetime \in Nat
        BY <1>1, BoundsAssumption
      <3>2. QED BY <1>8, <3>1 DEF Approve
    <2>2. PICK body : /\ new = Sealed(body) /\ MadeByTheKernel(body)
                      /\ body.issued_at = issuedAt
                      /\ body.expires_at = issuedAt + lifetime
      BY <2>1, CreatedByTheKernel
    <2> HIDE DEF new
    <2>3. Signed(new) /\ new.body = body
      BY <2>2, SealNamesItsBody DEF Signed
    <2>4. Justified(Subject(body)) /\ Subject(body) \in Subjects
      BY <2>2, PassingIsJustified DEF MadeByTheKernel, TellsTheTruth
    <2>5. PermitsOf(grants') = PermitsOf(grants) \cup {Permit(new)}
      BY <2>1, <2>3 DEF PermitsOf
    <2>6. /\ Permit(new).situation = Subject(body)
          /\ Permit(new).from = issuedAt /\ Permit(new).until = issuedAt + lifetime
          /\ Permit(new) = [situation |-> Subject(body), from |-> issuedAt,
                            until |-> issuedAt + lifetime]
      BY <2>2, <2>3 DEF Permit
    <2>7. QED BY <2>1, <2>4, <2>5, <2>6
  <1>9. ASSUME NEW g \in grants, NEW body, Alter(g, body)
        PROVE  UNCHANGED Auth!authVars
    <2>1. /\ grants' = grants \cup {[g EXCEPT !.body = body]}
          /\ UNCHANGED <<world, now, admissions>>
      BY <1>9 DEF Alter
    <2>2. PermitsOf(grants') = PermitsOf(grants)
      BY <2>1, CopiesPermitNothingNew
    <2>3. QED BY <2>1, <2>2 DEF Auth!authVars, PermitsOf, Permit
  <1>10. CASE UseGrant
    <2>1. CASE \E g \in grants : Consume(g)
      BY <1>7, <2>1 DEF Auth!AuthNext
    <2>2. ASSUME NEW nonce \in Nonce, NEW issuedAt \in now..MaxTime,
                 NEW lifetime \in 0..MaxLifetime,
                 Approve(nonce, issuedAt, issuedAt + lifetime)
          PROVE  Auth!AuthNext
      BY <1>8, <2>2
      DEF Auth!AuthNext, Auth!HumanPermits, PermitsOf, Permit, AdmittedOf
    <2>3. QED BY <1>9, <1>10, <2>1, <2>2 DEF UseGrant
  <1>11. QED BY <1>3, <1>4, <1>5, <1>6, <1>10 DEF Next

\* The kernel implements the abstract authority: whatever it admits, some human
\* permitted, and what a human may permit is justified, with the exception
\* stated at Permission!Justified (Permission!ImplementsAuthorization, module
\* Authorization).
THEOREM KernelImplementsAuthorization == Spec => ImplementsAuthorization
  <1>1. Init => Auth!AuthInit
    <2>1. SUFFICES ASSUME Init PROVE Auth!AuthInit
      OBVIOUS
    <2>2. SubjectOf(world) \in Subjects
      BY <2>1, WorldIsASubject DEF Init
    <2>3. grants = {} /\ admissions = <<>> /\ now = 0
      BY <2>1 DEF Init
    <2>4. QED BY <2>2, <2>3 DEF Auth!AuthInit
  <1>2. TypeOK /\ EnvelopeInv /\ SealInv /\ [Next]_vars => [Auth!AuthNext]_(Auth!authVars)
    BY StepsRefine
  <1>3. QED BY <1>1, <1>2, Inductive, PTL DEF Spec, ImplementsAuthorization, Auth!AuthSpec
=============================================================================
