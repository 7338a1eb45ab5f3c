------------------------------ MODULE Contract ------------------------------
(***************************************************************************)
(* The permission kernel of src/resolve/contract.py: the receipts, the     *)
(* policy derived from the case, the decision input assembled from them,   *)
(* the eight gates and the disposition.                                    *)
(*                                                                         *)
(* Abstractions.  A case is the id of its content: that normalizing keeps  *)
(* the content and nothing else of what was written is shown in module     *)
(* CaseNormalize.  SHA-256 over a canonical form is a collision-free       *)
(* constructor: a fingerprint is a pair <<domain, canonical form>>.        *)
(* Scalars carry their Python type, because the code compares type and     *)
(* value.  Violation codes are pairs <<code, subject>>, kept as a set.     *)
(* Shape checks (string lengths, digest syntax) are left out.              *)
(***************************************************************************)
EXTENDS Integers, FiniteSets

CONSTANTS
    Null,         \* Python's None
    CaseOf,       \* content id -> normalized case
    CandidateOf   \* candidate id -> candidate

(***************************************************************************)
(* Vocabulary                                                              *)
(***************************************************************************)
GateValue == {"PASS", "FAIL", "UNKNOWN"}

Disposition == {"BLOCKED", "MORE_EVIDENCE_REQUIRED", "WAITING_HUMAN", "ADMISSIBLE"}

ConsequenceRank == [C0 |-> 0, C1 |-> 1, C2 |-> 2, C3 |-> 3, C4 |-> 4]

ConsequenceClass == DOMAIN ConsequenceRank

HighConsequence(class) == ConsequenceRank[class] >= ConsequenceRank["C2"]

(***************************************************************************)
(* Identity                                                                *)
(***************************************************************************)
NormalizeCase(raw) == CaseOf[raw]

CaseFingerprint(raw) == <<"case", raw>>

CandidateFingerprint(candidate) == <<"candidate", candidate>>

EvidenceFingerprint(registry) == <<"evidence", registry>>

StateFingerprint(state) == <<"state", state>>

DecisionFingerprint(input) == <<"decision", input>>

(***************************************************************************)
(* The policy an action of the case puts on a candidate                    *)
(***************************************************************************)
SameScalar(a, b) == a.type = b.type /\ a.value = b.value

IsNumber(v) == v.type \in {"int", "float"}

RangeBound(rule, key) == IF key \in DOMAIN rule.bounds THEN rule.bounds[key] ELSE Null

WithinRange(value, rule) ==
    LET minimum == RangeBound(rule, "minimum")
        maximum == RangeBound(rule, "maximum")
    IN  /\ IsNumber(value)
        /\ minimum # Null => IsNumber(minimum) /\ value.value >= minimum.value
        /\ maximum # Null => IsNumber(maximum) /\ value.value <= maximum.value
        /\ minimum # Null \/ maximum # Null

\* A rule is an enumeration (a YAML list), a mapping of bounds or one scalar.
\* A mapping with an unknown key, or none, yields None: the rule is not checked.
WellFormedBounds(rule) ==
    DOMAIN rule.bounds # {} /\ DOMAIN rule.bounds \subseteq {"minimum", "maximum"}

ParameterAllowed(value, rule) ==
    CASE rule.kind = "list"    -> \E item \in rule.items : SameScalar(value, item)
      [] rule.kind = "mapping" -> IF WellFormedBounds(rule)
                                  THEN WithinRange(value, rule) ELSE Null
      [] rule.kind = "scalar"  -> SameScalar(value, rule.scalar)

SharedParameters(action, candidate) ==
    DOMAIN candidate.parameters \cap DOMAIN action.allowed_parameters

ParameterVerdict(action, candidate, name) ==
    ParameterAllowed(candidate.parameters[name], action.allowed_parameters[name])

PolicyChecked(action, candidate) ==
    /\ action.allowed_targets # Null
    /\ \A name \in SharedParameters(action, candidate) :
          ParameterVerdict(action, candidate, name) # Null

PolicyViolations(action, candidate) ==
    {v \in {<<"TARGET_NOT_AUTHORIZED", "target">>} :
        /\ action.allowed_targets # Null
        /\ ~ \E t \in action.allowed_targets : SameScalar(candidate.target, t)}
    \cup
    {v \in {<<"PARAMETER_SET_NOT_AUTHORIZED", "parameters">>} :
        DOMAIN candidate.parameters # DOMAIN action.allowed_parameters}
    \cup
    {<<"PARAMETER_NOT_AUTHORIZED", name>> :
        name \in {n \in SharedParameters(action, candidate) :
                     ParameterVerdict(action, candidate, n) = FALSE}}

UnknownActionPolicy ==
    [constraints_checked    |-> TRUE,
     violations             |-> {<<"ACTION_NOT_AUTHORIZED", "action_type">>},
     consequence_class      |-> Null,
     reversibility_required |-> TRUE,
     rehearsal_required     |-> TRUE,
     human_required         |-> TRUE,
     required_authority     |-> Null,
     reversible             |-> FALSE]

ActionPolicy(action, candidate) ==
    LET high == HighConsequence(action.consequence)
    IN  [constraints_checked    |-> PolicyChecked(action, candidate),
         violations             |-> PolicyViolations(action, candidate),
         consequence_class      |-> action.consequence,
         reversibility_required |-> high,
         rehearsal_required     |-> high \/ action.rehearsal_required,
         human_required         |-> high \/ action.human_approval_required,
         required_authority     |-> action.authority,
         reversible             |-> action.reversible]

DerivePolicy(raw, candidate) ==
    LET actions  == NormalizeCase(raw).actions
        proposed == CandidateOf[candidate]
    IN  IF proposed.action_type \in DOMAIN actions
        THEN ActionPolicy(actions[proposed.action_type], proposed)
        ELSE UnknownActionPolicy

(***************************************************************************)
(* Receipts                                                                *)
(***************************************************************************)
EvidenceReceipt(registry, required, cited) ==
    [evidence_fingerprint   |-> EvidenceFingerprint(registry),
     required_evidence_ids  |-> required,
     available_evidence_ids |-> DOMAIN registry,
     candidate_evidence_ids |-> cited]

ObjectiveReceipt(raw, evidence, candidateObjective, authorized) ==
    [case_fingerprint     |-> CaseFingerprint(raw),
     evidence_fingerprint |-> evidence.evidence_fingerprint,
     authorized_objective |-> authorized,
     candidate_objective  |-> candidateObjective]

ConstraintReceipt(raw, candidate, checked, violations) ==
    [case_fingerprint       |-> CaseFingerprint(raw),
     candidate_fingerprint  |-> CandidateFingerprint(candidate),
     checked_constraint_ids |-> checked,
     violations             |-> violations]

RehearsalReceipt(candidate, state, passed) ==
    [candidate_fingerprint |-> CandidateFingerprint(candidate),
     state_fingerprint     |-> StateFingerprint(state),
     passed                |-> passed]

VerificationReceipt(candidate, state, possible) ==
    [candidate_fingerprint |-> CandidateFingerprint(candidate),
     state_fingerprint     |-> StateFingerprint(state),
     possible              |-> possible]

(***************************************************************************)
(* The decision input                                                      *)
(***************************************************************************)
\* Mutant: an objective receipt of an older evidence registry is accepted.
ObjectiveReceiptMatchesCaseOnly(receipt, raw, evidence) ==
    receipt.case_fingerprint = CaseFingerprint(raw)

ObjectiveReceiptMatches(receipt, raw, evidence) ==
    /\ receipt.case_fingerprint = CaseFingerprint(raw)
    /\ receipt.evidence_fingerprint = evidence.evidence_fingerprint

ConstraintReceiptMatches(receipt, raw, candidate) ==
    receipt # Null =>
        /\ receipt.case_fingerprint = CaseFingerprint(raw)
        /\ receipt.candidate_fingerprint = CandidateFingerprint(candidate)

\* Mutant: a rehearsal of the same candidate in another state is accepted.
RunReceiptMatchesAnyState(receipt, candidate, state) ==
    receipt # Null => receipt.candidate_fingerprint = CandidateFingerprint(candidate)

\* The same test guards the rehearsal and the verification receipt.
RunReceiptMatches(receipt, candidate, state) ==
    receipt # Null =>
        /\ receipt.candidate_fingerprint = CandidateFingerprint(candidate)
        /\ receipt.state_fingerprint = StateFingerprint(state)

\* build_decision_input raises DecisionValidationError unless all of these hold.
\* r holds the five receipts; the optional ones may be Null.
ReceiptsMatch(raw, candidate, state, r) ==
    /\ r.evidence # Null
    /\ r.objective # Null
    /\ ObjectiveReceiptMatches(r.objective, raw, r.evidence)
    /\ ConstraintReceiptMatches(r.constraint, raw, candidate)
    /\ RunReceiptMatches(r.rehearsal, candidate, state)
    /\ RunReceiptMatches(r.verification, candidate, state)

\* a holds what the caller asserts: consequence_assessed,
\* reversibility_confirmed and requested_approver_role.
DecisionInput(raw, candidate, state, r, a) ==
    LET policy == DerivePolicy(raw, candidate)
    IN  [case_fingerprint       |-> CaseFingerprint(raw),
         candidate_fingerprint  |-> CandidateFingerprint(candidate),
         evidence_fingerprint   |-> r.evidence.evidence_fingerprint,
         state_fingerprint      |-> StateFingerprint(state),
         authorized_objective   |-> r.objective.authorized_objective,
         candidate_objective    |-> r.objective.candidate_objective,
         required_evidence_ids  |-> r.evidence.required_evidence_ids,
         available_evidence_ids |-> r.evidence.available_evidence_ids,
         candidate_evidence_ids |-> r.evidence.candidate_evidence_ids,
         constraints_checked    |->
            /\ r.constraint # Null
            /\ policy.constraints_checked
            /\ r.constraint.checked_constraint_ids = NormalizeCase(raw).constraints,
         hard_constraint_violations |->
            policy.violations \cup
               (IF r.constraint = Null THEN {} ELSE r.constraint.violations),
         consequence_class       |-> policy.consequence_class,
         consequence_assessed    |-> a.consequence_assessed,
         reversibility_required  |-> policy.reversibility_required,
         reversibility_confirmed |->
            IF policy.reversibility_required /\ ~policy.reversible
            THEN FALSE ELSE a.reversibility_confirmed,
         rehearsal_required      |-> policy.rehearsal_required,
         rehearsal_passed        |->
            IF r.rehearsal = Null THEN Null ELSE r.rehearsal.passed,
         human_approval_required |-> policy.human_required,
         required_authority      |-> policy.required_authority,
         requested_approver_role |-> a.requested_approver_role,
         verification_possible   |->
            IF r.verification = Null THEN Null ELSE r.verification.possible]

(***************************************************************************)
(* The eight gates                                                         *)
(***************************************************************************)
\* A fact that two parties must agree on: unknown while either is missing.
AgreementGate(a, b) ==
    IF a = Null \/ b = Null THEN "UNKNOWN" ELSE IF a = b THEN "PASS" ELSE "FAIL"

\* A fact that is true, false or None, looked at only when required.
FactGate(required, fact) ==
    IF ~required THEN "PASS"
    ELSE IF fact = Null THEN "UNKNOWN"
    ELSE IF fact THEN "PASS" ELSE "FAIL"

EvaluateIntent(d) == AgreementGate(d.authorized_objective, d.candidate_objective)

InvalidReferences(d) == d.candidate_evidence_ids \ d.available_evidence_ids

MissingRequired(d) ==
    (d.required_evidence_ids \ d.available_evidence_ids) \cup
    (d.required_evidence_ids \ d.candidate_evidence_ids)

\* Mutant: the two tests in the other order.
EvaluateEvidenceMissingFirst(d) ==
    IF MissingRequired(d) # {} THEN "UNKNOWN"
    ELSE IF InvalidReferences(d) # {} THEN "FAIL" ELSE "PASS"

EvaluateEvidence(d) ==
    IF InvalidReferences(d) # {} THEN "FAIL"
    ELSE IF MissingRequired(d) # {} THEN "UNKNOWN" ELSE "PASS"

EvaluateConstraints(d) ==
    IF d.hard_constraint_violations # {} THEN "FAIL"
    ELSE IF ~d.constraints_checked THEN "UNKNOWN" ELSE "PASS"

EvaluateConsequence(d) ==
    IF d.consequence_class = Null \/ ~d.consequence_assessed THEN "UNKNOWN" ELSE "PASS"

EvaluateReversibility(d) == FactGate(d.reversibility_required, d.reversibility_confirmed)

EvaluateRehearsal(d) == FactGate(d.rehearsal_required, d.rehearsal_passed)

EvaluateAuthority(d) == AgreementGate(d.required_authority, d.requested_approver_role)

EvaluateVerification(d) == FactGate(TRUE, d.verification_possible)

GateValues(d) ==
    {EvaluateIntent(d), EvaluateEvidence(d), EvaluateConstraints(d),
     EvaluateConsequence(d), EvaluateReversibility(d), EvaluateRehearsal(d),
     EvaluateAuthority(d), EvaluateVerification(d)}

\* Mutant: an unknown gate does not hold the decision back.
EvaluateContractFailuresOnly(d) ==
    IF "FAIL" \in GateValues(d) THEN "BLOCKED"
    ELSE IF d.human_approval_required THEN "WAITING_HUMAN" ELSE "ADMISSIBLE"

EvaluateContract(d) ==
    IF "FAIL" \in GateValues(d) THEN "BLOCKED"
    ELSE IF "UNKNOWN" \in GateValues(d) THEN "MORE_EVIDENCE_REQUIRED"
    ELSE IF d.human_approval_required THEN "WAITING_HUMAN" ELSE "ADMISSIBLE"

\* The envelope a decision is persisted and approved as.
EvaluateDecision(d) ==
    [decision_fingerprint    |-> DecisionFingerprint(d),
     case_fingerprint        |-> d.case_fingerprint,
     candidate_fingerprint   |-> d.candidate_fingerprint,
     evidence_fingerprint    |-> d.evidence_fingerprint,
     state_fingerprint       |-> d.state_fingerprint,
     required_authority      |-> d.required_authority,
     consequence_class       |-> d.consequence_class,
     human_approval_required |-> d.human_approval_required,
     disposition             |-> EvaluateContract(d)]
=============================================================================
