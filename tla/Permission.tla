----------------------------- MODULE Permission -----------------------------
(***************************************************************************)
(* The permission life cycle around the kernel: receipts are built one by  *)
(* one while the case, the candidate, the evidence and the state of the    *)
(* payment system keep changing; a decision is assembled from whichever    *)
(* receipts are at hand, approved by a human, and its grant is consumed    *)
(* some time later.  Every operation is one call into                      *)
(* src/resolve/contract.py or src/resolve/approval.py.                     *)
(*                                                                         *)
(* The caller is not under src/: the tests call the kernel this way.  It   *)
(* keeps the newest receipt of each kind, the newest envelope and every    *)
(* copy of a grant, and passes the kernel its current view of the world.   *)
(* Trusted validators and the simulator are functions of their subject.    *)
(***************************************************************************)
EXTENDS Approval, Sequences

CONSTANTS
    Content,              \* ids of the contents of cases
    Candidate,            \* ids of candidates
    Registry,             \* evidence registries: evidence id -> content digest
    State,                \* states of the system acted upon
    Nonce,                \* nonces of grants
    Assertion,            \* what a caller may assert about a decision
    RequiredEvidence,     \* content -> evidence ids
    AuthorizedObjective,  \* <<content, registry>> -> objective or Null
    ConstraintReport,     \* <<constraint, content, candidate>> -> violations
    RehearsalOutcome,     \* <<candidate, state>> -> BOOLEAN
    VerificationOutcome,  \* <<candidate, state>> -> BOOLEAN
    MaxChanges,           \* bound: changes of the world
    MaxTime,              \* bound: ticks of the clock
    MaxLifetime,          \* bound: longest lifetime of a grant
    MaxAdmissions         \* bound: consumed grants recorded

VARIABLES
    world,       \* [case, candidate, registry, state] as they are now
    changes,     \* how often the world changed
    receipts,    \* the newest receipt of each kind, Null before the first
    envelope,    \* the newest evaluated decision, or Null
    grants,      \* every copy of a grant in circulation
    now,         \* the clock
    admissions   \* the consumed grants, in order, with the world they were used in

vars == <<world, changes, receipts, envelope, grants, now, admissions>>

ReceiptKind == {"evidence", "objective", "constraint", "rehearsal", "verification"}

World == [case : Content, candidate : Candidate, registry : Registry, state : State]

(***************************************************************************)
(* What the constants must look like.  normalize_case checks the classes   *)
(* and reversible, and _derive_policy refuses the other two flags unless   *)
(* they are Booleans; a rule is a list, a mapping or a scalar (case.py).   *)
(***************************************************************************)
ASSUME CasesAssumption ==
    \A c \in Content : \A id \in DOMAIN CaseOf[c].actions :
        LET action == CaseOf[c].actions[id]
        IN  /\ action.consequence \in ConsequenceClass
            /\ action.reversible \in BOOLEAN
            /\ action.human_approval_required \in BOOLEAN
            /\ action.rehearsal_required \in BOOLEAN
            /\ \A name \in DOMAIN action.allowed_parameters :
                  action.allowed_parameters[name].kind \in {"list", "mapping", "scalar"}

ASSUME OutcomesAssumption ==
    \A k \in Candidate, s \in State :
        RehearsalOutcome[<<k, s>>] \in BOOLEAN /\ VerificationOutcome[<<k, s>>] \in BOOLEAN

ASSUME BoundsAssumption ==
    /\ MaxChanges \in Nat
    /\ MaxTime \in Nat
    /\ MaxLifetime \in Nat
    /\ MaxAdmissions \in Nat

-----------------------------------------------------------------------------
(***************************************************************************)
(* The world changes under the caller's hands.                             *)
(***************************************************************************)
Change(new) ==
    /\ changes < MaxChanges
    /\ new # world
    /\ world' = new
    /\ changes' = changes + 1
    /\ UNCHANGED <<receipts, envelope, grants, now, admissions>>

ReviseCase(raw) == Change([world EXCEPT !.case = raw])

Propose(candidate) == Change([world EXCEPT !.candidate = candidate])

EvidenceArrives(registry) == Change([world EXCEPT !.registry = registry])

StateMoves(state) == Change([world EXCEPT !.state = state])

Tick ==
    /\ now < MaxTime
    /\ now' = now + 1
    /\ UNCHANGED <<world, changes, receipts, envelope, grants, admissions>>

-----------------------------------------------------------------------------
(***************************************************************************)
(* Receipts                                                                *)
(***************************************************************************)
Keep(new) ==
    /\ receipts' = new
    /\ UNCHANGED <<world, changes, envelope, grants, now, admissions>>

EvidenceOf(registry, content, candidate) ==
    EvidenceReceipt(registry, RequiredEvidence[content], CandidateOf[candidate].evidence_ids)

BuildEvidenceReceipt ==
    Keep([receipts EXCEPT !.evidence =
             EvidenceOf(world.registry, world.case, world.candidate)])

ObjectiveOf(raw, evidence, registry, candidate) ==
    ObjectiveReceipt(raw, evidence, CandidateOf[candidate].objective,
                     AuthorizedObjective[<<raw, registry>>])

\* The validator sees the evidence receipt, which may be of an older registry.
BuildObjectiveReceipt ==
    /\ receipts.evidence # Null
    /\ Keep([receipts EXCEPT !.objective =
                ObjectiveOf(world.case, receipts.evidence,
                            receipts.evidence.evidence_fingerprint[2], world.candidate)])

\* What the chosen validators report about a candidate under a case.
Report(checked, content, candidate) ==
    UNION {ConstraintReport[<<k, content, candidate>>] : k \in checked}

ConstraintsOf(raw, candidate, checked) ==
    ConstraintReceipt(raw, candidate, checked, Report(checked, raw, candidate))

BuildConstraintReceipt(checked) ==
    /\ checked \subseteq NormalizeCase(world.case).constraints
    /\ Keep([receipts EXCEPT !.constraint =
                ConstraintsOf(world.case, world.candidate, checked)])

RehearsalOf(candidate, state) ==
    RehearsalReceipt(candidate, state, RehearsalOutcome[<<candidate, state>>])

BuildRehearsalReceipt ==
    Keep([receipts EXCEPT !.rehearsal = RehearsalOf(world.candidate, world.state)])

VerificationOf(candidate, state) ==
    VerificationReceipt(candidate, state, VerificationOutcome[<<candidate, state>>])

BuildVerificationReceipt ==
    Keep([receipts EXCEPT !.verification = VerificationOf(world.candidate, world.state)])

-----------------------------------------------------------------------------
(***************************************************************************)
(* Decision, approval, admission                                           *)
(***************************************************************************)
\* build_decision_input followed by evaluate_decision.
Decide(a) ==
    /\ ReceiptsMatch(world.case, world.candidate, world.state, receipts)
    /\ envelope' = EvaluateDecision(
          DecisionInput(world.case, world.candidate, world.state, receipts, a))
    /\ UNCHANGED <<world, changes, receipts, grants, now, admissions>>

\* Mutant: create_approval accepts a grant that expires as it is issued.
ApproveForAnyLifetime(nonce, issuedAt, expiresAt) ==
    /\ Approvable(envelope)
    /\ \A g \in grants : g.body.nonce # nonce
    /\ grants' = grants \cup {CreateApproval(envelope, nonce, issuedAt, expiresAt)}
    /\ UNCHANGED <<world, changes, receipts, envelope, now, admissions>>

Approve(nonce, issuedAt, expiresAt) ==
    /\ Approvable(envelope)
    /\ \A g \in grants : g.body.nonce # nonce
    /\ expiresAt > issuedAt
    /\ grants' = grants \cup {CreateApproval(envelope, nonce, issuedAt, expiresAt)}
    /\ UNCHANGED <<world, changes, receipts, envelope, now, admissions>>

\* What the caller expects of a grant: the world as it is and the newest envelope.
Expectation ==
    [candidate_fingerprint |-> CandidateFingerprint(world.candidate),
     case_fingerprint      |-> CaseFingerprint(world.case),
     evidence_fingerprint  |-> EvidenceFingerprint(world.registry),
     state_fingerprint     |-> StateFingerprint(world.state),
     decision_fingerprint  |-> envelope.decision_fingerprint,
     authority             |-> envelope.required_authority,
     consequence_class     |-> envelope.consequence_class]

Consume(grant) ==
    /\ Len(admissions) < MaxAdmissions
    /\ envelope # Null
    /\ ApprovalValid(grant, Expectation, now)
    /\ grants' = grants \cup {ConsumedCopy(grant)}
    /\ admissions' = Append(admissions,
                            [nonce |-> grant.body.nonce, world |-> world, at |-> now])
    /\ UNCHANGED <<world, changes, receipts, envelope, now>>

\* Persistence hands back a copy that was altered after it was signed.
Alter(grant, body) ==
    /\ changes < MaxChanges
    /\ changes' = changes + 1
    /\ grants' = grants \cup {[grant EXCEPT !.body = body]}
    /\ UNCHANGED <<world, receipts, envelope, now, admissions>>

Init ==
    /\ world \in World
    /\ changes = 0
    /\ receipts = [kind \in ReceiptKind |-> Null]
    /\ envelope = Null
    /\ grants = {}
    /\ now = 0
    /\ admissions = <<>>

WorldChanges ==
    \/ \E raw \in Content : ReviseCase(raw)
    \/ \E candidate \in Candidate : Propose(candidate)
    \/ \E registry \in Registry : EvidenceArrives(registry)
    \/ \E state \in State : StateMoves(state)
    \/ Tick

BuildReceipt ==
    \/ BuildEvidenceReceipt
    \/ BuildObjectiveReceipt
    \/ \E checked \in SUBSET NormalizeCase(world.case).constraints :
          BuildConstraintReceipt(checked)
    \/ BuildRehearsalReceipt
    \/ BuildVerificationReceipt

UseGrant ==
    \/ \E nonce \in Nonce, issuedAt \in now..MaxTime, lifetime \in 0..MaxLifetime :
          Approve(nonce, issuedAt, issuedAt + lifetime)
    \/ \E grant \in grants : Consume(grant)
    \/ \E grant \in grants :
          \/ Alter(grant, [grant.body EXCEPT !.used = FALSE])
          \/ Alter(grant, [grant.body EXCEPT !.expires_at = @ + 1])

Next ==
    \/ WorldChanges
    \/ BuildReceipt
    \/ \E a \in Assertion : Decide(a)
    \/ UseGrant

Spec == Init /\ [][Next]_vars

-----------------------------------------------------------------------------
(***************************************************************************)
(* Types: a receipt is what its builder makes of some subject.             *)
(***************************************************************************)
EvidenceReceipts ==
    {EvidenceOf(r, c, k) : r \in Registry, c \in Content, k \in Candidate}

ObjectiveReceipts ==
    {ObjectiveOf(raw, [evidence_fingerprint |-> EvidenceFingerprint(r)], r, k) :
        raw \in Content, r \in Registry, k \in Candidate}

ConstraintReceiptsFor(raw, candidate) ==
    {ConstraintsOf(raw, candidate, checked) : checked \in SUBSET NormalizeCase(raw).constraints}

ConstraintReceipts ==
    UNION {ConstraintReceiptsFor(raw, k) : raw \in Content, k \in Candidate}

RehearsalReceipts == {RehearsalOf(k, s) : k \in Candidate, s \in State}

VerificationReceipts == {VerificationOf(k, s) : k \in Candidate, s \in State}

ReceiptsType ==
    [evidence : {Null} \cup EvidenceReceipts,
     objective : {Null} \cup ObjectiveReceipts,
     constraint : {Null} \cup ConstraintReceipts,
     rehearsal : {Null} \cup RehearsalReceipts,
     verification : {Null} \cup VerificationReceipts]

GrantFields ==
    {"candidate_fingerprint", "case_fingerprint", "evidence_fingerprint",
     "state_fingerprint", "decision_fingerprint", "authority", "consequence_class",
     "issued_at", "expires_at", "nonce", "used"}

\* The type invariant: every variable holds a value the code can produce, every
\* receipt is what its builder makes of one subject, and no grant is born
\* expired (create_approval refuses expires_at <= issued_at).
TypeOK ==
    /\ world \in World
    /\ changes \in 0..MaxChanges
    /\ receipts \in ReceiptsType
    /\ envelope # Null => envelope.disposition \in Disposition
    /\ \A g \in grants :
          /\ DOMAIN g = {"body", "integrity"} /\ DOMAIN g.body = GrantFields
          /\ g.body.nonce \in Nonce
          /\ g.body.issued_at \in Nat /\ g.body.expires_at \in Nat
          /\ g.body.issued_at < g.body.expires_at
          /\ g.body.used \in BOOLEAN
    /\ now \in 0..MaxTime
    /\ admissions \in Seq([nonce : Nonce, world : World, at : 0..MaxTime])

-----------------------------------------------------------------------------
(***************************************************************************)
(* What may be permitted, stated of the world itself and not of receipts.  *)
(***************************************************************************)
\* What a decision is about: the preimages of its four fingerprints.
Subject(b) ==
    [content   |-> b.case_fingerprint[2],
     candidate |-> b.candidate_fingerprint[2],
     registry  |-> b.evidence_fingerprint[2],
     state     |-> b.state_fingerprint[2]]

SubjectOf(w) ==
    [content |-> w.case, candidate |-> w.candidate,
     registry |-> w.registry, state |-> w.state]

ActionOf(s) == CaseOf[s.content].actions[CandidateOf[s.candidate].action_type]

ListedAction(s) == CandidateOf[s.candidate].action_type \in DOMAIN CaseOf[s.content].actions

WithinCase(s) ==
    LET action == ActionOf(s)
        proposed == CandidateOf[s.candidate]
    IN  /\ action.allowed_targets # Null
        /\ \E t \in action.allowed_targets : SameScalar(proposed.target, t)
        /\ DOMAIN proposed.parameters = DOMAIN action.allowed_parameters
        /\ \A name \in DOMAIN proposed.parameters :
              ParameterVerdict(action, proposed, name) = TRUE

MeetsConstraints(s) ==
    \A k \in CaseOf[s.content].constraints :
        ConstraintReport[<<k, s.content, s.candidate>>] = {}

Authorized(s) == AuthorizedObjective[<<s.content, s.registry>>] # Null

Tried(s) ==
    /\ HighConsequence(ActionOf(s).consequence) => ActionOf(s).reversible
    /\ HighConsequence(ActionOf(s).consequence) \/ ActionOf(s).rehearsal_required
          => RehearsalOutcome[<<s.candidate, s.state>>]
    /\ VerificationOutcome[<<s.candidate, s.state>>]

NeedsHuman(s) ==
    HighConsequence(ActionOf(s).consequence) \/ ActionOf(s).human_approval_required

(***************************************************************************)
(* The exception.  The objective receipt carries no candidate, and the     *)
(* evidence receipt neither candidate nor case: the objective and the      *)
(* citations the gates look at are those of some candidate, and the        *)
(* required evidence that of some case, not always the subject's own.      *)
(***************************************************************************)
SomePursue(s) ==
    \E k \in Candidate : CandidateOf[k].objective = AuthorizedObjective[<<s.content, s.registry>>]

SomeCite(s) ==
    \E c \in Content, k \in Candidate :
        /\ RequiredEvidence[c] \subseteq CandidateOf[k].evidence_ids
        /\ CandidateOf[k].evidence_ids \subseteq DOMAIN s.registry

Justified(s) ==
    /\ ListedAction(s)
    /\ WithinCase(s)
    /\ MeetsConstraints(s)
    /\ Authorized(s) /\ SomePursue(s)
    /\ SomeCite(s)
    /\ Tried(s)

-----------------------------------------------------------------------------
(***************************************************************************)
(* Properties                                                              *)
(***************************************************************************)
Autonomy(disposition) ==
    CASE disposition = "BLOCKED" -> 0
      [] disposition = "MORE_EVIDENCE_REQUIRED" -> 1
      [] disposition = "WAITING_HUMAN" -> 2
      [] disposition = "ADMISSIBLE" -> 3

Permits(e) == e # Null /\ e.disposition \in {"WAITING_HUMAN", "ADMISSIBLE"}

InputOf(b) == b.decision_fingerprint[2]

Signed(g) == g.integrity = IntegrityFor(g.body)

\* Receipts of different moments add up to permission only for one subject that
\* is justified: its case, candidate, evidence and state satisfy the policy, the
\* constraints, the rehearsal and the verification, and its objective is
\* authorized.  Not part of it, because no receipt binds them: whose objective
\* and citations, and which case's required evidence, were compared (Justified).
\* The human is skipped only where the case does not ask for one
\* (build_decision_input, evaluate_contract).
PermitsOnlyTheJustified ==
    Permits(envelope) =>
        /\ Justified(Subject(envelope))
        /\ NeedsHuman(Subject(envelope)) = (envelope.disposition = "WAITING_HUMAN")

\* A grant the kernel signed is for exactly one decision that a human had to
\* make, about a subject that is justified (with the exception stated at
\* Justified), and carries the authority and class the case itself demands
\* (create_approval_for_decision).
GrantsAreExact ==
    \A g \in grants : Signed(g) =>
        LET d == InputOf(g.body)
            s == Subject(g.body)
        IN  /\ Subject(d) = s
            /\ EvaluateContract(d) = "WAITING_HUMAN"
            /\ Justified(s) /\ NeedsHuman(s)
            /\ g.body.authority = ActionOf(s).authority
            /\ g.body.consequence_class = ActionOf(s).consequence

\* Whatever happened between approval and use, a grant is consumed only in
\* the exact world a human approved, from the moment the approval is issued and
\* before the moment it expires (validate_approval, consume_approval).
AdmissionsWereApproved ==
    \A i \in 1..Len(admissions) :
        \E g \in grants :
            /\ Signed(g)
            /\ g.body.nonce = admissions[i].nonce
            /\ Subject(g.body) = SubjectOf(admissions[i].world)
            /\ g.body.issued_at <= admissions[i].at
            /\ admissions[i].at < g.body.expires_at

\* Losing evidence never increases autonomy: had any of the available evidence
\* been missing, whether the candidate went on citing it or not, the disposition
\* would have been the same or a stricter one (evaluate_contract, as
\* test_weaker_evidence_never_increases_autonomy has it).
WeakerEvidenceNeverHelps ==
    envelope # Null =>
        LET d == InputOf(envelope)
        IN  \A lost \in SUBSET d.available_evidence_ids : \A uncited \in SUBSET lost :
              Autonomy(EvaluateContract(
                    [d EXCEPT !.available_evidence_ids = @ \ lost,
                              !.candidate_evidence_ids = @ \ uncited]))
                <= Autonomy(envelope.disposition)

\* The refinement: seen through its fingerprints, the kernel admits only what
\* some human permitted, and a human may permit only what is Justified (module
\* Authorization).
Subjects == [content : Content, candidate : Candidate, registry : Registry, state : State]

Auth == INSTANCE Authorization WITH
    Situation   <- Subjects,
    Justifiable <- {s \in Subjects : Justified(s)},
    situation   <- SubjectOf(world),
    time        <- now,
    permits     <- {[situation |-> Subject(g.body), from |-> g.body.issued_at,
                     until |-> g.body.expires_at] : g \in {h \in grants : Signed(h)}},
    admitted    <- [i \in 1..Len(admissions) |->
                      [situation |-> SubjectOf(admissions[i].world),
                       at |-> admissions[i].at]]

ImplementsAuthorization == Auth!AuthSpec

(***************************************************************************)
(* The strengthening that makes these inductive: every input the kernel    *)
(* built tells the truth about its own subject, but for the three fields   *)
(* no receipt binds: candidate_objective and candidate_evidence_ids are    *)
(* those of some candidate, required_evidence_ids those of some case.      *)
(* What the caller asserts is no fact of the subject and is left open.     *)
(***************************************************************************)
PolicyOf(s) ==
    IF ListedAction(s) THEN ActionPolicy(ActionOf(s), CandidateOf[s.candidate])
    ELSE UnknownActionPolicy

DecisionFields ==
    {"case_fingerprint", "candidate_fingerprint", "evidence_fingerprint", "state_fingerprint",
     "authorized_objective", "candidate_objective", "required_evidence_ids",
     "available_evidence_ids", "candidate_evidence_ids", "constraints_checked",
     "hard_constraint_violations", "consequence_class", "consequence_assessed",
     "reversibility_required", "reversibility_confirmed", "rehearsal_required",
     "rehearsal_passed", "human_approval_required", "required_authority",
     "requested_approver_role", "verification_possible"}

TellsTheTruth(d) ==
    LET s == Subject(d)
        policy == PolicyOf(s)
    IN  /\ DOMAIN d = DecisionFields
        /\ s \in Subjects
        /\ d.authorized_objective = AuthorizedObjective[<<s.content, s.registry>>]
        /\ \E k \in Candidate : d.candidate_objective = CandidateOf[k].objective
        /\ d.available_evidence_ids = DOMAIN s.registry
        /\ \E c \in Content, k \in Candidate :
              /\ d.required_evidence_ids = RequiredEvidence[c]
              /\ d.candidate_evidence_ids = CandidateOf[k].evidence_ids
        /\ d.constraints_checked =>
              /\ policy.constraints_checked
              /\ Report(CaseOf[s.content].constraints, s.content, s.candidate)
                    \subseteq d.hard_constraint_violations
        /\ policy.violations \subseteq d.hard_constraint_violations
        /\ d.consequence_class = policy.consequence_class
        /\ d.reversibility_required = policy.reversibility_required
        /\ policy.reversibility_required /\ ~policy.reversible
              => d.reversibility_confirmed = FALSE
        /\ d.rehearsal_required = policy.rehearsal_required
        /\ d.rehearsal_passed \in {Null, RehearsalOutcome[<<s.candidate, s.state>>]}
        /\ d.human_approval_required = policy.human_required
        /\ d.required_authority = policy.required_authority
        /\ d.verification_possible \in {Null, VerificationOutcome[<<s.candidate, s.state>>]}

\* The newest envelope is the verdict on an input that is true of its own
\* subject, except that the candidate's objective and citations may be those of
\* another candidate and the required evidence that of another case, whenever
\* and from whichever receipts it was assembled (build_decision_input,
\* evaluate_decision).
EnvelopeInv ==
    envelope # Null =>
        /\ envelope = EvaluateDecision(InputOf(envelope))
        /\ TellsTheTruth(InputOf(envelope))

MadeByTheKernel(body) ==
    LET d == InputOf(body)
    IN  /\ DOMAIN body = GrantFields
        /\ TellsTheTruth(d)
        /\ EvaluateContract(d) = "WAITING_HUMAN"
        /\ Subject(body) = Subject(d)
        /\ body.authority = d.required_authority
        /\ body.consequence_class = d.consequence_class

\* Whatever happened to the body of a copy, its signature is over a body the
\* kernel made for a decision that waits for a human, and the copy with that
\* body is still in circulation (create_approval_for_decision, consume_approval).
SealInv ==
    \A g \in grants :
        LET signed == g.integrity[2]
        IN  /\ g.integrity = IntegrityFor(signed)
            /\ MadeByTheKernel(signed)
            /\ Sealed(signed) \in grants

IInv == TypeOK /\ EnvelopeInv /\ SealInv /\ AdmissionsWereApproved

-----------------------------------------------------------------------------
(***************************************************************************)
(* What the documentation says and the code does not do.                   *)
(***************************************************************************)
\* README.md: a human approval binds one exact candidate, for a bounded time,
\* once.  consume_approval marks the copy it returns, not the one it was given.
EachApprovalIsUsedOnce ==
    \A i, j \in 1..Len(admissions) :
        admissions[i].nonce = admissions[j].nonce => i = j
=============================================================================
