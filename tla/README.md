# Resolve: a TLA+ verification project

Resolve decides whether an action proposed by a model may be carried out. A
permission kernel, all code and no model, puts a proposed *candidate* through
eight gates, a human approves what the kernel lets through, and a runtime
applies the approved candidate and records every step in a journal that is
meant to survive outages of MongoDB.

This directory holds TLA+ models of that code, TLC configurations that check
them on small instances, and proofs, checked by TLAPS, that hold for every value
of the constants. Paths below are relative to `src/`.

## 1. The system

| part | code | state it keeps | operations |
|---|---|---|---|
| contract kernel | `resolve/contract.py` | none: frozen receipts, inputs, envelopes | `build_*_receipt`, `build_decision_input`, `evaluate_decision`, eight gates |
| approval grants | `resolve/approval.py` | none: signed frozen grants | create, validate, consume, to/from a record |
| case normalization | `resolve/case.py` | none | `load_case`, `normalize_case`, `case_fingerprint`, canonical JSON |
| signed journal | `resolve/journal.py` | none: signed frozen events | `create_event`, `verify_event`, `verify_chain`, restore from a record |
| runtime | `resolve/runtime.py`, `resolve/tools.py`, `resolve/context.py` | the module global `_mongo_state`; locals of a run | `run`, `_journal`, `_safe` |
| decision and model seams | `mocks/mock_contract.py`, `mocks/mock_ai.py`, `simulator/payment_sim.py` | the simulator's recovery | `evaluate`, `propose_first`, `propose_bounded`, `apply_failover` |
| MongoDB store | `resolve/mongo_store.py` | the client; MongoDB's collections | inserts, `append_journal_event`, `sync_event`, `sync_run`, `verify_journal_chain`, `export_run` |
| HTTP service | `app.py` | none of its own | `POST /run`, replay, why-blocked, `POST /tamper`, audit views |
| local journal, offline recovery | `mocks/mock_journal.py`, `demo_offline.py` | the file `runtime/journal.ndjson` | `append`, `unsynced`, `mark_synced`, `verify_integrity`, recovery |
| showcase adapter | `site/showcase-adapter.js` | phase, approval, commit id, effect count, events | run, evidence, approve, mutate, restore, execute, verify |
| payment fixture | `scripts/*.py` | files, MongoDB | generate, validate, import |
| command line | `cli.py` | none | prints what the store returns |
| doctor, model acceptance | `runtime/doctor.py`, `runtime/model_acceptance.py` | none | probes of a machine and of a model server |
| web pages | `site/`, `static/`, `Resolve_Showcase.html` | none | presentation |

How they interact. There are two halves that do not call each other. The
*kernel half* (`contract`, `approval`, `case`, `journal` of `resolve/`) is a pure
library: its callers are tests, and its inputs and outputs are immutable values
that circulate through persistence and come back at other moments. The *runtime
half* (`runtime`, `tools`, `mongo_store`, the mocks, `app.py`) runs the demo
workflow, decides with `mocks/mock_contract.py`, and talks to MongoDB. `app.py`
serves `POST /run` with a synchronous function, which the server runs on a pool
of threads: two requests are two runs, interleaved, sharing `_mongo_state`.

What is hard, and which property answers it (the complete list with source lines
is `hazards` in `PROJECT.json`):

- *Stale state.* A decision is put together from five receipts built at five
  moments, while case, candidate, evidence and the system acted upon keep
  changing. Fingerprints tie each receipt to its subject, and not every receipt
  is tied to every part of it. `PermitsOnlyTheJustified`, `EnvelopeInv`.
- *Time between approval and use*, copies of a grant, copies that were altered in
  persistence. `AdmissionsWereApproved`, `GrantsAreExact`, `SealInv`,
  `EachApprovalIsUsedOnce`.
- *Monotonicity*: less evidence must not mean more autonomy, which rests on the
  order of two tests. `WeakerEvidenceNeverHelps`.
- *Partial failure and lost answers*: any call to MongoDB may fail, or succeed and
  lose its answer, in the middle of a run. `JournalIsTruthful`,
  `ReportsAccountForEveryEvent`, `NoEventIsLost`.
- *Interleaving* of runs over one global. `JournalIsTruthful`, `DurableClaimsHold`.
- *Loss, reordering and mixing of signed records*: a chain is verified event by
  event from records nobody trusts. `ValidChainsAreHistories`,
  `AnchoredChainsAreComplete`, `IntactHistoriesVerify`.
- *Outage, recovery and crash* of the local journal: which events are stored, which are
  marked, and what a crash leaves of the file. `SyncedIsStored`, `SyncsInOrder`,
  `ReturnedIsDurable`, `EveryEventIsStored`.
- *Reading while it changes*: a replay and an explanation are several queries over a
  journal with gaps, which a demo endpoint alters and MongoDB's outages interrupt.
  `IntactReplaysAreTrue`, `TamperingIsReported`, `ExplanationsNameTheJudged`.
- *Limits at their boundary*, shared and cyclic objects, trimming:
  `AcceptsExactlyTheBounded`, `WorkIsBounded`, `ResultIsCanonical`, `NormalFormsAreValid`.
- *Batch scripts that die half-way*, and cohorts that two scripts state in two ways:
  `GeneratedFixturesAreValid`, `ImportedRoutesAreExact`, `EventsHaveTheirCase`, `RerunsConverge`.
- *Progress*: "Resolve NEVER blocks on Mongo" (`resolve/mongo_store.py:120`).
  `EveryRunFinishes`, `ImplementsGovernance`.

## 2. Modules

| module | models | rests on |
|---|---|---|
| `Contract` | the kernel as operators: policy, receipts, assembly, gates, disposition, envelope | |
| `Approval` | creation, validation, consumption and signature of a grant | `Contract` |
| `Permission` | the life cycle around both, as a state machine; its properties and its inductive invariant | `Approval` |
| `Authorization` | abstract specification of `Permission`: no receipts, fingerprints or grants | |
| `PermissionProofs` | theorems about `Permission` | `Permission`, TLAPS |
| `MCPermission`, `MCPrimaryCase` | instances of `Permission` | `Permission` |
| `Journal` | the signed journal: signing, what persistence does to the records, verification of a chain | |
| `JournalProofs` | theorems about `Journal` | `Journal`, TLAPS |
| `MCJournal` | instance of `Journal` | `Journal` |
| `OfflineSync` | the local journal, the sync layer, persisting and recovering, over a MongoDB that comes and goes | |
| `MCOfflineSync` | instance of `OfflineSync` | `OfflineSync` |
| `OfflineSyncProofs` | theorems about `OfflineSync` | `OfflineSync`, TLAPS |
| `Runtime` | runs of `run()` against a MongoDB that comes and goes | |
| `Governance` | abstract specification of `Runtime`: no database | |
| `MCRuntime` | instance of `Runtime` | `Runtime` |
| `RuntimeProofs` | theorems about `Runtime`, and that its steps are steps of `Governance` | `Runtime`, `Governance`, TLAPS |
| `Audit` | replay, explanation and `POST /tamper` over what `Runtime` leaves in MongoDB: the two composed | `Runtime` |
| `MCAudit` | instance of `Audit` | `Audit` |
| `AuditProofs` | theorems about `Audit` | `Audit`, `RuntimeProofs`, TLAPS |
| `CaseNormalize` | validation of cases and candidates, and both copies of `_canonicalize` | |
| `MCCaseNormalize` | instance of `CaseNormalize`, with the values that are passed in | `CaseNormalize` |
| `CaseNormalizeProofs` | theorems about `CaseNormalize` | `CaseNormalize`, TLAPS |
| `PaymentFixture` | generator, validator and import of the payment fixture | |
| `MCPaymentFixture` | instance of `PaymentFixture` | `PaymentFixture` |
| `PaymentFixtureProofs` | theorems about `PaymentFixture` | `PaymentFixture`, TLAPS |

### Contract, Approval, Permission

The kernel keeps no state, so its functions are operators with the code's
names (`build_objective_receipt` is `ObjectiveReceipt`, `_derive_policy`
is `DerivePolicy`, `evaluate_contract` is `EvaluateContract`). `Permission` puts them to work: its variables are what a caller of
the kernel holds, `world` (case, candidate, evidence registry, state as they are now),
the newest receipt of each kind, the newest envelope, every copy of a grant in
circulation, the clock, and the record of what was admitted. Each action is one
call into the kernel (`BuildEvidenceReceipt`, ..., `Decide`, `Approve`, `Consume`),
or something that happens around it: the world changes, time passes, persistence
returns an altered copy. An action is disabled where the code raises.

Abstractions: SHA-256 and HMAC over a canonical form are collision-free
constructors, so a fingerprint is a pair of a domain and a preimage; a signature is
verified by comparing preimages, which keeps "a changed body no longer matches its
signature" and leaves out keys and lengths. A case is the id of its content; what normalization does to the way it was
written is the subject of `CaseNormalize`. Scalars keep their Python type
because the code compares type and value. Trusted validators, the
authorized objective and the simulator's outcomes are functions given as
constants: whatever they say, they say it of their subject. Shape checks of
arguments are left out: the model only builds well-formed values. `SealInv` uses
that the caller of `create_approval` passes the nonce of no earlier grant.

`Justified` is what the properties mean by a justified subject: it obeys the policy of its case, meets its constraints, has an
authorized objective and passed its trials in its state. Two gates look at more, and at facts that no receipt binds to the subject: the intent
gate at the candidate's objective, the evidence gate at the candidate's citations and the case's required evidence. In the code these can be
another candidate's and another case's (section 3, limits). `Justified` therefore says of them only what is true, that *some* candidate pursues the
authorized objective (`SomePursue`) and that *some* candidate cites the required evidence of *some* case, all of it available (`SomeCite`).
The same three fields are the exception in `TellsTheTruth`, and in everything that rests on the two: `PermitsOnlyTheJustified`, `GrantsAreExact`,
`EnvelopeInv`, `ImplementsAuthorization`.

### Authorization

A human permits a justifiable situation for a while; an action is admitted only in
a situation that is permitted at that time. `ImplementsAuthorization` says
`Permission` implements it: a signed copy of a grant is a permit, its body's four
fingerprints are the situation. What it does not promise is that a permit is
used once, because the code does not either.

### Journal

`histories` is everything core has signed: each `create_event` extends one history by
one event, numbered and linked to the MAC of the event before it. Any history can be
continued, so two of them may fork, as they do when a caller restarts from an
earlier event. `records` is what persistence hands out: the events of one history
(`Export`), after records were dropped, repeated, mixed in from other
histories, altered, or given another event's MAC; a reordering is a drop and an insertion.
`check` is one verification. `BeginVerification` restores the records
(`journal_event_from_dict`) and does the tests before the loop of `verify_chain`,
`CheckEvent` is the body of the loop, `CheckAnchor` what follows it. The loop is
a step per event because its own progress is worth a property, and because the proof
then needs no induction over chains. Nothing else happens meanwhile: the function is
given a list nobody changes.

SHA-256 and HMAC are constructors again, so a MAC *is* the body it was made
over, and with it the MAC before: a chain is pinned by its last event. The
timestamp is only signed, as the event type is, and has no field of its own. A verification
that raises has the status `ERROR`. The `failed_sequence` of a
result repeats what the refused event claims and is left out.

`create_event` signs what it is asked to: an event id twice, a second run in one
chain. `verify_chain` refuses those, which is why `IntactHistoriesVerify` is about
histories that satisfy `OneRun`. Without an anchor a lost tail goes unnoticed, as the
docstring of `verify_chain` says; `ValidChainsAreHistories` promises no more than that.

### OfflineSync

`journal` is the file `runtime/journal.ndjson`, a line per event with its flag and its
hashes; `stored` the run's numbers in MongoDB. The process is at `pc`, with the events
it has in hand in `handed`, those still to be inserted in `todo`, and those whose insert was
answered in `done`. `Persist` is `persist` of `demo_offline.py` up to its call into
MongoDB, `PersistInsert` that call, `MarkSynced` what follows. `Recover`, `Look`,
`SyncEvent` (once per event, smallest number first), `SyncReturns`, `MarkSynced` are the
recovery of `demo_offline.py:78-87` with `sync_run` in it. `Reset` and `Clear` start the demo over.

The program around these functions is external. The demo calls them once in a fixed order; the
model lets it persist and recover in any order, as the handshake described
in `resolve/mongo_store.py:116-152` intends, and survive a call that raises. It keeps one run per
file, as the demo does. An event is its number, because the demo derives everything else from it.

A crash ends the process between any two steps, or while it writes the file, in `append` (`CrashWhileAppending`) or in `mark_synced`
(`CrashWhileMarking`): what is left is a beginning of what was to be written, and `end` says how it ends. `closed` is after a newline. `open` is after a
whole line whose newline is missing: it can still be read, and `mark_synced` repairs it, but the next append is glued to it (`Unglued`). `torn` is in the middle of a line, or
after two that were glued: `json.loads` raises, and with it every function that reads the file, `append` included.

Four limits of this code are left out of the properties:

- An event that was stored without its answer arriving is filtered out of every later recovery (`demo_offline.py:83`), and only inserted
  events are marked (`demo_offline.py:87`), so it stays unsynced for good: `SyncedIsStored` has no converse.
- On a torn file nothing but `reset` works. Every recovery raises before it looks at MongoDB (`demo_offline.py:79`, `mocks/mock_journal.py:39`), so an
  unsynced event in a whole line before the torn one is never stored; `EveryEventIsStored` excepts the torn file and promises nothing there.
- `append` raises on a torn file too, and the event is in no journal, although `mocks/mock_journal.py:43` says that it "Always succeeds".
- `verify_integrity` has nothing to compare the length of the file with: a file that lost its last lines is `Intact`, although
  `mocks/mock_journal.py:63` says that it detects deletion. `ChainStaysIntact` says only that no history of the file makes it report a broken chain, and
  `EveryEventIsStored` speaks of events the journal still has.

### Runtime

A process per call of `run()`. Every call into `mongo_store` is two steps: the
call itself, which gets through and is answered, gets through with its answer
lost, or fails because MongoDB is down; and what the code does when the call
returns, up to the next call. Between the two, other runs move and MongoDB goes
down or comes back. `pc` names the call a run is at, in the order of the source;
`mongoState` is the global `_mongo_state`, `journalEvents` and `documents` are MongoDB's
collections. The fallback for a failed journal insert calls `journal.append`, which
`resolve/journal.py` does not define: the `AttributeError` is swallowed and nothing is kept, so
in the model, as in the code, the fallback has no effect.

A candidate is an id with a region and a traffic share. The mocks are
documented as seams: what they propose is any member of a set. `StepAfter` has the two early exits of
`run()` (no human turn; approval that does not match).

### Governance

What a run promises with no database: propose, have a human approve what the
contract passes on, apply exactly that, close. `Runtime` implements it, fairness
included, whatever MongoDB does.

### Audit

`Audit` extends `Runtime`: its steps are the steps of runs and MongoDB, and those of two clients of
the service. A request is as many steps as it makes queries. `ReplayExport` and `ReplayChain` are the two
reads of `replay_run`; `WhyVerdict`, `WhyPrior`, `WhyDocument` the three of `why_blocked`;
`Overwrite` and `ReportTampering` the update of `POST /tamper` and the
verification whose report it answers with. Between them runs go on, events are altered, MongoDB goes down
and the request fails. `shown` is the answer last given; another request clears it.

Hashes are constructors: a `payload_hash` is the payload the event was made of (`Original`), an
`event_hash_or_mac` everything the run had emitted up to the event, because each hash contains the one before.
`verify_journal_chain` is therefore the set of positions with a flaw, and its report the first of them.

What the reader is *not* promised: a chain that lost its first or last events verifies, so
`IntactReplaysAreTrue` speaks of a contiguous part, and of the whole only when the run counted nothing
unsynced. And when the proposal that was judged is not stored, `why_blocked` names an earlier one; the chain
of such a run does not verify, and `ExplanationsNameTheJudged` has that premise. An event stored without its answer
is counted unsynced although it is there: the count errs on the safe side.

### CaseNormalize

`heap` is a graph of Python containers, which refer to each other and to scalars; two references to one container, or one
back to a container that is being visited, are ordinary inputs of Python. `Validate` is everything `normalize_case`
and `candidate_fingerprint` (and the journal's `create_event` and `journal_event_from_dict`) demand of the raw value; then the recursion of `_canonicalize` is
a stack of visits and returns, a step each: `Visit` adds the node and its string bytes to the two
counters and marks the container active, `Leave` is the `finally` that removes it, `Refuse` is any
of its errors. The same steps serve both copies of the function, which differ in tuples and in trimming.
`output` is the result as a set of pairs of a path and what is there.

The properties compare with a reference that has neither stack nor counters: the tree the heap unfolds to, level by level
(`Level`, `Unfolding`), its `CanonicalForm`, and whether it is `Bounded`. `WellFormed` states of the inputs what Python guarantees of a
mapping or list: no two members have the same key or place, and a place in a list is not the name of a field.

A scalar has a type, the text that is left after `strip`, and a size. A number that is too long or not finite is a
scalar of type `unsupported`, as an object of another class is. The order of keys decides only which
error is met first, and is left out.

### PaymentFixture

`canonical` and `imports` are the two files the generator writes, `payments` and `catalog` what MongoDB holds.
`GenerateCanonical` draws every transaction within the ranges of `make_transactions` and writes the first file, `GenerateImports`
the second; `GeneratorDies` cuts one of them off. `Alter` changes a field of a transaction in both files.
`Validate` is the validator as the import calls it, `Replace` one replacement of a bulk
write, `Report` the line that says `PASS`; `ImportDies` ends it anywhere.

The sizes of the cohorts are constants. The code draws from a fixed seed; in the model every generation draws anew, so an import
may find another fixture in MongoDB than the one in the files. The manifest, metrics, timestamps and the contents
of case and evidence documents are left out, which is why nothing is said of those documents but that they are there.

## 3. Runs

| run | cfg | expectation | question |
|---|---|---|---|
| `assembly` | `MCAssembly` | pass | can receipts of different moments add up to a permission nothing justifies? |
| `grants` | `MCGrants` | pass | is anything admitted that was not approved, in this world, at this time? does the kernel implement the abstract authority? |
| `one_use` | `MCOneUse` | violation | is an approval used once? |
| `primary_case` | `MCPrimaryCase` | violation | does the canonical incident end as its `EXPECTED.md` says? |
| `journal` | `MCJournal` | pass | is a chain that verifies one that core signed, whole when anchored, and is none refused that core signed? |
| `runtime_overlap` | `MCRuntimeOverlap` | pass | is what MongoDB holds of a run true, whatever interleaves and fails? |
| `runtime_live` | `MCAudit` | pass | does every run return, commit only what was approved, count every event MongoDB lacks, and implement `Governance`? is a replay reported intact true, every alteration reported, and an explanation about the candidate that was judged? |
| `sync` | `MCOfflineSync` | pass | is what is marked synced stored, does a sync keep the order and return only when all is durable, and does every event the journal has reach MongoDB in the end? |
| `case_normalize` | `MCCaseNormalize` | pass | is accepted exactly what unfolds to a bounded tree, is the normal form complete and trimmed as it should be, and is it still valid? |
| `payment_fixture` | `MCPaymentFixture` | pass | do generator and validator agree, does a valid fixture route exactly the eligible failures, and do imports that died leave nothing inconsistent and converge? |
| `runtime_lost` | `MCRuntimeLost` | violation | is no event lost in an outage? |
| `runtime_shared` | `MCRuntimeShared` | violation | is a claimed durable commit in the journal? |

### Bounds and why they are enough

*Permission.* Two contents (a class C2 case, which needs a human, and a class C1
case, which does not and requires no evidence), candidates that obey the
case, break it, or pursue another objective and cite unknown evidence, registries
that differ in a digest and in what they authorize, two states of which one fails every rehearsal.
`assembly` has the candidate of another objective and the caller that asserts nothing, `grants` the
candidate that breaks the case and a caller that trusts, since the assertions only make decisions stricter.
`MaxChanges` = 2: a receipt that is stale needs one change after it was built;
two let the world change and change back, or change under two different receipts, or change and a copy be
altered. `MaxTime` = 2 and `MaxLifetime` = 2 give a grant that is not yet in force, in force,
and expired, and reach both ends of its interval. `MaxAdmissions` = 2 is what
using an approval twice takes. Receipts hold no counters, so nothing else grows.
`CHECK_DEADLOCK FALSE` because the bounds end every behaviour.

*Journal.* Three events and two runs: `MaxSigned` = 3 histories allow one chain of three events, or
one of two and a fork of it, or two chains. `MaxAlterations` = 2 is a
replacement, an exchange, or an alteration together with a matching reseal. `MaxChainEvents` = 3: a
chain reaches the limit, and one insertion exceeds it. There is one case, because the test of
the case is the test of the run with another field, and one payload beside the one
core never signed. The model treats ids and runs alike, hence symmetry in both.
`CHECK_DEADLOCK FALSE` because a verification ends a behaviour.

*OfflineSync.* Four events: one stored, one missed, one stored after it, and a last one. Three faults: an
outage, a lost answer, and one more in the recovery from them. Two crashes: one in the recovery from another, or one that leaves a line
without its newline and one after it.

*Runtime.* One run is enough for its own control; two are what sharing
`_mongo_state` takes, and no step involves three. `MaxFaults` bounds outages and lost
answers: two allow an outage after a lost answer, or one that ends and comes
again; the overlapping runs have one, since two runs with one fault already
interleave the fault with every step of both. `runtime_overlap` proposes a candidate that is approved and one that is not. It uses symmetry in the two
runs (its property is an invariant that treats all runs alike), and a view that leaves out documents, flags and results: they are
written and reported, and neither a step nor an event depends on them. The live run, in which `Audit` is composed with `Runtime`, has one run, no
symmetry, one unsafe first proposal and all four bounded ones: how a proposal fares is decided by the second, and the first may be proposed again. `CHECK_DEADLOCK FALSE` because the system stops when all runs have returned.

*Audit.* The composition has one run, since views read the events of one run. `TamperedNumbers` = {2, 3} are the
first verdict, which is the number `POST /tamper` takes by default, and the proposal after it; one alteration, since the
report names one flaw. Two faults lose two events, or lose one and deny a query.

*CaseNormalize.* The limits are scaled down so that the inputs meet each of them from both sides: depth 4, 29 nodes, of
values that unfold to 28, 29 and 30, five bytes for one string and 45 for all. `MCCaseNormalize` lists the inputs: a
case with its optional parts (`watch` and `allowed_targets` among them) and what may be wrong with each, duplicates and their spellings, shared, cyclic and nested containers, tuples.
`CHECK_DEADLOCK FALSE` because a call ends. `_MAX_CANONICAL_NODES` also limits a container's own length, as in the code.

*PaymentFixture.* Five transactions: a success, two affected ones (one per network), a
failure that is not eligible, and one that fails at baseline too. Two generations let an import find an older fixture; two
alterations exchange two fields or compensate a count; one stop, since a stop forgets everything but the files and MongoDB. Files are altered
after the last generation, which would undo it. `CHECK_DEADLOCK FALSE` because a fixture that is refused is never imported.

The proofs of section 4 have none of these bounds: the constants stand for any sets and any numbers that satisfy the
assumptions named there.

### Fairness

`Spec` of `Runtime` assumes `WF_vars(RunStep(r))` for each run: a thread in the middle of a
run is scheduled, and each of its calls returns, because the client is created with
`serverSelectionTimeoutMS=3000` (`resolve/mongo_store.py`) and every exception is caught. This bounds only the wait for a server: one
that is connected and never answers has no socket timeout to stop it, so a server that hangs is outside this assumption, and `EveryRunFinishes` says nothing of it. There is no fairness on `Start` (nobody has to
ask for a run), on `GoesDown` or on `ComesBack`: MongoDB may stay down for good.
`Spec` of `OfflineSync` assumes `WF_vars(Working)` for the same reason: a call that was begun ends. That MongoDB stays
up in the end and that the recovery is tried again and again is the premise of `EveryEventIsStored`, not fairness: no code retries.
`Spec` of `PaymentFixture` assumes `WF_vars(Replace \/ Report)`: an import that was begun goes on, or dies. That it is begun
again and again over files that stay valid is the premise of `RerunsConverge`. `AuditSpec` has the fairness of `Runtime`, and none for requests.
`Permission`, `Journal` and `CaseNormalize` state no liveness: their callers may stop at any moment, and that a normalization ends is `WorkIsBounded`.

### What the violation runs show

They are listed as `findings` in `PROJECT.json`, with the line of the documentation each
contradicts.

1. `one_use`: `consume_approval` returns a used copy and leaves the grant it was
   given valid; nothing compares-and-sets the nonce. `README.md:29` promises "once".
2. `primary_case`: a list rule is compared item by item, so the list parameter
   `networks` of the bounded candidate matches nothing and the candidate is
   `BLOCKED`; `cases/primary/EXPECTED.md:6-7` expects otherwise. With a
   scalar parameter (`MCPermission`) the same kernel reaches `WAITING_HUMAN`.
3. `runtime_lost`: an event whose insert fails is in no journal at all.
4. `runtime_shared`: a second run resets the first one's count of unsynced events.

The passing properties are stated around these: `ReportsAccountForEveryEvent` is
checked for one run (with two that overlap it fails for the reason of
finding 4), and `AdmissionsWereApproved` does not count uses.

Two more disagreements are known limits of the code that no run refutes and no property rules out:

- The objective receipt carries no candidate fingerprint and the evidence receipt neither a candidate's nor a case's
  (`resolve/contract.py:221`), although `contract.py:135` speaks of "the IDs used by one
  candidate": a decision about one candidate can rest on another's citations and objective, and on the required evidence of
  another case. In `assembly` the candidate of another objective reaches `WAITING_HUMAN` this way, on receipts that were built
  for the one before it.
- A failed insert of a candidate, an approval or a verification clears `online`
  (`resolve/runtime.py:90`), and the next journal insert sets it again (`runtime.py:71`): the run
  reports nothing, although `MONGODB_P0.md:111` asks that persistence failures be reported. Events are counted
  (`ReportsAccountForEveryEvent`); other documents are not.

## 4. Proofs

`PermissionProofs` proves, for every value of the constants that satisfies their assumptions:

| theorem | statement |
|---|---|
| `TypeCorrect` | `Spec => []TypeOK` |
| `EnvelopesTellTheTruth` | `Spec => []EnvelopeInv` |
| `OnlyTheJustifiedIsPermitted` | `Spec => []PermitsOnlyTheJustified` |
| `LosingEvidenceNeverHelps` | `Spec => []WeakerEvidenceNeverHelps` |
| `SealsAreTheKernels` | `Spec => []SealInv` |
| `SignedGrantsAreExact` | `Spec => []GrantsAreExact` |
| `OnlyTheApprovedIsAdmitted` | `Spec => []AdmissionsWereApproved` |
| `KernelImplementsAuthorization` | `Spec => ImplementsAuthorization` |

Assumptions: `CasesAssumption` (what `normalize_case` accepts: consequence classes,
Boolean flags, rules that are a list, a mapping or a scalar), `OutcomesAssumption` (rehearsal
and verification answer yes or no), `BoundsAssumption` (the bounds are natural numbers).
TLC evaluates all three in every run of `MCPermission`.

The argument. `PermitsOnlyTheJustified` speaks of the world (`Justified`), the gates speak
of receipts, and receipts may be old. The link is `TellsTheTruth`: every decision input the
kernel assembled is true of its *own* subject, the preimages of its four fingerprints, whether or not
that is still the world. It follows from two facts. First, `TypeOK` says that a receipt is
what its builder makes of *some* subject. Second, `ReceiptsMatch` makes those subjects
agree with the subject of the decision in every field the gates use, except the three that the receipts do not carry
(the first limit above). For those `TypeOK` still says that they belong to *some* subject, and that is what `TellsTheTruth` and `Justified` say of them.

For grants the invariant has to be about signatures, since bodies are altered:
`SealInv` says that the preimage of every signature is a body the kernel made for
a decision that waited for a human, and that the copy with that body is still in
circulation. An intact copy is therefore exact (`GrantsAreExact`), and validation, which refuses the
others, admits only what was approved. In the refinement an altered copy adds no
permit, because permits are those of signed copies, and consuming one adds only its used
copy, which has the same subject and interval.

`WeakerEvidenceNeverHelps` follows from `EnvelopeInv` and a lemma about the eight gates (`OnlyTheEvidenceGateMoves`): losing evidence, cited
or not, changes none but the evidence gate, and that one only for the stricter.

`JournalProofs` proves, from `JournalAssumption` (the bounds are natural numbers, checked by TLC in
the run of `MCJournal`):

| theorem | statement |
|---|---|
| `JournalInvariant` | `Spec => []JInv` |
| `JournalTypeCorrect` | `Spec => []TypeOK` |
| `ValidChainsWereSigned` | `Spec => []ValidChainsAreHistories` |
| `AnchorsProveCompleteness` | `Spec => []AnchoredChainsAreComplete` |
| `IntactHistoriesAreAccepted` | `Spec => []IntactHistoriesVerify` |
| `CheckedEventsWereSigned` | `Spec => []CheckedEventsAreHistories` |

The argument. That a chain is VALID says something of its last event only through
all the events before it, so the invariant has to say where the loop is:
`LoopInv`, the part checked so far is a history core signed and is of one run. To take one
more event along, its MAC shows that core signed it as the next event of *some*
history (`PassingEventsAreSigned`); `Linked` says the beginning of that history is a history with
the MAC the event names, `TipsPinHistories` that two histories with one last MAC are one;
so that history continues the part already checked (`PassingContinues`). `TipsPinHistories` is kept by signing
because a MAC contains the number and the MAC before it (`NewTipPins`). The other
direction, that nothing core signed is refused, is `IntactEventsPass` and the arithmetic of the anchor.

`RuntimeProofs` proves, from `ConstantsAssumption` (the shape of the constants) and `NoneAssumption` (`None` is no candidate
and no answer; the set of runs is finite):

| theorem | statement |
|---|---|
| `RunsStandWhereTheyStand` | `Spec => []RInv` |
| `RuntimeTypeCorrect` | `Spec => []TypeOK` |
| `TheJournalIsTruthful` | `Spec => []JournalIsTruthful` |
| `OnlyTheApprovedIsCommitted` | `Spec => []CommitsOnlyWhatWasApproved` |
| `ReportsCountWhatIsMissing` | `OneAtATime` implies `Spec => []ReportsAccountForEveryEvent` |
| `RunsAreGoverned` | `Spec => Gov!GovSafety` |

The argument. None of the properties is inductive, because none says where a run stands. `RInv` does: how far a run is in
`run()` decides which of its variables are set, to what (`Decided`), and how many events it has emitted (`Emitted`), the sixth of
which is the approval and the seventh the commit. What is committed is then what was approved, which is what was proposed
last and evaluated (`CommitsOnlyWhatWasApproved`), and the same facts give each step of a run its counterpart in `Governance`.
That a run that began also closes is the part of `ImplementsGovernance` that is left to TLC. A number is used up before the
call to MongoDB, whatever comes of it, so no two events share one (`JournalIsTruthful`).

`ReportsAccountForEveryEvent` is false when runs overlap (finding 4), so its theorem assumes `OneAtATime`: runs do not overlap, or
there is one. `CountInv` then says that a run in progress misses no more events than the global counts, plus the
one whose failure is about to be counted. An answer that was lost is counted although the event is stored, hence the inequality.

`OfflineSyncProofs` proves, from `BoundsAssumption` (the bounds are natural numbers):

| theorem | statement |
|---|---|
| `HandFileAndStoreAgree` | `Spec => []SInv` |
| `SyncTypeCorrect` | `Spec => []TypeOK` |
| `MarkedEventsAreStored` | `Spec => []SyncedIsStored` |
| `ReturnedEventsAreStored` | `Spec => []ReturnedIsDurable` |
| `TheChainStaysIntact` | `Spec => []ChainStaysIntact` |
| `EventsAreSyncedInOrder` | `Spec => SyncsInOrder` |

The argument. `InHand` says what the process knows at each call: while it syncs, what it was handed and no longer has to insert is
stored; what it is about to mark was stored; and after a reset the file is empty before the store is. The order follows, since the
sync takes the least number left (`LeastOfNumbers`). For the chain, `Intact` is brought into a form that looks at neighbours only
(`IntactIsLinked`), and every way the file is written is one of three: an append adds one link (`AppendedFile`), what a crash leaves, also once
an append was glued to it, is a beginning (`CutFile`, `UngluedIsABeginning`), and marking changes a flag that no hash covers (`MarkingKeepsLines`). What
is true of the lines of a file is true of its beginnings, and numbers only grow (`NumbersGrow`). `ChainStaysIntact` is about what `verify_integrity`
answers: never that the chain is broken. On a torn file it raises, and the theorem says so by saying no more.

`AuditProofs` proves, from the assumptions of `Runtime` and `AuditAssumption` (what `POST /tamper` writes is no payload of a run):

| theorem | statement |
|---|---|
| `RequestsStayRight` | `AuditSpec => []AInv` |
| `IntactReplaysShowTheRun` | `OneAtATime` implies `AuditSpec => []IntactReplaysAreTrue` |
| `IntactReplaysHaveNoGap` | an intact replay is a contiguous piece of what the run emitted, also when runs overlap |
| `NoTamperingGoesUnnoticed` | `AuditSpec => []TamperingIsReported` |
| `TheExplainedWasJudged` | `AuditSpec => []ExplanationsNameTheJudged` |

The argument. What a request has read may be out of date when it reads again, so the invariant must not speak of the moment of the first
query. It says that what was read is right *if* the chain verifies now (`ViewingOK`, `Sound`). Nothing makes an
unsound chain sound again: a run whose result is known emits and stores nothing any more (`ReturnedRunsAreFixed`), and an
alteration is not undone (`TruthsStand`). So the verification at the end of a request also vouches for what was read at its beginning. That the
verification finds exactly the flaws there are is `FlawsAre` and `VerifiesMeans`: a hash contains everything before it, so a link is sound
only from an event to its own successor (`HashesLink`). `Ranks` and `Listing` say what the sort by number makes of the stored events.
That an explanation names the judged candidate rests on the types of a run's events by their number (`Numbered`):
before a verdict there is its proposal, unless that is missing, and then the chain has a gap.

`CaseNormalizeProofs` proves, from `LimitsAssumption` (limits and sizes are natural numbers, stripped text is again a scalar) and
`InputsAssumption` (the inputs are `WellFormed` graphs, of any size and shape, cycles included):

| theorem | statement |
|---|---|
| `TheWalkIsTracked` | `Spec => []CInv` |
| `NormalizeTypeCorrect` | `Spec => []TypeOK` |
| `OnlyTheBoundedIsAccepted` | `Spec => []AcceptsExactlyTheBounded` |
| `NothingIsLostOrAdded` | `Spec => []ResultIsCanonical` |
| `TheWalkIsBounded` | `Spec => []WorkIsBounded` |
| `ValidityIsKept` | `Spec => []NormalFormsAreValid` |

The argument. `CInv` relates the walk to the tree the value unfolds to. Each task on the stack is a node of it; the returns lead up from
the newest to the root without a gap, and everything above a return lies below its node (`StackIsNested`). What
has been visited is part of the tree and no node of it twice (`PendingIsNew`), it is what the counters count (`VisitedIsCounted`), and the
members of what was visited have been visited or wait on the stack (`NothingIsLost`). When the stack is empty, the whole
tree has been visited (`TheWalkIsComplete`). When a visit refuses, the tree is not bounded (`RefusedIsUnbounded`): what was
visited is a part of it that exceeds a limit already, or the container is among those being visited, and then the way from it back to
itself can be followed again and again (`ReturnsLeadUp`, `CyclesHaveNoEnd`), so that the tree has a node on every level.

An induction over data would be needed in two places, the levels of the tree and the sums of sizes over a set of nodes. The provers have no
induction principle with an operator as a parameter, and these proofs do without: they take the least number for which a
statement fails (`LeastNumber`, `LeastSubset`, from the well-foundedness of `<` on the naturals) and refute it. `SumEquation`, `SumWithout` and `SumMonotonic` are
the facts about sums, `LevelEquation` and `TreeIsApart` those about levels, the latter that two nodes of the tree differ in their path.

`PaymentFixtureProofs` proves, from `CohortAssumption` (the cohorts are nested as the ranges of the generator are: fewer successes in the incident than
in the recovery, no more in the recovery than at baseline, fewer there than in all) and `DataAssumption` (amounts are natural numbers, the ids of evidence a list):

| theorem | statement |
|---|---|
| `FilesAndStoreAgree` | `Spec => []FInv` |
| `FixtureTypeCorrect` | `Spec => []TypeOK` |
| `GeneratedFixturesPass` | `Spec => []GeneratedFixturesAreValid` |
| `RoutesInMongoAreExact` | `Spec => []ImportedRoutesAreExact` |
| `PassMeansComplete` | `Spec => []PassedImportsAreComplete` |
| `NoEventWithoutItsCase` | `Spec => []EventsHaveTheirCase` |

The argument. The validator counts, and the property is about sets: `ValidRoutesAreExact` shows that the counts suffice, since the routed are
among the eligible failures and there are as many. In the other direction the cohorts of a generated fixture are intervals of numbers (`GeneratedIsNumbered`,
`CohortsByNumber`), so that their counts are those the validator expects. For the import, `ImportOK` says that it works through the replacements in order
and that what it has replaced stays; the catalogue comes first (`CatalogComesFirst`), and ids that are distinct and as many as the numbers use every number
(`EveryNumberIsUsed`), so that a complete import leaves nothing of an older one.

Only model-checked: liveness, which is out of the prover's reach (`EveryRunFinishes`, `EveryEventIsStored`, `RerunsConverge`, and of `ImplementsGovernance` that a run that began
closes), and the four violations, of which a counterexample is all there is to show. Every invariant and every action property that a run checks is also proved.
TLC evaluates every assumption on the constants in the runs of the module that states it, except `OneAtATime`, which is a hypothesis of two theorems and holds in
`runtime_live` because it has one run.

## 5. Not modelled, and why

- Reading YAML, and shape checks of arguments in `contract.py` and `approval.py`: these models build well-formed
  values only. Digests of the canonical form are collision-free.
- `audit_views`, `events_by_type` and the texts of `_summarize` in `resolve/mongo_store.py`: single aggregations by
  MongoDB, and wording.
- `doctor`, model acceptance, `cli.py`, the other read endpoints of `app.py` and the web pages: they change no state, and
  none of them is more than one call of what is modelled.
- `site/showcase-adapter.js`: a canned demonstration in the browser. Verdicts, outcomes and the integrity
  report are constants, no handler has a guard, and nothing of the system is called; a model would repeat its assignments.
- Of the payment fixture: the manifest and its hashes, metrics, timestamps, the contents of evidence documents.
- Keys, key lengths and constant-time comparison: cryptography is ideal here.
- More than one process of the server: `_mongo_state` is per process, so runs of
  two processes share MongoDB only, which `JournalIsTruthful` already covers.

## 6. Plan

Every component of section 1 that keeps state or computes a verdict is modelled, and every safety property that is checked is proved. What could be added, most useful first:

1. The converse of the sync properties under a premise: which events a recovery leaves unmarked (section 2, `OfflineSync`) is exactly the set of those stored without an answer.
2. A sharper count for `Runtime`: with overlapping runs, what is missing is bounded by the unsynced events of all runs together since the last reset.
3. An abstract specification of the journal, an append-only history with a reader that sees a contiguous part, which `OfflineSync` and `Audit` both implement.
