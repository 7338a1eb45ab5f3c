--------------------------- MODULE PaymentFixture ---------------------------
(***************************************************************************)
(* scripts/generate_payment_fixture.py writes the payment fixture to two   *)
(* files, scripts/validate_payment_fixture.py decides whether they may be  *)
(* used, and scripts/import_mongo_fixture.py, which validates first, puts  *)
(* them into MongoDB one replacement after the other.  Each script may die *)
(* at any step; in between, the files get altered.                         *)
(*                                                                         *)
(* Abstractions.  The sizes of the cohorts (500, 493, 395 and 482 in the   *)
(* code) are constants.  Of a transaction there is what the validator      *)
(* relates; a result is TRUE for "success".  The case and the evidence are *)
(* documents without content: the validator compares only their number in  *)
(* the import files.  The manifest, the metrics, timestamps and hashes are *)
(* left out.  One script runs at a time.  The code draws from a fixed      *)
(* SEED, the model from another one each time the generator runs.          *)
(***************************************************************************)
EXTENDS Integers, Sequences, FiniteSets

CONSTANTS
    None,
    Total,             \* transactions in the fixture
    BaselineSuccess,   \* those that succeed at baseline are 1..BaselineSuccess
    IncidentSuccess,   \* ... in the incident
    RecoverySuccess,   \* ... after recovery
    Country, Network, Amount,
    Evidence,          \* the ids of the evidence documents, in order
    MaxGenerations,    \* bound: times the generator runs
    MaxAlterations,    \* bound: fields altered, after the last generation
    MaxStops           \* bound: times a script dies

ASSUME CohortAssumption ==
    /\ IncidentSuccess \in Nat /\ RecoverySuccess \in Nat
    /\ BaselineSuccess \in Nat /\ Total \in Nat
    /\ IncidentSuccess < RecoverySuccess /\ RecoverySuccess <= BaselineSuccess
    /\ BaselineSuccess < Total

ASSUME DataAssumption == Amount \subseteq Nat /\ Evidence \in Seq(STRING)

VARIABLES
    canonical,     \* canonical/payment_transactions_500.ndjson
    imports,       \* mongodb/import/payment_events.ndjson
    origin,        \* "none", "partial", "generated" or "altered"
    script,        \* "idle", or where the generator or the import is
    pending,       \* the replacements the import has still to make
    catalog,       \* MongoDB: the case and evidence documents that are stored
    payments,      \* MongoDB: transaction id -> the transaction stored, or None
    outcome,       \* how the last import ended: "none", "refused", "stopped", "PASS"
    generations, alterations, stops

files == <<canonical, imports, origin>>
database == <<catalog, payments>>
bounds == <<generations, alterations, stops>>
vars == <<files, script, pending, database, outcome, bounds>>

Numbers == 1..Total

-----------------------------------------------------------------------------
(***************************************************************************)
(* generate_payment_fixture.py                                             *)
(***************************************************************************)
Eligible(country, network, amount) ==
    country = "US" /\ network \in {"visa", "mastercard"} /\ amount <= 5000

\* Mutant: the affected cohort begins one transaction late.
AffectedLate(number) == IncidentSuccess + 1 < number /\ number <= RecoverySuccess

Affected(number) == IncidentSuccess < number /\ number <= RecoverySuccess

Transaction(number, country, network, amount) ==
    [id        |-> number,
     country   |-> country,
     network   |-> network,
     amount    |-> amount,
     eligible  |-> Eligible(country, network, amount),
     affected  |-> Affected(number),
     baseline  |-> number <= BaselineSuccess,
     incident  |-> number <= IncidentSuccess,
     recovery  |-> number <= RecoverySuccess,
     processor |-> IF Affected(number) THEN "processor_b" ELSE "processor_a",
     routed    |-> Affected(number),
     policy_ok |-> TRUE]

\* The failures that are not affected are kept outside of Processor B's networks.
MakeTransaction(number, country, network, amount) ==
    IF Affected(number)
    THEN Transaction(number, "US", IF number % 2 = 1 THEN "visa" ELSE "mastercard", amount)
    ELSE IF number > RecoverySuccess THEN Transaction(number, "US", "amex", amount)
    ELSE Transaction(number, country, network, amount)

\* Of the failures only small amounts are drawn.
GenerateCanonical ==
    /\ script = "idle" /\ generations < MaxGenerations
    /\ \E country \in [Numbers -> Country], network \in [Numbers -> Network],
          amount \in [Numbers -> Amount] :
          /\ \A n \in Numbers : Affected(n) \/ n > RecoverySuccess => amount[n] <= 4999
          /\ canonical' = [n \in Numbers |->
                              MakeTransaction(n, country[n], network[n], amount[n])]
    /\ origin' = "partial"
    /\ script' = "generate"
    /\ generations' = generations + 1
    /\ UNCHANGED <<imports, pending, database, outcome, alterations, stops>>

GenerateImports ==
    /\ script = "generate"
    /\ imports' = canonical
    /\ origin' = "generated"
    /\ script' = "idle"
    /\ UNCHANGED <<canonical, pending, database, outcome, bounds>>

\* Either file is rewritten in place: what is being written is cut off.
GeneratorDies ==
    /\ script = "generate" /\ stops < MaxStops
    /\ \E n \in 0..Total :
          \/ canonical' = SubSeq(canonical, 1, n) /\ imports' = imports
          \/ imports' = SubSeq(canonical, 1, n) /\ canonical' = canonical
    /\ script' = "idle"
    /\ stops' = stops + 1
    /\ UNCHANGED <<origin, pending, database, outcome, generations, alterations>>

-----------------------------------------------------------------------------
(***************************************************************************)
(* Alterations: one field of one transaction, in both files.  That the two *)
(* differ comes from a generator that died in between.                     *)
(***************************************************************************)
Alterations(t) ==
    {[t EXCEPT !.id = 1], [t EXCEPT !.eligible = ~@], [t EXCEPT !.affected = ~@],
     [t EXCEPT !.baseline = ~@], [t EXCEPT !.incident = ~@], [t EXCEPT !.recovery = ~@],
     [t EXCEPT !.routed = ~@], [t EXCEPT !.policy_ok = ~@],
     [t EXCEPT !.processor = IF @ = "processor_a" THEN "processor_b" ELSE "processor_a"]}
    \cup {[t EXCEPT !.country = c] : c \in {"US", "CA"}}
    \cup {[t EXCEPT !.network = n] : n \in Network}
    \cup {[t EXCEPT !.amount = a] : a \in Amount}

Alter ==
    /\ script = "idle" /\ origin \in {"generated", "altered"}
    /\ alterations < MaxAlterations /\ generations = MaxGenerations
    /\ \E n \in DOMAIN canonical : \E t \in Alterations(canonical[n]) :
          /\ canonical' = [canonical EXCEPT ![n] = t]
          /\ t # canonical[n]
          /\ imports' = [imports EXCEPT ![n] = t]
    /\ origin' = "altered"
    /\ alterations' = alterations + 1
    /\ UNCHANGED <<script, pending, database, outcome, generations, stops>>

-----------------------------------------------------------------------------
(***************************************************************************)
(* validate_payment_fixture.py                                             *)
(***************************************************************************)
IsRouted(t) == t.processor = "processor_b"

IsEligibleFailure(t) == ~t.incident /\ t.eligible

Authorized(t) ==
    /\ t.affected /\ ~t.incident /\ t.eligible
    /\ t.country = "US" /\ t.network \in {"visa", "mastercard"} /\ t.amount <= 5000
    /\ t.recovery /\ t.routed

\* What is required of a transaction that stays with Processor A.
Explained(t) == ~t.routed /\ (~t.incident => ~t.recovery)

\* The cohorts, as positions in the file.
EligibleFailuresIn(records) == {n \in DOMAIN records : IsEligibleFailure(records[n])}

AffectedIn(records) == {n \in DOMAIN records : records[n].affected}

RoutedIn(records) == {n \in DOMAIN records : IsRouted(records[n])}

IncidentIn(records) == {n \in DOMAIN records : records[n].incident}

RecoveryIn(records) == {n \in DOMAIN records : records[n].recovery}

CountsMatch(records) ==
    /\ Cardinality({n \in DOMAIN records : records[n].baseline}) = BaselineSuccess
    /\ Cardinality(IncidentIn(records)) = IncidentSuccess
    /\ Cardinality(DOMAIN records \ IncidentIn(records)) = Total - IncidentSuccess
    /\ Cardinality(RecoveryIn(records)) = RecoverySuccess

Ids(records, positions) == {records[n].id : n \in positions}

\* Mutant: the eligible failures are not counted.
CohortsMatchUncounted(records) ==
    /\ Cardinality(AffectedIn(records)) = RecoverySuccess - IncidentSuccess
    /\ Cardinality(RoutedIn(records)) = RecoverySuccess - IncidentSuccess
    /\ Ids(records, AffectedIn(records)) = Ids(records, RoutedIn(records))

CohortsMatch(records) ==
    /\ Cardinality(EligibleFailuresIn(records)) = RecoverySuccess - IncidentSuccess
    /\ Cardinality(AffectedIn(records)) = RecoverySuccess - IncidentSuccess
    /\ Cardinality(RoutedIn(records)) = RecoverySuccess - IncidentSuccess
    /\ Ids(records, AffectedIn(records)) = Ids(records, RoutedIn(records))

ValidTransactions(records) ==
    /\ Len(records) = Total
    /\ \A m, n \in DOMAIN records : records[m].id = records[n].id => m = n
    /\ CountsMatch(records)
    /\ CohortsMatch(records)
    /\ \A n \in DOMAIN records :
          IF IsRouted(records[n]) THEN Authorized(records[n]) ELSE Explained(records[n])
    /\ \A n \in DOMAIN records : records[n].policy_ok

\* validate_mongo_imports.
ValidFixture == ValidTransactions(canonical) /\ imports = canonical

-----------------------------------------------------------------------------
(***************************************************************************)
(* import_mongo_fixture.py                                                 *)
(***************************************************************************)
Catalogued == <<"case">> \o Evidence

\* Mutant: the transactions are written first.
ReplacementsPaymentsFirst ==
    [i \in DOMAIN imports |-> [collection |-> "payment_events", document |-> imports[i]]]
    \o [i \in DOMAIN Catalogued |-> [collection |-> "catalog", key |-> Catalogued[i]]]

\* Mutant: the last transaction is left out.
ReplacementsButLast ==
    [i \in DOMAIN Catalogued |-> [collection |-> "catalog", key |-> Catalogued[i]]]
    \o [i \in 1..Len(imports) - 1 |-> [collection |-> "payment_events", document |-> imports[i]]]

\* The collections in the order in which they are written.
Replacements ==
    [i \in DOMAIN Catalogued |-> [collection |-> "catalog", key |-> Catalogued[i]]]
    \o [i \in DOMAIN imports |-> [collection |-> "payment_events", document |-> imports[i]]]

Validate ==
    /\ script = "idle" /\ origin # "none"
    /\ IF ValidFixture
       THEN /\ script' = "import"
            /\ pending' = Replacements
            /\ outcome' = "none"
       ELSE /\ outcome' = "refused"
            /\ UNCHANGED <<script, pending>>
    /\ UNCHANGED <<files, database, bounds>>

\* Mutant: a document that is stored already is left alone.
InsertMissing ==
    /\ script = "import" /\ pending # <<>>
    /\ LET next == Head(pending)
       IN IF next.collection = "catalog"
          THEN catalog' = catalog \cup {next.key} /\ payments' = payments
          ELSE /\ payments' = IF payments[next.document.id] = None
                              THEN [payments EXCEPT ![next.document.id] = next.document]
                              ELSE payments
               /\ catalog' = catalog
    /\ pending' = Tail(pending)
    /\ UNCHANGED <<files, script, outcome, bounds>>

\* One ReplaceOne of an ordered bulk_write, with upsert.
Replace ==
    /\ script = "import" /\ pending # <<>>
    /\ LET next == Head(pending)
       IN IF next.collection = "catalog"
          THEN catalog' = catalog \cup {next.key} /\ payments' = payments
          ELSE /\ payments' = [payments EXCEPT ![next.document.id] = next.document]
               /\ catalog' = catalog
    /\ pending' = Tail(pending)
    /\ UNCHANGED <<files, script, outcome, bounds>>

Report ==
    /\ script = "import" /\ pending = <<>>
    /\ script' = "idle"
    /\ outcome' = "PASS"
    /\ UNCHANGED <<files, pending, database, bounds>>

\* Mutant: what had not been replaced is kept for the next import.
ImportSuspends ==
    /\ script = "import" /\ stops < MaxStops
    /\ script' = "idle"
    /\ pending' = pending
    /\ outcome' = "stopped"
    /\ stops' = stops + 1
    /\ UNCHANGED <<files, database, generations, alterations>>

\* The process dies, MongoDB goes away, or an answer is lost and raises: the
\* replacement under way has been made or not, and no later one.
ImportDies ==
    /\ script = "import" /\ stops < MaxStops
    /\ script' = "idle"
    /\ pending' = <<>>
    /\ outcome' = "stopped"
    /\ stops' = stops + 1
    /\ UNCHANGED <<files, database, generations, alterations>>

Init ==
    /\ canonical = <<>> /\ imports = <<>> /\ origin = "none"
    /\ script = "idle"
    /\ pending = <<>>
    /\ catalog = {}
    /\ payments = [n \in Numbers |-> None]
    /\ outcome = "none"
    /\ generations = 0 /\ alterations = 0 /\ stops = 0

Import == Validate \/ Replace \/ Report

Next ==
    \/ GenerateCanonical \/ GenerateImports \/ GeneratorDies
    \/ Alter
    \/ Import \/ ImportDies

\* An import that was begun goes on; nobody has to begin one.
Spec == Init /\ [][Next]_vars /\ WF_vars(Replace \/ Report)

-----------------------------------------------------------------------------
(***************************************************************************)
(* Properties                                                              *)
(***************************************************************************)
Transactions ==
    [id : Numbers, country : Country \cup {"US", "CA"},
     network : Network \cup {"visa", "mastercard", "amex"}, amount : Amount,
     eligible : BOOLEAN, affected : BOOLEAN,
     baseline : BOOLEAN, incident : BOOLEAN, recovery : BOOLEAN,
     processor : {"processor_a", "processor_b"}, routed : BOOLEAN, policy_ok : BOOLEAN]

Complete == catalog = {Catalogued[i] : i \in DOMAIN Catalogued}

ImportsStored == \A n \in DOMAIN imports : payments[imports[n].id] = imports[n]

\* The type invariant: a transaction is stored under its own id, and no
\* replacement outlives the import that was to make it.
TypeOK ==
    /\ canonical \in Seq(Transactions)
    /\ origin \in {"none", "partial", "generated", "altered"}
    /\ script \in {"idle", "generate", "import"}
    /\ script # "import" => pending = <<>>
    /\ catalog \subseteq {Catalogued[i] : i \in DOMAIN Catalogued}
    /\ \A n \in Numbers : payments[n] # None => payments[n].id = n
    /\ outcome \in {"none", "refused", "stopped", "PASS"}

\* Whatever the generator draws, the validator accepts: what the two scripts say
\* of the cohorts agrees (make_transactions, validate_transactions).
GeneratedFixturesAreValid == origin = "generated" => ValidFixture

Stored == {payments[n] : n \in {m \in Numbers : payments[m] # None}}

\* Every transaction MongoDB has of the fixture as routed to Processor B is
\* within the policy, also after an import that died half-way over an older
\* one.  When an import has passed, the routed transactions are exactly the
\* eligible failures of the incident, and nobody whose payment succeeded in it
\* fails afterwards: the counts of the validator leave no other way.
ImportedRoutesAreExact ==
    /\ \A t \in Stored : IsRouted(t) => ~t.incident /\ Eligible(t.country, t.network, t.amount)
    /\ outcome = "PASS" =>
          /\ \A t \in Stored : IsRouted(t) <=> IsEligibleFailure(t)
          /\ \A t \in Stored : t.incident => t.recovery

\* Before PASS is printed MongoDB has every document of the import files as they
\* are now, whatever an earlier import left there (ReplaceOne with upsert).
PassedImportsAreComplete ==
    script = "import" /\ pending = <<>> =>
        /\ Complete
        /\ ImportsStored

\* Wherever an import died, no transaction is stored without the case and the
\* evidence it belongs to (the order of the three collections).
EventsHaveTheirCase == Stored # {} => Complete

\* If the files stay valid in the end and the import is begun again and again,
\* MongoDB reaches the fixture in spite of imports that died, and a further
\* import changes nothing any more (import_mongo_fixture.py).
RerunsConverge ==
    (<>[]ValidFixture /\ []<>(script = "import")) =>
        <>[](Complete /\ ImportsStored)
=============================================================================
