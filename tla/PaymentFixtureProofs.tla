------------------------- MODULE PaymentFixtureProofs -------------------------
(***************************************************************************)
(* Proofs about PaymentFixture, for cohorts of any size, any number of     *)
(* runs of the generator, of altered fields and of scripts that die.       *)
(***************************************************************************)
EXTENDS PaymentFixture, SequenceTheorems, FiniteSetTheorems, TLAPS

-----------------------------------------------------------------------------
(***************************************************************************)
(* The inductive invariant                                                 *)
(***************************************************************************)
Keys == {"case"} \cup {Evidence[i] : i \in DOMAIN Evidence}

Replacement ==
    [collection : {"catalog"}, key : Keys]
    \cup [collection : {"payment_events"}, document : Transactions]

\* What a replacement is to bring about has been, and was not undone.
Done(replacement) ==
    IF replacement.collection = "catalog"
    THEN replacement.key \in catalog
    ELSE payments[replacement.document.id] = replacement.document

\* How many replacements the import has made.
Made == Len(Replacements) - Len(pending)

\* The files, and what is known of them while the generator is between the two.
FilesOK ==
    /\ canonical \in Seq(Transactions) /\ imports \in Seq(Transactions)
    /\ origin \in {"none", "partial", "generated", "altered"}
    /\ script \in {"idle", "generate", "import"}
    /\ script = "generate" => origin = "partial" /\ ValidTransactions(canonical)
    /\ GeneratedFixturesAreValid

\* The import works through the replacements of a valid fixture from the first
\* to the last one, and what it has replaced stays.
ImportOK ==
    /\ script # "import" => pending = <<>>
    /\ script = "import" =>
          /\ ValidFixture
          /\ outcome = "none"
          /\ pending \in Seq(Replacement) /\ Len(pending) <= Len(Replacements)
          /\ \A i \in DOMAIN pending : pending[i] = Replacements[Made + i]
          /\ \A i \in 1..Made : Done(Replacements[i])

\* Once an import has passed: what is routed is what had to be.
StoredExactly ==
    /\ \A t \in Stored : IsRouted(t) <=> IsEligibleFailure(t)
    /\ \A t \in Stored : t.incident => t.recovery

\* What MongoDB has comes from valid fixtures alone, whichever they were.
DatabaseOK ==
    /\ catalog \subseteq {Catalogued[i] : i \in DOMAIN Catalogued}
    /\ payments \in [Numbers -> Transactions \cup {None}]
    /\ \A n \in Numbers : payments[n] # None => payments[n].id = n
    /\ outcome \in {"none", "refused", "stopped", "PASS"}
    /\ EventsHaveTheirCase
    /\ \A t \in Stored : IsRouted(t) => Authorized(t)
    /\ outcome = "PASS" => StoredExactly

FInv == FilesOK /\ ImportOK /\ DatabaseOK

-----------------------------------------------------------------------------
(***************************************************************************)
(* How many numbers there are                                              *)
(***************************************************************************)
\* Of the numbers above a up to b there are b - a.
LEMMA SizeOfInterval ==
  ASSUME NEW a \in Nat, NEW b \in Nat, a <= b
  PROVE  /\ Cardinality((a + 1)..b) = b - a /\ IsFiniteSet((a + 1)..b)
         /\ Cardinality(1..b) = b /\ IsFiniteSet(1..b)
  <1>1. a + 1 \in Int /\ b \in Int /\ 1 \in Int
    OBVIOUS
  <1>2. /\ IsFiniteSet((a + 1)..b)
        /\ Cardinality((a + 1)..b) = IF a + 1 > b THEN 0 ELSE b - (a + 1) + 1
    BY <1>1, FS_Interval, Zenon
  <1>3. IsFiniteSet(1..b) /\ Cardinality(1..b) = IF 1 > b THEN 0 ELSE b - 1 + 1
    BY <1>1, FS_Interval, Zenon
  <1>4. Cardinality((a + 1)..b) = b - a
    BY <1>2
  <1>5. Cardinality(1..b) = b
    BY <1>3
  <1>6. QED BY <1>2, <1>3, <1>4, <1>5

-----------------------------------------------------------------------------
(***************************************************************************)
(* What the generator makes                                                *)
(***************************************************************************)
\* The fields of a transaction the generator makes.
LEMMA FieldsOfTransaction ==
  ASSUME NEW n \in Numbers, NEW country \in Country \cup {"US"},
         NEW network \in Network \cup {"visa", "mastercard", "amex"}, NEW amount \in Amount,
         NEW t, t = Transaction(n, country, network, amount)
  PROVE  /\ t \in Transactions
         /\ t.id = n /\ t.country = country /\ t.network = network /\ t.amount = amount
         /\ t.eligible <=> Eligible(country, network, amount)
         /\ t.affected <=> Affected(n)
         /\ t.baseline <=> n <= BaselineSuccess
         /\ t.incident <=> n <= IncidentSuccess
         /\ t.recovery <=> n <= RecoverySuccess
         /\ t.processor = IF Affected(n) THEN "processor_b" ELSE "processor_a"
         /\ t.routed <=> Affected(n)
         /\ t.policy_ok
  <1> DEFINE eligible == Eligible(country, network, amount)
             affected == Affected(n)
             baseline == n <= BaselineSuccess
             incident == n <= IncidentSuccess
             recovery == n <= RecoverySuccess
             processor == IF Affected(n) THEN "processor_b" ELSE "processor_a"
  <1>1. t = [id |-> n, country |-> country, network |-> network, amount |-> amount,
             eligible |-> eligible, affected |-> affected, baseline |-> baseline,
             incident |-> incident, recovery |-> recovery, processor |-> processor,
             routed |-> affected, policy_ok |-> TRUE]
    BY DEF Transaction
  <1>2. /\ eligible \in BOOLEAN /\ affected \in BOOLEAN /\ baseline \in BOOLEAN
        /\ incident \in BOOLEAN /\ recovery \in BOOLEAN
        /\ processor \in {"processor_a", "processor_b"}
    BY DEF Eligible, Affected
  <1> HIDE DEF eligible, affected, baseline, incident, recovery, processor
  <1>3. /\ t.id = n /\ t.country = country /\ t.network = network /\ t.amount = amount
        /\ t.eligible = eligible /\ t.affected = affected /\ t.baseline = baseline
        /\ t.incident = incident /\ t.recovery = recovery /\ t.processor = processor
        /\ t.routed = affected /\ t.policy_ok = TRUE
    BY <1>1
  <1>4. t \in Transactions
    BY <1>1, <1>2 DEF Transactions
  <1>5. QED BY <1>3, <1>4 DEF eligible, affected, baseline, incident, recovery, processor

\* What the validator reads off one generated transaction is decided by its number:
\* the affected ones are the eligible failures, and they are routed.
LEMMA OneTransaction ==
  ASSUME NEW n \in Numbers, NEW country \in Country, NEW network \in Network, NEW amount \in Amount,
         Affected(n) \/ n > RecoverySuccess => amount <= 4999,
         NEW t, t = MakeTransaction(n, country, network, amount)
  PROVE  /\ t \in Transactions
         /\ t.id = n /\ t.policy_ok
         /\ t.baseline <=> n <= BaselineSuccess
         /\ t.incident <=> n <= IncidentSuccess
         /\ t.recovery <=> n <= RecoverySuccess
         /\ t.affected <=> Affected(n)
         /\ IsRouted(t) <=> Affected(n)
         /\ IsEligibleFailure(t) <=> Affected(n)
         /\ IF Affected(n) THEN Authorized(t) ELSE Explained(t)
  <1>1. n \in Nat /\ amount \in Nat
    BY CohortAssumption, DataAssumption DEF Numbers
  <1>2. CASE Affected(n)
    <2> DEFINE own == IF n % 2 = 1 THEN "visa" ELSE "mastercard"
    <2>1. own \in {"visa", "mastercard"}
      OBVIOUS
    <2> HIDE DEF own
    <2>2. t = Transaction(n, "US", own, amount)
      BY <1>2 DEF MakeTransaction, own
    <2>3. Eligible("US", own, amount)
      BY <1>1, <1>2, <2>1 DEF Eligible
    <2>4. ~(n <= IncidentSuccess) /\ n <= RecoverySuccess /\ n <= BaselineSuccess
      BY <1>1, <1>2, CohortAssumption DEF Affected
    <2>5. /\ t.id = n /\ t.country = "US" /\ t.network = own /\ t.amount = amount
          /\ t.eligible /\ t.affected /\ t.baseline /\ ~t.incident /\ t.recovery
          /\ t.processor = "processor_b" /\ t.routed /\ t.policy_ok
      BY <1>2, <2>1, <2>2, <2>3, <2>4, FieldsOfTransaction
    <2>6. t \in Transactions
      BY <2>1, <2>2, FieldsOfTransaction
    <2>7. Authorized(t)
      BY <1>1, <1>2, <2>1, <2>5 DEF Authorized
    <2>8. QED BY <1>2, <2>4, <2>5, <2>6, <2>7 DEF IsRouted, IsEligibleFailure
  <1>3. ASSUME ~Affected(n), NEW c \in Country \cup {"US"}, NEW w \in Network \cup {"amex"},
               t = Transaction(n, c, w, amount),
               n > RecoverySuccess => w = "amex"
        PROVE  /\ t \in Transactions
               /\ t.id = n /\ t.policy_ok
               /\ t.baseline <=> n <= BaselineSuccess
               /\ t.incident <=> n <= IncidentSuccess
               /\ t.recovery <=> n <= RecoverySuccess
               /\ ~t.affected /\ ~IsRouted(t) /\ ~IsEligibleFailure(t) /\ Explained(t)
    <2>1. /\ t.id = n /\ t.policy_ok /\ ~t.affected /\ ~t.routed
          /\ t.baseline <=> n <= BaselineSuccess
          /\ t.incident <=> n <= IncidentSuccess
          /\ t.recovery <=> n <= RecoverySuccess
          /\ t.eligible <=> Eligible(c, w, amount)
          /\ t.processor = "processor_a" /\ t \in Transactions
      BY <1>3, FieldsOfTransaction
    <2>2. ~t.incident => n > RecoverySuccess
      BY <1>1, <1>3, <2>1, CohortAssumption DEF Affected
    <2>3. ~t.incident => ~t.eligible /\ ~t.recovery
      BY <1>1, <1>3, <2>1, <2>2, CohortAssumption DEF Eligible
    <2>4. QED BY <2>1, <2>3 DEF IsRouted, IsEligibleFailure, Explained
  <1>4. CASE ~Affected(n)
    <2>1. CASE n > RecoverySuccess
      <3>1. t = Transaction(n, "US", "amex", amount)
        BY <1>4, <2>1 DEF MakeTransaction
      <3>2. QED BY <1>3, <1>4, <3>1
    <2>2. CASE ~(n > RecoverySuccess)
      <3>1. t = Transaction(n, country, network, amount)
        BY <1>4, <2>2 DEF MakeTransaction
      <3>2. QED BY <1>3, <1>4, <2>2, <3>1
    <2>3. QED BY <2>1, <2>2
  <1>5. QED BY <1>2, <1>4

\* Every transaction of a file is what its number says.
AsNumbered(records) ==
    \A n \in Numbers :
       /\ records[n].id = n /\ records[n].policy_ok
       /\ records[n].baseline <=> n <= BaselineSuccess
       /\ records[n].incident <=> n <= IncidentSuccess
       /\ records[n].recovery <=> n <= RecoverySuccess
       /\ records[n].affected <=> Affected(n)
       /\ IsRouted(records[n]) <=> Affected(n)
       /\ IsEligibleFailure(records[n]) <=> Affected(n)
       /\ IF Affected(n) THEN Authorized(records[n]) ELSE Explained(records[n])

\* A file in which every transaction is what its number says passes: the cohorts
\* the validator counts are the numbers the generator goes by.
LEMMA CohortsByNumber ==
  ASSUME NEW records \in Seq(Transactions), Len(records) = Total, AsNumbered(records)
  PROVE  ValidTransactions(records)
  <1>1. DOMAIN records = 1..Total
    BY LenProperties
  <1>2. CountsMatch(records)
    <2> DEFINE atBaseline == {n \in DOMAIN records : records[n].baseline}
    <2>1. atBaseline = 1..BaselineSuccess
      BY <1>1, CohortAssumption DEF AsNumbered, Numbers
    <2>2. IncidentIn(records) = 1..IncidentSuccess
      BY <1>1, CohortAssumption DEF IncidentIn, AsNumbered, Numbers
    <2>3. DOMAIN records \ IncidentIn(records) = (IncidentSuccess + 1)..Total
      BY <1>1, <2>2, CohortAssumption
    <2>4. RecoveryIn(records) = 1..RecoverySuccess
      BY <1>1, CohortAssumption DEF RecoveryIn, AsNumbered, Numbers
    <2>5. /\ Cardinality(1..BaselineSuccess) = BaselineSuccess
          /\ Cardinality(1..IncidentSuccess) = IncidentSuccess
          /\ Cardinality((IncidentSuccess + 1)..Total) = Total - IncidentSuccess
          /\ Cardinality(1..RecoverySuccess) = RecoverySuccess
      BY SizeOfInterval, CohortAssumption
    <2>6. CountsMatch(records) <=>
            /\ Cardinality(atBaseline) = BaselineSuccess
            /\ Cardinality(IncidentIn(records)) = IncidentSuccess
            /\ Cardinality(DOMAIN records \ IncidentIn(records)) = Total - IncidentSuccess
            /\ Cardinality(RecoveryIn(records)) = RecoverySuccess
      BY Zenon DEF CountsMatch
    <2> HIDE DEF atBaseline
    <2>7. QED BY <2>1, <2>2, <2>3, <2>4, <2>5, <2>6
  <1>3. CohortsMatch(records)
    <2>1. /\ EligibleFailuresIn(records) = (IncidentSuccess + 1)..RecoverySuccess
          /\ AffectedIn(records) = (IncidentSuccess + 1)..RecoverySuccess
          /\ RoutedIn(records) = (IncidentSuccess + 1)..RecoverySuccess
      BY <1>1, CohortAssumption
      DEF EligibleFailuresIn, AffectedIn, RoutedIn, Affected, AsNumbered, Numbers
    <2>2. Cardinality((IncidentSuccess + 1)..RecoverySuccess) = RecoverySuccess - IncidentSuccess
      BY SizeOfInterval, CohortAssumption
    <2>3. QED BY <2>1, <2>2 DEF CohortsMatch
  <1>4. QED BY <1>1, <1>2, <1>3 DEF ValidTransactions, AsNumbered, Numbers

\* Whatever the generator draws, that is what it makes.
LEMMA GeneratedIsNumbered ==
  ASSUME NEW country \in [Numbers -> Country], NEW network \in [Numbers -> Network],
         NEW amount \in [Numbers -> Amount],
         \A n \in Numbers : Affected(n) \/ n > RecoverySuccess => amount[n] <= 4999,
         NEW records,
         records = [n \in Numbers |-> records[n]],
         \A n \in Numbers : records[n] = MakeTransaction(n, country[n], network[n], amount[n])
  PROVE  records \in Seq(Transactions) /\ Len(records) = Total /\ AsNumbered(records)
  <1>1. (\A n \in Numbers : records[n] \in Transactions) /\ AsNumbered(records)
    <2> SUFFICES ASSUME NEW n \in Numbers
                 PROVE  /\ records[n] \in Transactions
                        /\ records[n].id = n /\ records[n].policy_ok
                        /\ records[n].baseline <=> n <= BaselineSuccess
                        /\ records[n].incident <=> n <= IncidentSuccess
                        /\ records[n].recovery <=> n <= RecoverySuccess
                        /\ records[n].affected <=> Affected(n)
                        /\ IsRouted(records[n]) <=> Affected(n)
                        /\ IsEligibleFailure(records[n]) <=> Affected(n)
                        /\ IF Affected(n) THEN Authorized(records[n]) ELSE Explained(records[n])
      BY DEF AsNumbered
    <2>1. /\ country[n] \in Country /\ network[n] \in Network /\ amount[n] \in Amount
          /\ Affected(n) \/ n > RecoverySuccess => amount[n] <= 4999
          /\ records[n] = MakeTransaction(n, country[n], network[n], amount[n])
      OBVIOUS
    <2>2. QED BY <2>1, OneTransaction
  <1>2. records \in [1..Total -> Transactions] /\ Total \in Nat /\ DOMAIN records = 1..Total
    BY <1>1, CohortAssumption DEF Numbers
  <1>3. records \in Seq(Transactions)
    BY <1>2, SeqDef
  <1>4. Len(records) = Total
    BY <1>2, <1>3, LenProperties
  <1>5. QED BY <1>1, <1>3, <1>4

-----------------------------------------------------------------------------
(***************************************************************************)
(* What the validator lets pass                                            *)
(***************************************************************************)
\* Counting is enough: of as many routed transactions as there are eligible
\* failures, each of which is one, none is missing; and with that many successes
\* after recovery, none of the incident's was lost.
LEMMA ValidRoutesAreExact ==
  ASSUME NEW records \in Seq(Transactions), ValidTransactions(records)
  PROVE  \A n \in DOMAIN records :
            /\ IsRouted(records[n]) => Authorized(records[n])
            /\ IsRouted(records[n]) <=> IsEligibleFailure(records[n])
            /\ records[n].incident => records[n].recovery
  <1>1. /\ DOMAIN records = 1..Total /\ IsFiniteSet(DOMAIN records)
        /\ \A n \in DOMAIN records :
              IF IsRouted(records[n]) THEN Authorized(records[n]) ELSE Explained(records[n])
    <2>1. Len(records) = Total /\ DOMAIN records = 1..Total
      BY LenProperties DEF ValidTransactions
    <2>2. IsFiniteSet(1..Total)
      BY SizeOfInterval, CohortAssumption
    <2>3. QED BY <2>1, <2>2 DEF ValidTransactions
  <1>2. /\ IsFiniteSet(EligibleFailuresIn(records)) /\ IsFiniteSet(IncidentIn(records))
        /\ IsFiniteSet(RecoveryIn(records))
    <2>1. /\ EligibleFailuresIn(records) \in SUBSET DOMAIN records
          /\ IncidentIn(records) \in SUBSET DOMAIN records
          /\ RecoveryIn(records) \in SUBSET DOMAIN records
      BY DEF EligibleFailuresIn, IncidentIn, RecoveryIn
    <2>2. QED BY <1>1, <2>1, FS_Subset
  <1>3. RoutedIn(records) = EligibleFailuresIn(records)
    <2>1. RoutedIn(records) \in SUBSET EligibleFailuresIn(records)
      BY <1>1 DEF RoutedIn, EligibleFailuresIn, Authorized, IsEligibleFailure
    <2>2. Cardinality(EligibleFailuresIn(records)) = Cardinality(RoutedIn(records))
      BY DEF ValidTransactions, CohortsMatch
    <2>3. QED BY <1>2, <2>1, <2>2, FS_Subset
  <1>4. IncidentIn(records) \subseteq RecoveryIn(records)
    <2> DEFINE kept == RecoveryIn(records) \cap IncidentIn(records)
    <2>1. RecoveryIn(records) \ IncidentIn(records) = RoutedIn(records)
      BY <1>1 DEF RecoveryIn, IncidentIn, RoutedIn, Authorized, Explained
    <2>2. Cardinality(RoutedIn(records)) = Cardinality(RecoveryIn(records)) - Cardinality(kept)
      BY <1>2, <2>1, FS_Difference
    <2>3. kept \in SUBSET IncidentIn(records)
      OBVIOUS
    <2>4. Cardinality(kept) \in Nat
      BY <1>2, <2>3, FS_Subset, FS_CardinalityType
    <2>5. /\ Cardinality(RoutedIn(records)) = RecoverySuccess - IncidentSuccess
          /\ Cardinality(RecoveryIn(records)) = RecoverySuccess
          /\ Cardinality(IncidentIn(records)) = IncidentSuccess
      BY DEF ValidTransactions, CountsMatch, CohortsMatch
    <2> HIDE DEF kept
    <2>6. Cardinality(IncidentIn(records)) = Cardinality(kept)
      BY <2>2, <2>4, <2>5, CohortAssumption
    <2>7. kept = IncidentIn(records)
      BY <1>2, <2>3, <2>6, FS_Subset
    <2>8. QED BY <2>7 DEF kept
  <1>5. QED BY <1>1, <1>3, <1>4 DEF RoutedIn, EligibleFailuresIn, IncidentIn, RecoveryIn

\* Distinct ids of as many transactions as there are numbers use up the numbers.
LEMMA EveryNumberIsUsed ==
  ASSUME NEW records \in Seq(Transactions), ValidTransactions(records), NEW n \in Numbers
  PROVE  \E m \in DOMAIN records : records[m].id = n
  <1> DEFINE id == [m \in Numbers |-> records[m].id]
  <1>1. /\ DOMAIN records = Numbers
        /\ \A m \in Numbers : records[m] \in Transactions
        /\ \A k, m \in Numbers : records[k].id = records[m].id => k = m
    BY LenProperties, ElementOfSeq DEF ValidTransactions, Numbers
  <1>2. id \in [Numbers -> Numbers]
    BY <1>1 DEF Transactions
  <1>3. id \in Injection(Numbers, Numbers)
    BY <1>1, <1>2 DEF Injection, IsInjective
  <1>4. IsFiniteSet(Numbers)
    BY SizeOfInterval, CohortAssumption DEF Numbers
  <1> HIDE DEF id
  <1>5. id \in Surjection(Numbers, Numbers)
    BY <1>3, <1>4, FS_Injection
  <1>6. \E m \in Numbers : id[m] = n
    BY <1>5 DEF Surjection
  <1>7. QED BY <1>1, <1>6 DEF id

-----------------------------------------------------------------------------
(***************************************************************************)
(* The order of the replacements                                           *)
(***************************************************************************)
\* First the case and the evidence, then the transactions in the order of the file.
LEMMA CatalogComesFirst ==
  ASSUME imports \in Seq(Transactions)
  PROVE  /\ Len(Catalogued) \in Nat /\ DOMAIN Catalogued = 1..Len(Catalogued)
         /\ Len(imports) \in Nat /\ DOMAIN imports = 1..Len(imports)
         /\ \A i \in DOMAIN imports : imports[i] \in Transactions
         /\ Replacements \in Seq(Replacement)
         /\ Len(Replacements) = Len(Catalogued) + Len(imports)
         /\ \A i \in 1..Len(Catalogued) :
               Replacements[i] = [collection |-> "catalog", key |-> Catalogued[i]]
         /\ \A i \in 1..Len(imports) :
               Replacements[Len(Catalogued) + i]
               = [collection |-> "payment_events", document |-> imports[i]]
  <1> DEFINE first == [i \in DOMAIN Catalogued |-> [collection |-> "catalog", key |-> Catalogued[i]]]
             then == [i \in DOMAIN imports |->
                        [collection |-> "payment_events", document |-> imports[i]]]
  <1>1. Catalogued \in Seq(Keys)
    <2> DEFINE name == "case"
    <2>1. name \in Keys
      BY DEF Keys
    <2> HIDE DEF name
    <2>2. <<name>> \in Seq(Keys)
      BY <2>1
    <2>3. /\ Len(Evidence) \in Nat /\ DOMAIN Evidence = 1..Len(Evidence)
          /\ Evidence \in [1..Len(Evidence) -> STRING]
      BY DataAssumption, LenProperties
    <2>4. Evidence \in [1..Len(Evidence) -> Keys]
      BY <2>3 DEF Keys
    <2>5. Evidence \in Seq(Keys)
      BY <2>3, <2>4, SeqDef
    <2>6. QED BY <2>2, <2>5, ConcatProperties DEF Catalogued, name
  <1>2. /\ Len(Catalogued) \in Nat /\ DOMAIN Catalogued = 1..Len(Catalogued)
        /\ \A i \in DOMAIN Catalogued : Catalogued[i] \in Keys
    BY <1>1, LenProperties
  <1>3. /\ Len(imports) \in Nat /\ DOMAIN imports = 1..Len(imports)
        /\ \A i \in DOMAIN imports : imports[i] \in Transactions
    BY LenProperties
  <1>4. /\ first \in [1..Len(Catalogued) -> Replacement]
        /\ then \in [1..Len(imports) -> Replacement]
    BY <1>2, <1>3 DEF Replacement
  <1>5. first \in Seq(Replacement) /\ then \in Seq(Replacement)
    BY <1>2, <1>3, <1>4, SeqDef
  <1>6. Len(first) = Len(Catalogued) /\ Len(then) = Len(imports)
    BY <1>2, <1>3, <1>4, <1>5, LenProperties
  <1>7. /\ \A i \in 1..Len(Catalogued) :
              first[i] = [collection |-> "catalog", key |-> Catalogued[i]]
        /\ \A i \in 1..Len(imports) :
              then[i] = [collection |-> "payment_events", document |-> imports[i]]
    BY <1>2, <1>3
  <1>8. Replacements = first \o then
    BY DEF Replacements
  <1> HIDE DEF first, then
  <1>9. /\ Replacements \in Seq(Replacement)
        /\ Len(Replacements) = Len(first) + Len(then)
        /\ \A i \in 1..Len(first) + Len(then) :
              Replacements[i] = IF i <= Len(first) THEN first[i] ELSE then[i - Len(first)]
    BY <1>5, <1>8, ConcatProperties
  <1>10. \A i \in 1..Len(Catalogued) : Replacements[i] = first[i]
    BY <1>2, <1>3, <1>6, <1>9
  <1>11. ASSUME NEW i \in 1..Len(imports)
         PROVE  Replacements[Len(Catalogued) + i] = then[i]
    <2> DEFINE k == Len(Catalogued) + i
    <2>1. k \in 1..Len(first) + Len(then) /\ ~(k <= Len(first)) /\ k - Len(first) = i
      BY <1>2, <1>3, <1>6
    <2> HIDE DEF k
    <2>2. Replacements[k] = then[i]
      BY <1>9, <2>1
    <2>3. QED BY <2>2 DEF k
  <1>12. QED BY <1>2, <1>3, <1>6, <1>7, <1>9, <1>10, <1>11

-----------------------------------------------------------------------------
(***************************************************************************)
(* What an import has brought about                                        *)
(***************************************************************************)
\* When a transaction is next, or none is left, the case and the evidence are there.
LEMMA CatalogueIsThere ==
  ASSUME FInv, script = "import", Made >= Len(Catalogued)
  PROVE  Complete
  <1>1. /\ imports \in Seq(Transactions) /\ catalog \subseteq {Catalogued[i] : i \in DOMAIN Catalogued}
        /\ pending \in Seq(Replacement) /\ \A i \in 1..Made : Done(Replacements[i])
    BY DEF FInv, FilesOK, ImportOK, DatabaseOK
  <1>2. /\ Len(Catalogued) \in Nat /\ DOMAIN Catalogued = 1..Len(Catalogued)
        /\ \A i \in 1..Len(Catalogued) :
               Replacements[i] = [collection |-> "catalog", key |-> Catalogued[i]]
        /\ Replacements \in Seq(Replacement)
    BY <1>1, CatalogComesFirst
  <1>3. Made \in Int
    BY <1>1, <1>2, LenProperties DEF Made
  <1>4. ASSUME NEW i \in DOMAIN Catalogued
        PROVE  Catalogued[i] \in catalog
    <2>1. i \in 1..Made /\ i \in 1..Len(Catalogued)
      BY <1>2, <1>3
    <2>2. Done(Replacements[i]) /\ Replacements[i] = [collection |-> "catalog", key |-> Catalogued[i]]
      BY <1>1, <1>2, <2>1
    <2>3. QED BY <2>2 DEF Done
  <1>5. QED BY <1>1, <1>4 DEF Complete

\* When none is left, everything is there, and nothing else.
LEMMA AllIsThere ==
  ASSUME FInv, script = "import", pending = <<>>
  PROVE  Complete /\ ImportsStored /\ StoredExactly
  <1>1. /\ imports \in Seq(Transactions) /\ imports = canonical /\ ValidTransactions(imports)
        /\ \A i \in 1..Made : Done(Replacements[i])
        /\ payments \in [Numbers -> Transactions \cup {None}]
    BY DEF FInv, FilesOK, ImportOK, DatabaseOK, ValidFixture
  <1>2. /\ Len(Catalogued) \in Nat
        /\ Len(imports) \in Nat /\ DOMAIN imports = 1..Len(imports)
        /\ Len(Replacements) = Len(Catalogued) + Len(imports)
        /\ \A i \in 1..Len(imports) :
               Replacements[Len(Catalogued) + i]
               = [collection |-> "payment_events", document |-> imports[i]]
    BY <1>1, CatalogComesFirst
  <1>3. Made = Len(Catalogued) + Len(imports)
    <2>1. Len(pending) = 0
      BY EmptySeq
    <2>2. QED BY <1>2, <2>1 DEF Made
  <1>4. Complete
    BY <1>2, <1>3, CatalogueIsThere
  <1>5. ASSUME NEW i \in DOMAIN imports
        PROVE  payments[imports[i].id] = imports[i]
    <2> DEFINE replacement == Replacements[Len(Catalogued) + i]
    <2>1. Len(Catalogued) + i \in 1..Made /\ i \in 1..Len(imports)
      BY <1>2, <1>3
    <2>2. /\ Done(replacement)
          /\ replacement = [collection |-> "payment_events", document |-> imports[i]]
      BY <1>1, <1>2, <2>1
    <2> HIDE DEF replacement
    <2>3. replacement.collection # "catalog" /\ replacement.document = imports[i]
      BY <2>2
    <2>4. QED BY <2>2, <2>3 DEF Done
  <1>6. ASSUME NEW t \in Stored
        PROVE  (IsRouted(t) <=> IsEligibleFailure(t)) /\ (t.incident => t.recovery)
    <2>1. PICK n \in Numbers : t = payments[n]
      BY DEF Stored
    <2>2. PICK i \in DOMAIN imports : imports[i].id = n
      BY <1>1, EveryNumberIsUsed
    <2>3. t = imports[i]
      BY <1>5, <2>1, <2>2
    <2>4. QED BY <1>1, <2>3, ValidRoutesAreExact
  <1>7. ImportsStored
    BY <1>5 DEF ImportsStored
  <1>8. StoredExactly
    BY <1>6 DEF StoredExactly
  <1>9. QED BY <1>4, <1>7, <1>8

-----------------------------------------------------------------------------
(***************************************************************************)
(* The steps                                                               *)
(***************************************************************************)
\* What is said of MongoDB stands while nothing is written to it, unless an import
\* is just reported as passed.
LEMMA DatabaseStands ==
  ASSUME DatabaseOK, UNCHANGED database,
         outcome' = outcome \/ outcome' \in {"none", "refused", "stopped"}
  PROVE  DatabaseOK'
  <1>1. catalog' = catalog /\ payments' = payments
    BY DEF database
  <1>2. Stored' = Stored /\ (Complete' <=> Complete)
    BY <1>1 DEF Stored, Complete
  <1>3. EventsHaveTheirCase' /\ (StoredExactly' <=> StoredExactly)
    BY <1>2 DEF DatabaseOK, EventsHaveTheirCase, StoredExactly
  <1>4. QED BY <1>1, <1>2, <1>3 DEF DatabaseOK

\* What is said of the files stands while no script writes to them.
LEMMA FilesStand ==
  ASSUME FilesOK, UNCHANGED files, script' \in {"idle", "import"}
  PROVE  FilesOK'
  <1>1. canonical' = canonical /\ imports' = imports /\ origin' = origin
    BY DEF files
  <1>2. GeneratedFixturesAreValid'
    BY <1>1 DEF FilesOK, GeneratedFixturesAreValid, ValidFixture
  <1>3. QED BY <1>1, <1>2 DEF FilesOK

\* The canonical file is written.
LEMMA GenerateCanonicalStep ==
  ASSUME FInv, GenerateCanonical
  PROVE  FInv'
  <1>1. canonical' \in Seq(Transactions) /\ ValidTransactions(canonical')
    <2>1. PICK country \in [Numbers -> Country], network \in [Numbers -> Network],
               amount \in [Numbers -> Amount] :
            /\ \A n \in Numbers : Affected(n) \/ n > RecoverySuccess => amount[n] <= 4999
            /\ canonical' = [n \in Numbers |-> canonical'[n]]
            /\ \A n \in Numbers :
                  canonical'[n] = MakeTransaction(n, country[n], network[n], amount[n])
      BY DEF GenerateCanonical
    <2>2. canonical' \in Seq(Transactions) /\ Len(canonical') = Total /\ AsNumbered(canonical')
      BY <2>1, GeneratedIsNumbered
    <2>3. QED BY <2>2, CohortsByNumber
  <1>2. /\ script = "idle" /\ script' = "generate" /\ origin' = "partial" /\ imports' = imports
        /\ pending' = pending /\ UNCHANGED database /\ outcome' = outcome
    BY DEF GenerateCanonical
  <1>3. FilesOK'
    BY <1>1, <1>2 DEF FInv, FilesOK, GeneratedFixturesAreValid
  <1>4. ImportOK'
    BY <1>2 DEF FInv, ImportOK
  <1>5. QED BY <1>2, <1>3, <1>4, DatabaseStands DEF FInv

\* The import file is written.
LEMMA GenerateImportsStep ==
  ASSUME FInv, GenerateImports
  PROVE  FInv'
  <1>1. /\ script = "generate" /\ script' = "idle" /\ origin' = "generated"
        /\ canonical' = canonical /\ imports' = canonical
        /\ pending' = pending /\ UNCHANGED database /\ outcome' = outcome
    BY DEF GenerateImports
  <1>2. FilesOK'
    BY <1>1 DEF FInv, FilesOK, GeneratedFixturesAreValid, ValidFixture
  <1>3. ImportOK'
    BY <1>1 DEF FInv, ImportOK
  <1>4. QED BY <1>1, <1>2, <1>3, DatabaseStands DEF FInv

\* The generator dies while it writes one of the two.
LEMMA GeneratorDiesStep ==
  ASSUME FInv, GeneratorDies
  PROVE  FInv'
  <1>1. /\ script = "generate" /\ script' = "idle" /\ origin' = origin /\ origin = "partial"
        /\ pending' = pending /\ UNCHANGED database /\ outcome' = outcome
        /\ canonical \in Seq(Transactions) /\ Len(canonical) = Total
    BY DEF GeneratorDies, FInv, FilesOK, ValidTransactions
  <1>2. ASSUME NEW n \in 0..Total
        PROVE  SubSeq(canonical, 1, n) \in Seq(Transactions)
    <2>1. \A i \in 1..n : canonical[i] \in Transactions
      BY <1>1, ElementOfSeq, CohortAssumption
    <2>2. QED BY <2>1, SubSeqProperties, CohortAssumption
  <1>3. canonical' \in Seq(Transactions) /\ imports' \in Seq(Transactions)
    BY <1>1, <1>2 DEF GeneratorDies, FInv, FilesOK
  <1>4. FilesOK'
    BY <1>1, <1>3 DEF FilesOK, GeneratedFixturesAreValid
  <1>5. ImportOK'
    BY <1>1 DEF FInv, ImportOK
  <1>6. QED BY <1>1, <1>4, <1>5, DatabaseStands DEF FInv

\* A transaction of which one field was altered is still one.
LEMMA AlteredIsTyped ==
  ASSUME NEW t \in Transactions, NEW u \in Alterations(t)
  PROVE  u \in Transactions
  <1>1. 1 \in Numbers
    BY CohortAssumption DEF Numbers
  <1>2. \A flag \in BOOLEAN :
          /\ [t EXCEPT !.eligible = flag] \in Transactions
          /\ [t EXCEPT !.affected = flag] \in Transactions
          /\ [t EXCEPT !.baseline = flag] \in Transactions
          /\ [t EXCEPT !.incident = flag] \in Transactions
          /\ [t EXCEPT !.recovery = flag] \in Transactions
          /\ [t EXCEPT !.routed = flag] \in Transactions
          /\ [t EXCEPT !.policy_ok = flag] \in Transactions
    BY DEF Transactions
  <1>3. \/ u = [t EXCEPT !.id = 1]
        \/ \E flag \in BOOLEAN :
              \/ u = [t EXCEPT !.eligible = flag] \/ u = [t EXCEPT !.affected = flag]
              \/ u = [t EXCEPT !.baseline = flag] \/ u = [t EXCEPT !.incident = flag]
              \/ u = [t EXCEPT !.recovery = flag] \/ u = [t EXCEPT !.routed = flag]
              \/ u = [t EXCEPT !.policy_ok = flag]
        \/ \E p \in {"processor_a", "processor_b"} : u = [t EXCEPT !.processor = p]
        \/ \E c \in {"US", "CA"} : u = [t EXCEPT !.country = c]
        \/ \E n \in Network : u = [t EXCEPT !.network = n]
        \/ \E a \in Amount : u = [t EXCEPT !.amount = a]
    BY DEF Alterations
  <1>4. CASE u = [t EXCEPT !.id = 1]
    BY <1>1, <1>4 DEF Transactions
  <1>5. CASE \E p \in {"processor_a", "processor_b"} : u = [t EXCEPT !.processor = p]
    BY <1>5 DEF Transactions
  <1>6. CASE \E c \in {"US", "CA"} : u = [t EXCEPT !.country = c]
    BY <1>6 DEF Transactions
  <1>7. CASE \E n \in Network : u = [t EXCEPT !.network = n]
    BY <1>7 DEF Transactions
  <1>8. CASE \E a \in Amount : u = [t EXCEPT !.amount = a]
    BY <1>8 DEF Transactions
  <1>9. QED BY <1>2, <1>3, <1>4, <1>5, <1>6, <1>7, <1>8

\* A field is altered in both files.
LEMMA AlterStep ==
  ASSUME FInv, Alter
  PROVE  FInv'
  <1>1. /\ script = "idle" /\ script' = script /\ origin' = "altered"
        /\ pending' = pending /\ UNCHANGED database /\ outcome' = outcome
        /\ canonical \in Seq(Transactions) /\ imports \in Seq(Transactions)
    BY DEF Alter, FInv, FilesOK
  <1>2. PICK n \in DOMAIN canonical : \E t \in Alterations(canonical[n]) :
          canonical' = [canonical EXCEPT ![n] = t] /\ imports' = [imports EXCEPT ![n] = t]
    BY DEF Alter
  <1>3. PICK t \in Alterations(canonical[n]) :
          canonical' = [canonical EXCEPT ![n] = t] /\ imports' = [imports EXCEPT ![n] = t]
    BY <1>2
  <1>4. DOMAIN canonical = 1..Len(canonical) /\ canonical[n] \in Transactions
    BY <1>1, LenProperties, ElementOfSeq
  <1>5. t \in Transactions
    BY <1>4, AlteredIsTyped
  <1>6. canonical' \in Seq(Transactions)
    BY <1>1, <1>3, <1>4, <1>5, ExceptSeq
  <1>7. imports' \in Seq(Transactions)
    <2>1. /\ Len(imports) \in Nat /\ DOMAIN imports = 1..Len(imports)
          /\ imports \in [1..Len(imports) -> Transactions]
      BY <1>1, LenProperties
    <2>2. imports' \in [1..Len(imports) -> Transactions]
      BY <1>3, <1>5, <2>1
    <2>3. QED BY <2>1, <2>2, SeqDef
  <1>8. FilesOK'
    BY <1>1, <1>6, <1>7 DEF FilesOK, GeneratedFixturesAreValid
  <1>9. ImportOK'
    BY <1>1 DEF FInv, ImportOK
  <1>10. QED BY <1>1, <1>8, <1>9, DatabaseStands DEF FInv

\* The import validates the files, and begins or refuses.
LEMMA ValidateStep ==
  ASSUME FInv, Validate
  PROVE  FInv'
  <1>1. /\ script = "idle" /\ UNCHANGED files /\ UNCHANGED database /\ pending = <<>>
        /\ canonical' = canonical /\ imports' = imports /\ Replacements' = Replacements
        /\ outcome' \in {"none", "refused"} /\ script' \in {"idle", "import"}
    BY DEF Validate, FInv, ImportOK, files, Replacements
  <1>2. ImportOK'
    <2>1. CASE ValidFixture
      <3>1. /\ script' = "import" /\ pending' = Replacements /\ outcome' = "none"
            /\ ValidFixture'
        BY <1>1, <2>1 DEF Validate, ValidFixture
      <3>2. Replacements \in Seq(Replacement)
        BY CatalogComesFirst DEF FInv, FilesOK
      <3>3. Len(Replacements) \in Nat /\ DOMAIN Replacements = 1..Len(Replacements)
        BY <3>2, LenProperties
      <3>4. Made' = 0
        BY <1>1, <3>1, <3>3 DEF Made
      <3>5. \A i \in DOMAIN pending' : pending'[i] = Replacements'[Made' + i]
        BY <1>1, <3>1, <3>3, <3>4
      <3>6. /\ Len(pending') <= Len(Replacements') /\ \A i \in 1..Made' : FALSE
        BY <1>1, <3>1, <3>3, <3>4
      <3>7. QED BY <1>1, <3>1, <3>2, <3>5, <3>6 DEF ImportOK
    <2>2. CASE ~ValidFixture
      <3>1. script' = "idle" /\ pending' = <<>>
        BY <1>1, <2>2 DEF Validate
      <3>2. QED BY <3>1 DEF ImportOK
    <2>3. QED BY <2>1, <2>2
  <1>3. QED BY <1>1, <1>2, DatabaseStands, FilesStand DEF FInv

\* One document is replaced.  What was replaced before stays: the ids are distinct.
LEMMA ReplaceStep ==
  ASSUME FInv, Replace
  PROVE  FInv'
  <1> DEFINE next == Head(pending)
             place == Made + 1
  <1>1. /\ script = "import" /\ script' = script /\ outcome' = outcome /\ UNCHANGED files
        /\ canonical' = canonical /\ imports' = imports /\ Replacements' = Replacements
        /\ pending # <<>> /\ pending' = Tail(pending)
    BY DEF Replace, files, Replacements
  <1>2. /\ FilesOK /\ DatabaseOK /\ ValidFixture /\ outcome = "none"
        /\ imports \in Seq(Transactions) /\ ValidTransactions(imports)
        /\ pending \in Seq(Replacement) /\ Len(pending) <= Len(Replacements)
        /\ \A i \in DOMAIN pending : pending[i] = Replacements[Made + i]
        /\ \A i \in 1..Made : Done(Replacements[i])
    BY <1>1 DEF FInv, FilesOK, ImportOK, ValidFixture
  <1>3. /\ Len(Catalogued) \in Nat /\ DOMAIN Catalogued = 1..Len(Catalogued)
        /\ Len(imports) \in Nat /\ DOMAIN imports = 1..Len(imports)
        /\ \A i \in DOMAIN imports : imports[i] \in Transactions
        /\ Len(Replacements) = Len(Catalogued) + Len(imports)
        /\ \A i \in 1..Len(Catalogued) :
               Replacements[i] = [collection |-> "catalog", key |-> Catalogued[i]]
        /\ \A i \in 1..Len(imports) :
               Replacements[Len(Catalogued) + i]
               = [collection |-> "payment_events", document |-> imports[i]]
    BY <1>2, CatalogComesFirst
  <1>4. /\ Len(pending) \in Nat \ {0} /\ DOMAIN pending = 1..Len(pending)
        /\ pending' \in Seq(Replacement) /\ Len(pending') = Len(pending) - 1
        /\ DOMAIN pending' = 1..Len(pending')
        /\ \A i \in 1..Len(pending') : pending'[i] = pending[i + 1]
        /\ next = pending[1]
    BY <1>1, <1>2, EmptySeq, LenProperties, HeadTailProperties
  <1>5. /\ Made \in Nat /\ Made' = Made + 1 /\ place = Made + 1 /\ place \in 1..Len(Replacements)
        /\ Len(pending') <= Len(Replacements') /\ next = Replacements[place]
    BY <1>1, <1>2, <1>3, <1>4 DEF Made
  <1> HIDE DEF next, place
  <1>6. \A i \in DOMAIN pending' : pending'[i] = Replacements'[Made' + i]
    <2> SUFFICES ASSUME NEW i \in 1..Len(pending')
                 PROVE  pending'[i] = Replacements[Made + 1 + i]
      BY <1>1, <1>4, <1>5
    <2>1. pending'[i] = pending[i + 1] /\ i + 1 \in DOMAIN pending
      BY <1>4
    <2>2. pending[i + 1] = Replacements[Made + (i + 1)] /\ Made + (i + 1) = Made + 1 + i
      BY <1>2, <1>5, <2>1
    <2>3. QED BY <2>1, <2>2
  <1>7. FilesOK'
    BY <1>1, <1>2, FilesStand
  <1>8. CASE place <= Len(Catalogued)
    <2>1. next.collection = "catalog" /\ next.key = Catalogued[place]
      <3>1. place \in 1..Len(Catalogued)
        BY <1>3, <1>5, <1>8
      <3>2. next = [collection |-> "catalog", key |-> Catalogued[place]]
        BY <1>3, <1>5, <3>1
      <3>3. QED BY <3>2
    <2>2. /\ catalog' = catalog \cup {Catalogued[place]} /\ payments' = payments
          /\ Catalogued[place] \in {Catalogued[i] : i \in DOMAIN Catalogued}
      BY <1>3, <1>5, <1>8, <2>1 DEF Replace, next
    <2>3. ASSUME NEW i \in 1..Made'
          PROVE  Done(Replacements[i])'
      <3>1. CASE i = place
        BY <1>1, <1>5, <2>1, <2>2, <3>1 DEF Done
      <3>2. CASE i # place
        <4>1. Done(Replacements[i])
          BY <1>2, <1>5, <3>2
        <4>2. QED BY <1>1, <2>2, <4>1 DEF Done
      <3>3. QED BY <3>1, <3>2
    <2>4. DatabaseOK'
      <3>1. Stored' = Stored
        BY <2>2 DEF Stored
      <3>2. Complete => Complete'
        BY <2>2 DEF Complete
      <3>3. EventsHaveTheirCase'
        BY <1>2, <3>1, <3>2 DEF DatabaseOK, EventsHaveTheirCase
      <3>4. QED BY <1>1, <1>2, <2>2, <3>1, <3>3 DEF DatabaseOK
    <2>5. ImportOK'
      BY <1>1, <1>2, <1>4, <1>5, <1>6, <2>3 DEF ImportOK, ValidFixture
    <2>6. QED BY <1>7, <2>4, <2>5 DEF FInv
  <1>9. CASE ~(place <= Len(Catalogued))
    <2> DEFINE j == place - Len(Catalogued)
               document == imports[j]
    <2>1. j \in DOMAIN imports /\ place = Len(Catalogued) + j
      BY <1>3, <1>5, <1>9
    <2>2. next = [collection |-> "payment_events", document |-> document]
      BY <1>3, <1>5, <2>1
    <2>3. /\ document \in Transactions /\ document.id \in Numbers
          /\ payments' = [payments EXCEPT ![document.id] = document] /\ catalog' = catalog
      <3>1. document \in Transactions /\ document.id \in Numbers
        BY <1>3, <2>1 DEF Transactions
      <3>2. next.collection # "catalog" /\ next.document = document
        BY <2>2
      <3>3. QED BY <3>1, <3>2 DEF Replace, next
    <2>4. ASSUME NEW i \in 1..Made'
          PROVE  Done(Replacements[i])'
      <3>1. CASE i = place
        <4>1. Replacements'[i] = next
          BY <1>1, <1>5, <3>1
        <4>2. next.collection # "catalog" /\ next.document = document
          BY <2>2
        <4>3. payments'[document.id] = document
          BY <1>2, <2>3 DEF DatabaseOK
        <4>4. QED BY <4>1, <4>2, <4>3 DEF Done
      <3>2. CASE i # place
        <4>1. Done(Replacements[i]) /\ i \in 1..Made
          BY <1>2, <1>5, <3>2
        <4>2. CASE i <= Len(Catalogued)
          <5>1. i \in 1..Len(Catalogued)
            BY <1>3, <1>5, <4>1, <4>2
          <5>2. Replacements[i] = [collection |-> "catalog", key |-> Catalogued[i]]
            BY <1>3, <5>1
          <5>3. Replacements[i].collection = "catalog"
            BY <5>2
          <5>4. QED BY <1>1, <2>3, <4>1, <5>3 DEF Done
        <4>3. CASE ~(i <= Len(Catalogued))
          <5> DEFINE m == i - Len(Catalogued)
          <5>1. m \in DOMAIN imports /\ i = Len(Catalogued) + m /\ m # j
            BY <1>3, <1>5, <2>1, <4>1, <4>3
          <5>2. Replacements[i] = [collection |-> "payment_events", document |-> imports[m]]
            BY <1>3, <5>1
          <5> HIDE DEF m, j
          <5>3. Replacements[i].collection # "catalog" /\ Replacements[i].document = imports[m]
            BY <5>2
          <5>4. imports[m].id # document.id /\ imports[m].id \in Numbers
            BY <1>2, <1>3, <2>1, <5>1 DEF ValidTransactions, Transactions
          <5>5. payments'[imports[m].id] = payments[imports[m].id]
            BY <1>2, <2>3, <5>4 DEF DatabaseOK
          <5>6. QED BY <1>1, <4>1, <5>3, <5>5 DEF Done
        <4>4. QED BY <4>2, <4>3
      <3>3. QED BY <3>1, <3>2
    <2>5. DatabaseOK'
      <3>1. IsRouted(document) => Authorized(document)
        BY <1>2, <2>1, ValidRoutesAreExact
      <3>2. Complete
        BY <1>1, <1>3, <1>5, <1>9, CatalogueIsThere
      <3>3. Complete'
        BY <2>3, <3>2 DEF Complete
      <3>4. payments' \in [Numbers -> Transactions \cup {None}]
        BY <1>2, <2>3 DEF DatabaseOK
      <3>5. \A n \in Numbers : payments'[n] # None => payments'[n].id = n
        BY <1>2, <2>3 DEF DatabaseOK
      <3>6. Stored' \subseteq Stored \cup {document}
        BY <1>2, <2>3 DEF Stored, DatabaseOK
      <3>7. \A t \in Stored' : IsRouted(t) => Authorized(t)
        BY <1>2, <3>1, <3>6 DEF DatabaseOK
      <3>8. QED BY <1>1, <1>2, <2>3, <3>3, <3>4, <3>5, <3>7 DEF DatabaseOK, EventsHaveTheirCase
    <2>6. ImportOK'
      BY <1>1, <1>2, <1>4, <1>5, <1>6, <2>4 DEF ImportOK, ValidFixture
    <2>7. QED BY <1>7, <2>5, <2>6 DEF FInv
  <1>10. QED BY <1>8, <1>9

\* The import is done: what the validator counted is what MongoDB has.
LEMMA ReportStep ==
  ASSUME FInv, Report
  PROVE  FInv'
  <1>1. /\ script = "import" /\ pending = <<>> /\ script' = "idle" /\ outcome' = "PASS"
        /\ UNCHANGED files /\ pending' = pending /\ catalog' = catalog /\ payments' = payments
    BY DEF Report, database
  <1>2. FilesOK'
    BY <1>1, FilesStand DEF FInv
  <1>3. ImportOK'
    BY <1>1 DEF ImportOK
  <1>4. StoredExactly
    BY <1>1, AllIsThere
  <1>5. Stored' = Stored /\ (Complete' <=> Complete)
    BY <1>1 DEF Stored, Complete
  <1>6. EventsHaveTheirCase' /\ StoredExactly'
    BY <1>4, <1>5 DEF FInv, DatabaseOK, EventsHaveTheirCase, StoredExactly
  <1>7. DatabaseOK'
    BY <1>1, <1>5, <1>6 DEF FInv, DatabaseOK
  <1>8. QED BY <1>2, <1>3, <1>7 DEF FInv

\* The import dies.
LEMMA ImportDiesStep ==
  ASSUME FInv, ImportDies
  PROVE  FInv'
  <1>1. /\ script' = "idle" /\ outcome' = "stopped" /\ pending' = <<>>
        /\ UNCHANGED files /\ UNCHANGED database
    BY DEF ImportDies
  <1>2. ImportOK'
    BY <1>1 DEF ImportOK
  <1>3. QED BY <1>1, <1>2, FilesStand, DatabaseStands DEF FInv

-----------------------------------------------------------------------------
(***************************************************************************)
(* The theorems                                                            *)
(***************************************************************************)
\* The inductive invariant holds while there are no files and no documents.
LEMMA FInvInitially == Init => FInv
  <1> SUFFICES ASSUME Init PROVE FInv
    OBVIOUS
  <1>1. FilesOK
    BY EmptySeq DEF Init, FilesOK, GeneratedFixturesAreValid
  <1>2. ImportOK
    BY DEF Init, ImportOK
  <1>3. Stored = {}
    BY DEF Init, Stored
  <1>4. DatabaseOK
    BY <1>3 DEF Init, DatabaseOK, EventsHaveTheirCase
  <1>5. QED BY <1>1, <1>2, <1>4 DEF FInv

\* No step of a script and no alteration breaks it.
LEMMA FInvStep == FInv /\ [Next]_vars => FInv'
  <1> SUFFICES ASSUME FInv, [Next]_vars PROVE FInv'
    OBVIOUS
  <1>1. CASE UNCHANGED vars
    <2>1. /\ UNCHANGED <<canonical, imports, origin, script, pending, catalog, payments, outcome>>
      BY <1>1 DEF vars, files, database
    <2>2. Stored' = Stored /\ (Complete' <=> Complete) /\ Replacements' = Replacements
      BY <2>1 DEF Stored, Complete, Replacements
    <2>3. FilesOK'
      BY <2>1 DEF FInv, FilesOK, GeneratedFixturesAreValid, ValidFixture
    <2>4. Made' = Made /\ \A r : Done(r)' <=> Done(r)
      BY <2>1, <2>2 DEF Made, Done
    <2>5. ImportOK'
      BY <2>1, <2>2, <2>4 DEF FInv, ImportOK, ValidFixture, Done
    <2>6. DatabaseOK'
      BY <2>1, DatabaseStands DEF FInv, database
    <2>7. QED BY <2>3, <2>5, <2>6 DEF FInv
  <1>2. CASE GenerateCanonical \/ GenerateImports \/ GeneratorDies \/ Alter
    BY <1>2, GenerateCanonicalStep, GenerateImportsStep, GeneratorDiesStep, AlterStep
  <1>3. CASE Import \/ ImportDies
    BY <1>3, ValidateStep, ReplaceStep, ReportStep, ImportDiesStep DEF Import
  <1>4. QED BY <1>1, <1>2, <1>3 DEF Next

\* The files, the import and MongoDB agree at every step.
THEOREM FilesAndStoreAgree == Spec => []FInv
  BY FInvInitially, FInvStep, PTL DEF Spec

\* A transaction is stored under its own id, and no replacement outlives the import
\* that was to make it.
THEOREM FixtureTypeCorrect == Spec => []TypeOK
  <1>1. FInv => TypeOK
    BY DEF FInv, FilesOK, ImportOK, DatabaseOK, TypeOK
  <1>2. QED BY <1>1, FilesAndStoreAgree, PTL

\* For cohorts of any size and whatever is drawn, what make_transactions makes
\* passes validate_transactions.
THEOREM GeneratedFixturesPass == Spec => []GeneratedFixturesAreValid
  <1>1. FInv => GeneratedFixturesAreValid
    BY DEF FInv, FilesOK
  <1>2. QED BY <1>1, FilesAndStoreAgree, PTL

\* What is routed in MongoDB is within the policy, and after an import that passed
\* it is all of the eligible failures and nothing else: the counts of
\* validate_transactions are enough for that.
THEOREM RoutesInMongoAreExact == Spec => []ImportedRoutesAreExact
  <1>1. FInv => ImportedRoutesAreExact
    <2> SUFFICES ASSUME FInv PROVE ImportedRoutesAreExact
      OBVIOUS
    <2>1. \A t \in Stored : IsRouted(t) => ~t.incident /\ Eligible(t.country, t.network, t.amount)
      BY DEF FInv, DatabaseOK, Authorized, Eligible
    <2>2. QED BY <2>1 DEF FInv, DatabaseOK, StoredExactly, ImportedRoutesAreExact
  <1>2. QED BY <1>1, FilesAndStoreAgree, PTL

\* Before PASS is printed, MongoDB has every document of the import files.
THEOREM PassMeansComplete == Spec => []PassedImportsAreComplete
  <1>1. FInv => PassedImportsAreComplete
    BY AllIsThere DEF PassedImportsAreComplete
  <1>2. QED BY <1>1, FilesAndStoreAgree, PTL

\* No transaction is stored before the case and the evidence it belongs to.
THEOREM NoEventWithoutItsCase == Spec => []EventsHaveTheirCase
  <1>1. FInv => EventsHaveTheirCase
    BY DEF FInv, DatabaseOK
  <1>2. QED BY <1>1, FilesAndStoreAgree, PTL
=============================================================================
