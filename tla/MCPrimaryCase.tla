---------------------------- MODULE MCPrimaryCase ----------------------------
(***************************************************************************)
(* The canonical incident: the case of src/cases/primary/case.yaml with    *)
(* the bounded and the unsafe candidate of EXPECTED.md.  Shares are in     *)
(* thousandths: 0.174 is 174 and the cap 0.20 is 200.                      *)
(***************************************************************************)
EXTENDS Permission, TLC

Text(v) == [type |-> "str", value |-> v]
Number(t, v) == [type |-> t, value |-> v]

PaymentCase ==
    [constraints |-> {"processor_b_country_allowlist", "processor_b_network_allowlist",
                      "processor_b_maximum_transaction_value",
                      "processor_b_maximum_total_traffic_share",
                      "current_processor_b_capacity_required"},
     actions |-> ("payments.failover" :>
        [consequence |-> "C2", reversible |-> TRUE,
         authority |-> "payments_operations_lead",
         human_approval_required |-> FALSE, rehearsal_required |-> FALSE,
         allowed_targets |-> {Text("processor_b")},
         allowed_parameters |->
            [country  |-> [kind |-> "list", items |-> {Text("US")}],
             networks |-> [kind |-> "list", items |-> {Text("visa"), Text("mastercard")}],
             maximum_transaction_value_usd |-> [kind |-> "mapping",
                bounds |-> [minimum |-> Number("int", 0), maximum |-> Number("int", 5000)]],
             traffic_share |-> [kind |-> "mapping",
                bounds |-> [minimum |-> Number("int", 0), maximum |-> Number("float", 200)]]]])]

Proposal(country, value, share) ==
    [action_type |-> "payments.failover", target |-> Text("processor_b"),
     parameters |->
        [country |-> Text(country),
         networks |-> [type |-> "list", value |-> <<"visa", "mastercard">>],
         maximum_transaction_value_usd |-> Number("int", value),
         traffic_share |-> Number("float", share)],
     objective |-> "restore_payment_success", evidence_ids |-> {"policy", "capacity"}]

PrimaryCandidates ==
    [bounded |-> Proposal("US", 5000, 174), unsafe |-> Proposal("GLOBAL", 5000, 1000)]

PrimaryCases == [payment_failover_001 |-> PaymentCase]

\* Stage 1 holds the stale capacity record, stage 2 the current one.
StageOne == [policy |-> "policy", capacity |-> "stale"]
StageTwo == [policy |-> "policy", capacity |-> "current"]
Stages == {StageOne, StageTwo}

PrimaryRequired == [payment_failover_001 |-> {"policy", "capacity"}]

PrimaryObjectives ==
    [x \in {"payment_failover_001"} \X Stages |-> "restore_payment_success"]

PrimaryReports ==
    [x \in PaymentCase.constraints \X {"payment_failover_001"} \X {"bounded", "unsafe"} |->
        IF x[3] = "bounded" THEN {}
        ELSE IF x[1] = "processor_b_country_allowlist" THEN {<<"COUNTRY_NOT_ALLOWED", "country">>}
        ELSE IF x[1] = "processor_b_maximum_total_traffic_share" THEN {<<"TRAFFIC_CAP_EXCEEDED", "traffic_share">>}
        ELSE {}]

PrimaryOutcomes ==
    [x \in {"bounded", "unsafe"} \X {"incident"} |-> x[1] = "bounded"]

PrimaryAssertion ==
    {[consequence_assessed |-> TRUE, reversibility_confirmed |-> TRUE,
      requested_approver_role |-> "payments_operations_lead"]}

\* EXPECTED.md: the bounded candidate is MORE_EVIDENCE_REQUIRED on the stage-1
\* evidence and WAITING_HUMAN on the stage-2 evidence; it is never BLOCKED.
BoundedCandidateIsNotBlocked ==
    (envelope # Null /\ envelope.candidate_fingerprint = CandidateFingerprint("bounded"))
        => envelope.disposition # "BLOCKED"
=============================================================================
