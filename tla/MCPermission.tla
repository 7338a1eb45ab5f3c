---------------------------- MODULE MCPermission ----------------------------
(***************************************************************************)
(* A small instance of Permission: the payment failover of the tests, at   *)
(* class C2 and, in a second case, at C1 without a human.                  *)
(***************************************************************************)
EXTENDS Permission, TLC

Text(v) == [type |-> "str", value |-> v]
Float(v) == [type |-> "float", value |-> v]
Scalars(S) == [kind |-> "list", items |-> {Text(v) : v \in S}]
AtMost(n) == [kind |-> "mapping",
              bounds |-> [minimum |-> Float(0), maximum |-> Float(n)]]

Failover(class) ==
    [consequence |-> class, reversible |-> TRUE, authority |-> "operations_lead",
     human_approval_required |-> FALSE, rehearsal_required |-> FALSE,
     allowed_targets |-> {Text("processor_b")},
     allowed_parameters |-> [country |-> Scalars({"US"}), share |-> AtMost(20)]]

CaseC2 == [actions |-> [failover |-> Failover("C2")], constraints |-> {"capacity_current"}]
CaseC1 == [CaseC2 EXCEPT !.actions = [failover |-> Failover("C1")]]

MCCaseOf == [severe |-> CaseC2, mild |-> CaseC1]

Proposal(country, share, objective, ids) ==
    [action_type |-> "failover", target |-> Text("processor_b"),
     parameters |-> [country |-> Text(country), share |-> Float(share)],
     objective |-> objective, evidence_ids |-> ids]

\* The second candidate breaks the case, the third pursues another objective
\* and cites evidence that is in no registry.
MCCandidateOf ==
    [bounded |-> Proposal("US", 17, "restore", {"capacity"}),
     unsafe  |-> Proposal("GLOBAL", 100, "restore", {"capacity"}),
     other   |-> Proposal("US", 10, "market_share", {"capacity", "rumour"})]

Stage1 == [errors |-> "d1"]
Stage2 == [errors |-> "d1", capacity |-> "d2"]
Stage3 == [errors |-> "d1", capacity |-> "d3"]
Stages == {Stage1, Stage2, Stage3}
LateStages == {Stage2, Stage3}

Required == [severe |-> {"capacity"}, mild |-> {}]

\* The newest capacity record withdraws the objective.
Objectives ==
    [x \in {"severe", "mild"} \X Stages |-> IF x[2] = Stage3 THEN Null ELSE "restore"]

Reports ==
    [x \in {"capacity_current"} \X {"severe", "mild"} \X {"bounded", "unsafe", "other"} |->
        IF x[3] = "unsafe" THEN {<<"CAPACITY", "share">>} ELSE {}]

\* In the degraded state the rehearsal fails and nothing can be observed.
Outcomes ==
    [x \in {"bounded", "unsafe", "other"} \X {"nominal", "degraded"} |-> x[2] = "nominal"]

Trusting == [consequence_assessed |-> TRUE, reversibility_confirmed |-> TRUE,
             requested_approver_role |-> "operations_lead"]
Hesitant == [consequence_assessed |-> FALSE, reversibility_confirmed |-> Null,
             requested_approver_role |-> Null]
AnyAssertion == {Trusting, Hesitant}
TrustingOnly == {Trusting}
=============================================================================
