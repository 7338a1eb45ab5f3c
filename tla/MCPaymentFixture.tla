-------------------------- MODULE MCPaymentFixture --------------------------
(***************************************************************************)
(* A small instance of PaymentFixture: one success in the incident, two    *)
(* affected transactions and two other failures, one of them at baseline.  *)
(***************************************************************************)
EXTENDS PaymentFixture

MCEvidence == <<"capacity", "cohort">>
=============================================================================
