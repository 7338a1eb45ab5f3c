----------------------------- MODULE Governance -----------------------------
(***************************************************************************)
(* What a run of the system promises, with no database in sight: a         *)
(* candidate is proposed; if the contract lets it through, a human         *)
(* approves it, it is applied exactly as approved and the run closes;      *)
(* otherwise the run closes without acting.  Runtime implements this       *)
(* specification whatever MongoDB does meanwhile.                          *)
(***************************************************************************)
CONSTANTS
    Run,
    Proposals,     \* what may be proposed once the evidence is complete
    Admissible,    \* the candidates the contract passes on to a human
    None

VARIABLES proposed, approved, applied, closed

govVars == <<proposed, approved, applied, closed>>

GovInit ==
    /\ proposed = [r \in Run |-> None]
    /\ approved = [r \in Run |-> None]
    /\ applied = [r \in Run |-> None]
    /\ closed = [r \in Run |-> FALSE]

Propose(r) ==
    /\ proposed[r] = None
    /\ \E c \in Proposals : proposed' = [proposed EXCEPT ![r] = c]
    /\ UNCHANGED <<approved, applied, closed>>

HumanApproves(r) ==
    /\ proposed[r] \in Admissible
    /\ approved[r] = None
    /\ approved' = [approved EXCEPT ![r] = proposed[r]]
    /\ UNCHANGED <<proposed, applied, closed>>

Apply(r) ==
    /\ approved[r] # None
    /\ applied[r] = None
    /\ applied' = [applied EXCEPT ![r] = approved[r]]
    /\ UNCHANGED <<proposed, approved, closed>>

Close(r) ==
    /\ ~closed[r]
    /\ proposed[r] # None
    /\ proposed[r] \in Admissible => applied[r] = proposed[r]
    /\ closed' = [closed EXCEPT ![r] = TRUE]
    /\ UNCHANGED <<proposed, approved, applied>>

GovStep(r) == Propose(r) \/ HumanApproves(r) \/ Apply(r) \/ Close(r)

GovNext == \E r \in Run : GovStep(r)

GovSafety == GovInit /\ [][GovNext]_govVars

\* A run that has begun is carried to its end.
GovLiveness ==
    \A r \in Run : WF_govVars(HumanApproves(r) \/ Apply(r) \/ Close(r))

GovSpec == GovSafety /\ GovLiveness
=============================================================================
