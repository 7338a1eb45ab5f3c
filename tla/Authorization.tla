---------------------------- MODULE Authorization ----------------------------
(***************************************************************************)
(* What the permission kernel promises, without receipts, fingerprints or  *)
(* grants: a human permits a justified situation for a while, and an       *)
(* action is admitted only in a situation some human permitted, while that *)
(* permission lasts.  Permission implements this specification.            *)
(***************************************************************************)
EXTENDS Naturals, Sequences

CONSTANTS
    Situation,   \* what an action is about: case, candidate, evidence, state
    Justifiable  \* the situations that may be permitted

VARIABLES
    situation,   \* the situation as it is now
    time,
    permits,     \* [situation, from, until]
    admitted     \* what was admitted so far, in order

authVars == <<situation, time, permits, admitted>>

AuthInit ==
    /\ situation \in Situation
    /\ time = 0
    /\ permits = {}
    /\ admitted = <<>>

SituationChanges ==
    /\ situation' \in Situation
    /\ UNCHANGED <<time, permits, admitted>>

TimePasses ==
    /\ time' = time + 1
    /\ UNCHANGED <<situation, permits, admitted>>

HumanPermits(s, from, until) ==
    /\ s \in Justifiable
    /\ from < until
    /\ permits' = permits \cup {[situation |-> s, from |-> from, until |-> until]}
    /\ UNCHANGED <<situation, time, admitted>>

Permitted(s, t) ==
    \E p \in permits : p.situation = s /\ p.from <= t /\ t < p.until

Admit ==
    /\ Permitted(situation, time)
    /\ admitted' = Append(admitted, [situation |-> situation, at |-> time])
    /\ UNCHANGED <<situation, time, permits>>

AuthNext ==
    \/ SituationChanges
    \/ TimePasses
    \/ \E p \in permits' :
          HumanPermits(p.situation, p.from, p.until)
    \/ Admit

AuthSpec == AuthInit /\ [][AuthNext]_authVars
=============================================================================
