----------------------------- MODULE MCRuntime -----------------------------
(***************************************************************************)
(* A small instance of Runtime.  The mocks propose world100 and us40; the  *)
(* others are what a model behind the same seam may come up with.          *)
(***************************************************************************)
EXTENDS Runtime, TLC

MCRegion ==
    [world100 |-> "GLOBAL", us40 |-> "US", us60 |-> "US", eu10 |-> "EU"]

MCTraffic == [world100 |-> 100, us40 |-> 40, us60 |-> 60, eu10 |-> 10]

\* Runs are interchangeable.
RunSymmetry == Permutations(Run)

\* What the journal's truth rests on.  The documents, the flags and the results
\* are written and reported, and no step or event depends on them.
JournalView ==
    <<pc, answer, bad, good, approval, committed, emitted, journalEvents, mongo, faults>>
=============================================================================
