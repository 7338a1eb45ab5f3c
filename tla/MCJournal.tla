------------------------------ MODULE MCJournal ------------------------------
(***************************************************************************)
(* A small instance of Journal.                                            *)
(***************************************************************************)
EXTENDS Journal, TLC

\* Ids and runs are only compared.
JournalSymmetry == Permutations(EventId) \cup Permutations(RunId)
=============================================================================
