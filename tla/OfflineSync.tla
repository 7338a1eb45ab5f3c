----------------------------- MODULE OfflineSync -----------------------------
(***************************************************************************)
(* The local journal of src/mocks/mock_journal.py, the sync layer of       *)
(* src/resolve/mongo_store.py, and the persisting and recovering that      *)
(* src/demo_offline.py does with them, for the events of one run.          *)
(*                                                                         *)
(* MongoDB goes down, comes back and loses answers between any two calls;  *)
(* the process dies between any two steps, and while it writes the file.   *)
(* The program around is external: it persists and recovers in any order   *)
(* and survives a call that raises, which ends persist or the recovery.    *)
(*                                                                         *)
(* An event is its sequence number: event_id, type and payload follow from *)
(* it.  The journal is the lines json.loads reads; what a crash cut in two *)
(* is only known to be there, and makes _read_all raise until the reset.   *)
(***************************************************************************)
EXTENDS Naturals, Sequences, FiniteSets, FiniteSetsExt

CONSTANTS
    MaxEvents,   \* bound: events of a run
    MaxFaults,   \* bound: outages and lost answers
    MaxCrashes   \* bound: deaths of the process

VARIABLES
    recorded,   \* how many events the run has computed
    journal,    \* the lines of runtime/journal.ndjson
    end,        \* how the file ends: with a newline, a line without, or half a line
    stored,     \* the sequence numbers in MongoDB's journal_events
    up,         \* MongoDB answers
    faults,
    crashes,
    pc,         \* where the process is
    handed,     \* the events in hand: persist's one, or those to be synced
    todo,       \* those of them still to be inserted
    done        \* those of them whose insert was answered

vars == <<recorded, journal, end, stored, up, faults, crashes, pc, handed, todo, done>>
locals == <<handed, todo, done>>

ASSUME BoundsAssumption == MaxEvents \in Nat /\ MaxFaults \in Nat /\ MaxCrashes \in Nat

Event == 0..(MaxEvents - 1)

End == {"closed", "open", "torn"}

-----------------------------------------------------------------------------
(***************************************************************************)
(* The local journal                                                       *)
(***************************************************************************)
\* Mutant: the hash covers the line as it is, the flag included.
EventHashOfAll(line) ==
    <<"sha256", line.sequence, line.previous_event_hash, line.synced>>

\* event_hash covers the line but itself and the flag.
EventHash(line) == <<"sha256", line.sequence, line.previous_event_hash>>

PrevHash(lines) ==
    IF lines = <<>> THEN <<"GENESIS">> ELSE lines[Len(lines)].event_hash

Line(n, prev) ==
    LET line == [sequence |-> n, previous_event_hash |-> prev, synced |-> FALSE]
    IN  [sequence |-> n, previous_event_hash |-> prev, synced |-> FALSE,
         event_hash |-> EventHash(line)]

Unsynced == {journal[i].sequence : i \in {j \in DOMAIN journal : ~journal[j].synced}}

Marked(sequences) ==
    [i \in DOMAIN journal |->
        [journal[i] EXCEPT !.synced = @ \/ journal[i].sequence \in sequences]]

\* What is left of the lines once another is written behind an open one.
Unglued == IF end = "open" THEN SubSeq(journal, 1, Len(journal) - 1) ELSE journal

Intact(lines) ==
    \A i \in DOMAIN lines :
        /\ lines[i].previous_event_hash = PrevHash(SubSeq(lines, 1, i - 1))
        /\ lines[i].event_hash = EventHash(lines[i])

VerifyIntegrity ==
    IF end = "torn" THEN "raises" ELSE IF Intact(journal) THEN "intact" ELSE "broken"

-----------------------------------------------------------------------------
(***************************************************************************)
(* MongoDB                                                                 *)
(***************************************************************************)
CallSucceeds == up /\ UNCHANGED faults

AnswerIsLost == up /\ faults < MaxFaults /\ faults' = faults + 1

CallFails == ~up /\ UNCHANGED faults

GoesDown ==
    /\ up /\ faults < MaxFaults
    /\ up' = FALSE /\ faults' = faults + 1
    /\ UNCHANGED <<recorded, journal, end, stored, crashes, pc, locals>>

ComesBack ==
    /\ ~up /\ up' = TRUE
    /\ UNCHANGED <<recorded, journal, end, stored, faults, crashes, pc, locals>>

\* The call was not answered: what it belongs to ends with the exception.
Raises ==
    /\ pc' = "idle"
    /\ handed' = {} /\ todo' = {} /\ done' = {}

\* insert_one under the unique index on (run_id, sequence).
Inserts(n) == stored' = stored \cup {n}

-----------------------------------------------------------------------------
(***************************************************************************)
(* The process                                                             *)
(***************************************************************************)
Idle == pc = "idle"

\* append reads the file first, and writes behind whatever its end is.
Appends ==
    \/ /\ end = "closed" /\ UNCHANGED end
       /\ journal' = Append(journal, Line(recorded, PrevHash(journal)))
    \/ end = "open" /\ end' = "torn" /\ journal' = Unglued

\* persist: the next event goes to the journal, then to MongoDB if it is up.
Persist(mongo_up) ==
    /\ Idle /\ recorded < MaxEvents
    /\ recorded' = recorded + 1
    /\ \/ /\ Appends
          /\ IF mongo_up
             THEN /\ pc' = "persist" /\ done' = {}
                  /\ handed' = {recorded} /\ todo' = {recorded}
             ELSE Raises
       \/ end = "torn" /\ Raises /\ UNCHANGED <<journal, end>>
    /\ UNCHANGED <<stored, up, faults, crashes>>

\* Mutant: an insert that fails does not stop persist.
PersistInsertOrNot ==
    /\ pc = "persist"
    /\ \/ CallSucceeds /\ \E n \in todo : Inserts(n)
       \/ CallFails /\ UNCHANGED stored
    /\ pc' = "mark_one" /\ done' = todo /\ todo' = {}
    /\ UNCHANGED <<recorded, journal, end, up, crashes, handed>>

\* append_journal_event raises ValueError for a number that is stored.
PersistInsert ==
    /\ pc = "persist"
    /\ \/ /\ CallSucceeds /\ \E n \in todo : n \notin stored /\ Inserts(n)
          /\ pc' = "mark_one" /\ done' = todo /\ todo' = {} /\ UNCHANGED handed
       \/ AnswerIsLost /\ (\E n \in todo : Inserts(n)) /\ Raises
       \/ CallFails /\ UNCHANGED stored /\ Raises
    /\ UNCHANGED <<recorded, journal, end, up, crashes>>

Recover ==
    /\ Idle /\ pc' = "read"
    /\ UNCHANGED <<recorded, journal, end, stored, up, faults, crashes, locals>>

\* The recovery begins with the journal: verify_integrity, then the backlog.
ReadBacklog ==
    /\ pc = "read"
    /\ \/ /\ VerifyIntegrity # "raises"
          /\ pc' = "look" /\ handed' = Unsynced /\ todo' = {} /\ done' = {}
       \/ VerifyIntegrity = "raises" /\ Raises
    /\ UNCHANGED <<recorded, journal, end, stored, up, faults, crashes>>

\* Mutant: what is missing is what comes after the last event MongoDB has.
MissingAfterLast(backlog) == {n \in backlog : \A m \in stored : m < n}

Missing(backlog) == backlog \ stored

\* persisted_seqs, and the events it lacks.
Look ==
    /\ pc = "look"
    /\ \/ /\ CallSucceeds
          /\ pc' = "sync" /\ handed' = Missing(handed) /\ todo' = handed' /\ UNCHANGED done
       \/ (AnswerIsLost \/ CallFails) /\ Raises
    /\ UNCHANGED <<recorded, journal, end, stored, up, crashes>>

\* Mutant: the backlog is not sorted.
SyncEventUnsorted ==
    /\ pc = "sync"
    /\ \E n \in todo :
          \/ /\ CallSucceeds /\ Inserts(n)
             /\ todo' = todo \ {n}
             /\ done' = IF n \in stored THEN done ELSE done \cup {n}
             /\ UNCHANGED <<pc, handed>>
          \/ AnswerIsLost /\ Inserts(n) /\ Raises
          \/ CallFails /\ UNCHANGED stored /\ Raises
    /\ UNCHANGED <<recorded, journal, end, up, crashes>>

\* Mutant: an outage is taken for a duplicate.
SyncEventGoesOn ==
    /\ pc = "sync" /\ todo # {}
    /\ LET n == Min(todo)
       IN  \/ /\ CallSucceeds /\ Inserts(n)
              /\ todo' = todo \ {n}
              /\ done' = IF n \in stored THEN done ELSE done \cup {n}
              /\ UNCHANGED <<pc, handed>>
           \/ AnswerIsLost /\ Inserts(n) /\ Raises
           \/ CallFails /\ todo' = todo \ {n} /\ UNCHANGED <<stored, done, pc, handed>>
    /\ UNCHANGED <<recorded, journal, end, up, crashes>>

\* sync_event for the next event in order: SYNCED, or ALREADY_PRESENT.
SyncEvent ==
    /\ pc = "sync" /\ todo # {}
    /\ LET n == Min(todo)
       IN  \/ /\ CallSucceeds /\ Inserts(n)
              /\ todo' = todo \ {n}
              /\ done' = IF n \in stored THEN done ELSE done \cup {n}
              /\ UNCHANGED <<pc, handed>>
           \/ AnswerIsLost /\ Inserts(n) /\ Raises
           \/ CallFails /\ UNCHANGED stored /\ Raises
    /\ UNCHANGED <<recorded, journal, end, up, crashes>>

\* sync_run counts what is persisted, unless it was handed nothing, and returns.
SyncReturns ==
    /\ pc = "sync" /\ todo = {}
    /\ \/ /\ handed = {} /\ UNCHANGED faults
          /\ pc' = "mark_run" /\ UNCHANGED locals
       \/ /\ handed # {} /\ CallSucceeds
          /\ pc' = "mark_run" /\ UNCHANGED locals
       \/ handed # {} /\ (AnswerIsLost \/ CallFails) /\ Raises
    /\ UNCHANGED <<recorded, journal, end, stored, up, crashes>>

Marking == pc \in {"mark_one", "mark_run"}

\* mark_synced for the events whose insert was answered; persist or the
\* recovery ends with it, or with what it raises.
MarkSynced ==
    /\ Marking
    /\ \/ end # "torn" /\ journal' = Marked(done) /\ end' = "closed"
       \/ end = "torn" /\ UNCHANGED <<journal, end>>
    /\ pc' = "idle" /\ handed' = {} /\ todo' = {} /\ done' = {}
    /\ UNCHANGED <<recorded, stored, up, faults, crashes>>

\* The demo starts over: reset, then the run is deleted from MongoDB.
Reset ==
    /\ Idle
    /\ journal' = <<>> /\ end' = "closed" /\ recorded' = 0
    /\ pc' = "clear" /\ handed' = {} /\ todo' = {} /\ done' = {}
    /\ UNCHANGED <<stored, up, faults, crashes>>

\* Mutant: the run is not deleted.
ClearNothing ==
    /\ pc = "clear" /\ pc' = "idle"
    /\ UNCHANGED <<recorded, journal, end, stored, up, faults, crashes, locals>>

\* Unless delete_many answers, the demo ends here and is started again.
Clear ==
    /\ pc = "clear"
    /\ \/ CallSucceeds /\ stored' = {} /\ pc' = "idle"
       \/ AnswerIsLost /\ stored' = {} /\ UNCHANGED pc
       \/ CallFails /\ UNCHANGED <<stored, pc>>
    /\ UNCHANGED <<recorded, journal, end, up, crashes, locals>>

Dies == crashes < MaxCrashes /\ crashes' = crashes + 1 /\ Raises

\* The process dies between two steps.
Crash ==
    /\ pc # "clear" /\ Dies
    /\ UNCHANGED <<recorded, journal, end, stored, up, faults>>

\* It dies in append: half of the line is there, or all of it but the newline.
CrashWhileAppending ==
    /\ Idle /\ recorded < MaxEvents /\ end # "torn" /\ Dies
    /\ recorded' = recorded + 1
    /\ \/ end' = "torn" /\ journal' = Unglued
       \/ /\ end = "closed" /\ end' = "open"
          /\ journal' = Append(journal, Line(recorded, PrevHash(journal)))
    /\ UNCHANGED <<stored, up, faults>>

\* It dies while mark_synced rewrites the file: a beginning of it is there.
CrashWhileMarking ==
    /\ Marking /\ end # "torn" /\ Dies
    /\ \E whole \in 0..Len(journal), left \in End :
          /\ left = "open" => whole > 0
          /\ left = "torn" => whole < Len(journal)
          /\ journal' = SubSeq(Marked(done), 1, whole)
          /\ end' = left
    /\ UNCHANGED <<recorded, stored, up, faults>>

Init ==
    /\ recorded = 0 /\ journal = <<>> /\ end = "closed"
    /\ stored = {} /\ up = TRUE /\ faults = 0 /\ crashes = 0
    /\ pc = "idle" /\ handed = {} /\ todo = {} /\ done = {}

Working ==
    \/ PersistInsert \/ MarkSynced
    \/ ReadBacklog \/ Look \/ SyncEvent \/ SyncReturns
    \/ Clear

Next ==
    \/ \E mongo_up \in BOOLEAN : Persist(mongo_up)
    \/ Recover \/ Reset \/ Working
    \/ GoesDown \/ ComesBack
    \/ Crash \/ CrashWhileAppending \/ CrashWhileMarking

\* Every call returns: the client gives up after serverSelectionTimeoutMS.
Spec == Init /\ [][Next]_vars /\ WF_vars(Working)

-----------------------------------------------------------------------------
(***************************************************************************)
(* Properties                                                              *)
(***************************************************************************)
LineType(line) ==
    /\ DOMAIN line = {"sequence", "previous_event_hash", "synced", "event_hash"}
    /\ line.sequence \in 0..(recorded - 1)
    /\ line.synced \in BOOLEAN

Journaled(n) == \E i \in DOMAIN journal : journal[i].sequence = n

\* The type invariant: the file holds no number twice and none out of order,
\* and MongoDB no event of an earlier session (append, reset, delete_many).
TypeOK ==
    /\ recorded \in 0..MaxEvents
    /\ \A i \in DOMAIN journal : LineType(journal[i])
    /\ \A i, j \in DOMAIN journal : i < j => journal[i].sequence < journal[j].sequence
    /\ end \in End /\ up \in BOOLEAN
    /\ faults \in 0..MaxFaults /\ crashes \in 0..MaxCrashes
    /\ pc \in {"idle", "persist", "mark_one", "read", "look", "sync", "mark_run", "clear"}
    /\ pc # "clear" => stored \subseteq 0..(recorded - 1)
    /\ handed \subseteq Event /\ todo \subseteq handed /\ done \subseteq handed

\* A line is marked synced only when MongoDB holds its event, whatever call
\* failed, lost its answer or was cut off (persist, sync_run, mark_synced).
SyncedIsStored ==
    \A i \in DOMAIN journal : journal[i].synced => journal[i].sequence \in stored

\* When sync_run returns, everything it was handed is durable.
ReturnedIsDurable == pc = "mark_run" => handed \subseteq stored

\* A sync never writes an event before an earlier one it was handed (sync_run).
SyncsInOrder ==
    [][pc = "sync" =>
          \A n \in stored' \ stored : \A m \in handed : m < n => m \in stored]_vars

\* Every line that can be read belongs to the chain: whatever was appended,
\* marked, cut off or reset, verify_integrity never calls the file broken.  On
\* half a line it gives no verdict but raises, as every reader does.
ChainStaysIntact == VerifyIntegrity # "broken"

\* If MongoDB stays up in the end and the recovery is tried again and again,
\* every recorded event reaches MongoDB, gaps that an outage left between stored
\* events included, unless a crash cut it off the journal or the demo starts
\* over.  The limit: once a crash left half a line, every recovery raises, and
\* what is unsynced in the lines before it is not stored (demo_offline.py:79).
EveryEventIsStored ==
    (<>[]up /\ []<><<Recover>>_vars) =>
        \A n \in Event :
            (n < recorded) ~> \/ n \in stored
                              \/ ~Journaled(n) \/ end = "torn" \/ pc = "clear"
=============================================================================
