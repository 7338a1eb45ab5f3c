---------------------------- MODULE CaseNormalize ----------------------------
(***************************************************************************)
(* resolve/case.py: normalize_case and candidate_fingerprint validate what *)
(* they are given and hand it to _canonicalize; create_event and           *)
(* journal_event_from_dict (resolve/journal.py) hand a payload to their    *)
(* own _canonicalize.  The recursion of _canonicalize is a stack of tasks, *)
(* one visit or one return from a container per step.                      *)
(*                                                                         *)
(* The input is a heap of Python objects: containers refer to each other,  *)
(* so that one may be reached twice or from itself.  A scalar is an id     *)
(* with a type, the text that is left when it is stripped, and a size.     *)
(* What comes out is the set of pairs <<path, what is there>>; the order   *)
(* of a mapping's keys only decides which error is met first and is left   *)
(* out, as are the messages.                                               *)
(***************************************************************************)
EXTENDS Integers, Sequences, FiniteSets, Functions

CONSTANTS
    Container,            \* ids of mappings, lists and tuples
    ScalarOf,             \* scalar id -> [type, text, bytes]
    KeyBytes,             \* string key -> its size; other keys are no strings
    Inputs,               \* what may be passed in: [caller, root, heap]
    MaxNestingDepth,      \* _MAX_NESTING_DEPTH
    MaxCanonicalNodes,    \* _MAX_CANONICAL_NODES
    MaxStringBytes,       \* _MAX_STRING_BYTES
    MaxTotalStringBytes   \* _MAX_TOTAL_STRING_BYTES

Scalar == DOMAIN ScalarOf

Caller == {"case", "candidate", "payload"}

ASSUME LimitsAssumption ==
    /\ MaxNestingDepth \in Nat /\ MaxCanonicalNodes \in Nat
    /\ MaxStringBytes \in Nat /\ MaxTotalStringBytes \in Nat
    /\ \A s \in Scalar : ScalarOf[s].bytes \in Nat /\ ScalarOf[s].text \in Scalar
    /\ \A key \in DOMAIN KeyBytes : KeyBytes[key] \in Nat

\* What Python guarantees of a mapping, list or tuple: no two members have the same
\* key or place, and a place is not the name of a member.
WellFormed(object, ids) ==
    /\ object.kind \in {"map", "list", "tuple"}
    /\ object.values \in Seq(ids \cup Scalar)
    /\ DOMAIN object.keys = DOMAIN object.values
    /\ \A i, j \in DOMAIN object.keys : object.keys[i] = object.keys[j] => i = j
    /\ object.kind # "map" =>
          \A i \in DOMAIN object.keys : object.keys[i] # "allowed_parameters"

ASSUME InputsAssumption ==
    /\ Container \cap Scalar = {}
    /\ \A input \in Inputs :
          /\ input.caller \in Caller
          /\ input.root \in DOMAIN input.heap /\ DOMAIN input.heap \subseteq Container
          /\ \A c \in DOMAIN input.heap : WellFormed(input.heap[c], DOMAIN input.heap)

VARIABLES
    caller,             \* whose value is canonicalized
    root,               \* the value
    heap,               \* container -> its kind, keys and values
    phase,              \* "validate", "walk", "accepted" or "rejected"
    stack,              \* the visits and returns still to be done, next first
    active,             \* active_containers: those being visited
    nodeCount,          \* node_count
    stringByteCount,    \* string_byte_count
    output              \* what has been normalized: pairs <<path, leaf or kind>>

input == <<caller, root, heap>>
counters == <<nodeCount, stringByteCount>>
vars == <<input, phase, stack, active, counters, output>>

-----------------------------------------------------------------------------
(***************************************************************************)
(* Validation, on the raw value                                            *)
(***************************************************************************)
IsMapping(v) == v \in Container /\ heap[v].kind = "map"

IsList(v) == v \in Container /\ heap[v].kind = "list"

Entries(c) == DOMAIN heap[c].keys

Has(c, key) == \E i \in Entries(c) : heap[c].keys[i] = key

Get(c, key) == heap[c].values[CHOOSE i \in Entries(c) : heap[c].keys[i] = key]

Items(c) == heap[c].values

\* value.strip(): the scalar that is left.
Strip(v) == ScalarOf[v].text

NonemptyString(v) ==
    /\ v \in Scalar
    /\ ScalarOf[v].type = "str" /\ Strip(v) # ""
    /\ ScalarOf[v].bytes <= MaxStringBytes

\* _required with _require_mapping and with _require_nonempty_string.
HasMapping(c, key) == Has(c, key) /\ IsMapping(Get(c, key))

HasString(c, key) == Has(c, key) /\ NonemptyString(Get(c, key))

StringList(v, allowEmpty) ==
    /\ IsList(v)
    /\ allowEmpty \/ Items(v) # <<>>
    /\ Len(Items(v)) <= MaxCanonicalNodes
    /\ \A i \in DOMAIN Items(v) : NonemptyString(Items(v)[i])

HasStrings(c, key, allowEmpty) == Has(c, key) /\ StringList(Get(c, key), allowEmpty)

\* Mutant: the IDs are compared before they are stripped.
DistinctAsWritten(values) ==
    \A i, j \in DOMAIN values : values[i] = values[j] => i = j

\* set(ids) is as large as ids: they are compared as they are stripped.
Distinct(values) ==
    \A i, j \in DOMAIN values : Strip(values[i]) = Strip(values[j]) => i = j

ConsequenceClasses == {"C0", "C1", "C2", "C3", "C4"}

ValidAction(action) ==
    /\ IsMapping(action)
    /\ HasString(action, "id")
    /\ HasString(action, "consequence")
    /\ Strip(Get(action, "consequence")) \in ConsequenceClasses
    /\ Has(action, "reversible")
    /\ Get(action, "reversible") \in Scalar
    /\ ScalarOf[Get(action, "reversible")].type = "bool"
    /\ HasString(action, "authority")
    /\ Has(action, "allowed_targets") =>
          /\ HasStrings(action, "allowed_targets", FALSE)
          /\ Distinct(Items(Get(action, "allowed_targets")))
    /\ HasMapping(action, "allowed_parameters")

ValidActions(actions) ==
    /\ IsList(actions)
    /\ Items(actions) # <<>> /\ Len(Items(actions)) <= MaxCanonicalNodes
    /\ \A i \in DOMAIN Items(actions) : ValidAction(Items(actions)[i])
    /\ Distinct([i \in DOMAIN Items(actions) |-> Get(Items(actions)[i], "id")])

ValidObjective(objective) ==
    /\ HasString(objective, "primary")
    /\ HasStrings(objective, "protected_outcomes", TRUE)
    /\ HasStrings(objective, "anti_objectives", TRUE)

ValidCase(case) ==
    /\ HasString(case, "name")
    /\ HasMapping(case, "objective") /\ ValidObjective(Get(case, "objective"))
    /\ HasStrings(case, "evidence_roots", TRUE)
    /\ HasStrings(case, "constraints", TRUE)
    /\ Distinct(Items(Get(case, "constraints")))
    /\ Has(case, "actions") /\ ValidActions(Get(case, "actions"))
    /\ HasMapping(case, "verification")
    /\ HasStrings(Get(case, "verification"), "success_conditions", FALSE)
    /\ Has(case, "watch") =>
          /\ HasMapping(case, "watch")
          /\ HasStrings(Get(case, "watch"), "reopen_conditions", TRUE)

ValidCandidate(candidate) ==
    /\ HasString(candidate, "action_type")
    /\ HasString(candidate, "target")
    /\ HasMapping(candidate, "parameters")

Valid ==
    /\ IsMapping(root)
    /\ caller = "case" => ValidCase(root)
    /\ caller = "candidate" => ValidCandidate(root)

-----------------------------------------------------------------------------
(***************************************************************************)
(* _canonicalize                                                           *)
(***************************************************************************)
\* Only the journal takes tuples.
IsContainer(v) ==
    v \in Container /\ (heap[v].kind = "tuple" => caller = "payload")

Unsupported(v) ==
    IF v \in Scalar THEN ScalarOf[v].type = "unsupported" ELSE ~IsContainer(v)

StringKeys(c) == {i \in Entries(c) : heap[c].keys[i] \in DOMAIN KeyBytes}

\* What a visit adds to the string budget: the keys of a mapping, or a string.
StringBytes(v) ==
    IF v \in Scalar
    THEN IF ScalarOf[v].type = "str" THEN ScalarOf[v].bytes ELSE 0
    ELSE IF heap[v].kind # "map" THEN 0
    ELSE SumFunction([i \in StringKeys(v) |-> KeyBytes[heap[v].keys[i]]])

\* Keys that are no strings, and strings that are too long by themselves.
BadStrings(v) ==
    IF v \in Scalar
    THEN ScalarOf[v].type = "str" /\ ScalarOf[v].bytes > MaxStringBytes
    ELSE /\ heap[v].kind = "map"
         /\ \/ StringKeys(v) # Entries(v)
            \/ \E i \in StringKeys(v) : KeyBytes[heap[v].keys[i]] > MaxStringBytes

\* Mutant: a container may have one member too many to be looked at.
TooDeepByOne(task) == Len(task.path) > MaxNestingDepth + 1

TooDeep(task) == Len(task.path) > MaxNestingDepth

\* Whether _canonicalize raises at this visit.
Refused(task) ==
    \/ TooDeep(task)
    \/ nodeCount + 1 > MaxCanonicalNodes
    \/ Unsupported(task.value)
    \/ task.value \in Container /\ Len(Items(task.value)) > MaxCanonicalNodes
    \/ task.value \in active
    \/ BadStrings(task.value)
    \/ stringByteCount + StringBytes(task.value) > MaxTotalStringBytes

\* Mutant: trimming comes back on below the members of allowed_parameters.
TrimMembers(task, key) == caller = "case" /\ key # "allowed_parameters"

\* Nothing below allowed_parameters is trimmed.
TrimChild(task, key) ==
    task.trim /\ (heap[task.value].kind = "map" => key # "allowed_parameters")

Visits(task) ==
    [i \in Entries(task.value) |->
        [op    |-> "visit",
         value |-> heap[task.value].values[i],
         path  |-> Append(task.path, heap[task.value].keys[i]),
         trim  |-> TrimChild(task, heap[task.value].keys[i])]]

\* Mappings become dictionaries, lists and tuples become lists.
CanonicalKind(v) == IF heap[v].kind = "map" THEN "map" ELSE "list"

Normalized(task) ==
    IF task.value \in Container THEN CanonicalKind(task.value)
    ELSE IF task.trim THEN Strip(task.value) ELSE task.value

Validate ==
    /\ phase = "validate"
    /\ phase' = IF Valid THEN "walk" ELSE "rejected"
    /\ stack' = IF Valid
                THEN <<[op |-> "visit", value |-> root, path |-> <<>>, trim |-> caller = "case"]>>
                ELSE <<>>
    /\ UNCHANGED <<input, active, counters, output>>

Refuse ==
    /\ phase = "walk" /\ stack # <<>> /\ Head(stack).op = "visit"
    /\ Refused(Head(stack))
    /\ phase' = "rejected"
    /\ stack' = <<>>
    /\ active' = {}
    /\ UNCHANGED <<input, counters, output>>

\* Mutant: what was visited before is not counted again.
CountOnce(task) ==
    IF \E other \in output : other[2] = Normalized(task) THEN nodeCount ELSE nodeCount + 1

Count(task) == nodeCount + 1

Visit ==
    /\ phase = "walk" /\ stack # <<>> /\ Head(stack).op = "visit"
    /\ LET task == Head(stack)
           leave == [task EXCEPT !.op = "leave"]
       IN /\ ~Refused(task)
          /\ nodeCount' = Count(task)
          /\ stringByteCount' = stringByteCount + StringBytes(task.value)
          /\ output' = output \cup {<<task.path, Normalized(task)>>}
          /\ IF task.value \in Container
             THEN /\ active' = active \cup {task.value}
                  /\ stack' = Visits(task) \o <<leave>> \o Tail(stack)
             ELSE /\ active' = active
                  /\ stack' = Tail(stack)
    /\ UNCHANGED <<input, phase>>

\* Mutant: a container that was visited stays in active_containers.
LeaveActive ==
    /\ phase = "walk" /\ stack # <<>> /\ Head(stack).op = "leave"
    /\ active' = active
    /\ stack' = Tail(stack)
    /\ UNCHANGED <<input, phase, counters, output>>

Leave ==
    /\ phase = "walk" /\ stack # <<>> /\ Head(stack).op = "leave"
    /\ active' = active \ {Head(stack).value}
    /\ stack' = Tail(stack)
    /\ UNCHANGED <<input, phase, counters, output>>

Return ==
    /\ phase = "walk" /\ stack = <<>>
    /\ phase' = "accepted"
    /\ UNCHANGED <<input, stack, active, counters, output>>

Init ==
    /\ \E i \in Inputs : caller = i.caller /\ root = i.root /\ heap = i.heap
    /\ phase = "validate"
    /\ stack = <<>>
    /\ active = {}
    /\ nodeCount = 0
    /\ stringByteCount = 0
    /\ output = {}

Next == Validate \/ Refuse \/ Visit \/ Leave \/ Return

Spec == Init /\ [][Next]_vars

-----------------------------------------------------------------------------
(***************************************************************************)
(* Reference: the tree the heap unfolds to from the root, level by level   *)
(***************************************************************************)
Members(node) ==
    {<<Append(node[1], heap[node[2]].keys[i]), heap[node[2]].values[i]>> :
        i \in Entries(node[2])}

Below(nodes) == UNION {Members(node) : node \in {m \in nodes : m[2] \in Container}}

Level[n \in 0..MaxNestingDepth + 1] ==
    IF n = 0 THEN {<<<<>>, root>>} ELSE Below(Level[n - 1])

Unfolding == UNION {Level[n] : n \in 0..MaxNestingDepth}

\* The tree is finite and within each limit, and has only JSON in it.
Bounded ==
    /\ Level[MaxNestingDepth + 1] = {}
    /\ Cardinality(Unfolding) <= MaxCanonicalNodes
    /\ \A node \in Unfolding : ~Unsupported(node[2]) /\ ~BadStrings(node[2])
    /\ SumFunction([node \in Unfolding |-> StringBytes(node[2])]) <= MaxTotalStringBytes

Trimmed(path) == caller = "case" /\ \A i \in DOMAIN path : path[i] # "allowed_parameters"

FormOf(node) ==
    <<node[1], IF node[2] \in Container
               THEN IF heap[node[2]].kind = "map" THEN "map" ELSE "list"
               ELSE IF Trimmed(node[1]) THEN Strip(node[2]) ELSE node[2]>>

CanonicalForm == {FormOf(node) : node \in Unfolding}

(***************************************************************************)
(* Properties                                                              *)
(***************************************************************************)
Paths == {pair[1] : pair \in output}

\* The type invariant: what is active is what still has to be left.
TypeOK ==
    /\ phase \in {"validate", "walk", "accepted", "rejected"}
    /\ \A i \in DOMAIN stack : stack[i].op \in {"visit", "leave"}
    /\ active = {stack[i].value : i \in {j \in DOMAIN stack : stack[j].op = "leave"}}
    /\ nodeCount \in Nat /\ stringByteCount \in Nat
    /\ \A pair \in output : pair[2] \in Scalar \cup {"map", "list"}

\* A value is accepted if it is valid and unfolds to a finite tree within every
\* limit, and refused otherwise: an object that is reached twice counts twice
\* but is no cycle, and a cycle never passes (_canonicalize).
AcceptsExactlyTheBounded ==
    phase \in {"accepted", "rejected"} => (phase = "accepted" <=> Valid /\ Bounded)

\* What is accepted is the whole tree, stripped everywhere but below
\* allowed_parameters for a case, and nowhere for a candidate or a payload: no
\* field is lost, merged or respelled (_canonicalize).
ResultIsCanonical == phase = "accepted" => output = CanonicalForm

\* However objects share or contain each other, no more nodes are visited than
\* the limit, and the recursion is never deeper than the limit on nesting.
WorkIsBounded ==
    /\ Cardinality(output) <= MaxCanonicalNodes
    /\ Cardinality(active) <= MaxNestingDepth + 1

Under(key) == {pair \in output : Len(pair[1]) = 2 /\ pair[1][1] = key}

ActionFields(field) ==
    {pair \in output : /\ Len(pair[1]) = 3
                       /\ pair[1][1] = "actions" /\ pair[1][3] = field}

Unique(pairs) == \A p, q \in pairs : p[2] = q[2] => p = q

\* What was validated on the raw case is true of the normal form, which alone is
\* hashed and read by the kernel: constraint and action IDs are still unique
\* when they have been stripped, and every consequence class is one the kernel
\* knows (normalize_case).
NormalFormsAreValid ==
    phase = "accepted" /\ caller = "case" =>
        /\ Unique(Under("constraints"))
        /\ Unique(ActionFields("id"))
        /\ \A pair \in ActionFields("consequence") : pair[2] \in ConsequenceClasses
=============================================================================
