--------------------------- MODULE MCCaseNormalize ---------------------------
(***************************************************************************)
(* Small instances of CaseNormalize: cases around one skeleton, and        *)
(* candidates and payloads with two further containers in any arrangement. *)
(***************************************************************************)
EXTENDS CaseNormalize, TLC

\* A scalar is named after its text; a leading blank is what gets stripped.
MCScalarOf ==
    LET str(text, bytes) == [type |-> "str", text |-> text, bytes |-> bytes]
    IN ("" :> str("", 0)) @@ (" " :> str("", 1))
       @@ ("A" :> str("A", 1)) @@ (" A" :> str("A", 2)) @@ ("B" :> str("B", 1))
       @@ ("C2" :> str("C2", 2)) @@ (" C2" :> str("C2", 3)) @@ ("C9" :> str("C9", 2))
       @@ ("long" :> str("long", 6))
       @@ ("true" :> [type |-> "bool", text |-> "true", bytes |-> 0])
       @@ ("nan" :> [type |-> "unsupported", text |-> "nan", bytes |-> 0])

MCContainer ==
    {"case", "objective", "empty", "constraints", "actions", "first", "second",
     "parameters", "verification", "conditions", "watch", "top", "x", "y", "z"}

CaseKeys ==
    <<"name", "objective", "evidence_roots", "constraints", "actions", "verification", "note">>

ActionKeys == <<"id", "consequence", "reversible", "authority", "allowed_parameters">>

MCKeyBytes ==
    [key \in {CaseKeys[i] : i \in DOMAIN CaseKeys} \cup {ActionKeys[i] : i \in DOMAIN ActionKeys}
              \cup {"primary", "protected_outcomes", "anti_objectives", "success_conditions",
                    "allowed_targets", "watch", "reopen_conditions",
                    "action_type", "target", "parameters", "a", "b"} |-> 1]
    @@ ("longkey" :> 6)

Mapping(keys, values) == [kind |-> "map", keys |-> keys, values |-> values]

Index == <<"[0]", "[1]", "[2]">>

Sequence(kind, values) ==
    [kind |-> kind, keys |-> SubSeq(Index, 1, Len(values)), values |-> values]

Listing(values) == Sequence("list", values)

\* What varies: the constraints, the actions and their IDs, and what hangs below
\* allowed_parameters and below a field the code does not know.
CaseHeap(constraints, actions, id, consequence, allowed, note) ==
    [case |-> Mapping(CaseKeys, <<" A", "objective", "empty", "constraints", "actions",
                                  "verification", note>>),
     objective |-> Mapping(<<"primary", "protected_outcomes", "anti_objectives">>,
                           <<"A", "empty", "empty">>),
     empty |-> Listing(<<>>),
     constraints |-> Listing(constraints),
     actions |-> Listing(actions),
     first |-> Mapping(ActionKeys, <<"A", consequence, "true", "A", "parameters">>),
     second |-> Mapping(ActionKeys, <<id, "C2", "true", "A", "parameters">>),
     parameters |-> Mapping(<<"a">>, <<allowed>>),
     verification |-> Mapping(<<"success_conditions">>, <<"conditions">>),
     conditions |-> Listing(<<" A">>)]

Cases ==
    {[caller |-> "case", root |-> "case", heap |-> CaseHeap(c, a, id, q, p, n)] :
        c \in {<<>>, <<" A">>, <<"A", " A">>, <<"A", "B">>, <<" ">>},
        a \in {<<>>, <<"first">>, <<"first", "first">>, <<"first", "second">>},
        id \in {" A", "B"},
        q \in {" C2", "C9"},
        p \in {" A", "empty", "conditions", "actions", "nan"},
        n \in {" A", "parameters", "case", "long"}}

\* What the code reads only if it is there: the targets and the watch.
With(container, key, value) ==
    Mapping(Append(container.keys, key), Append(container.values, value))

Watched(graph, targets, reopen, watch) ==
    [container \in DOMAIN graph \cup {"watch"} |->
        CASE container = "case"  -> With(graph.case, "watch", watch)
          [] container = "first" -> With(graph.first, "allowed_targets", targets)
          [] container = "watch" -> Mapping(<<"reopen_conditions">>, <<reopen>>)
          [] OTHER               -> graph[container]]

WatchedCases ==
    {[caller |-> "case", root |-> "case",
      heap |-> Watched(CaseHeap(c, a, "B", "C2", "empty", " A"), t, r, w)] :
        c \in {<<" A">>, <<"A", " A">>, <<"A", "B">>},
        a \in {<<"first">>, <<"second", "first">>},
        t \in {" A", "empty", "constraints", "conditions", "actions"},
        r \in {" A", "empty", "conditions", "first"},
        w \in {" A", "watch", "verification"}}

MemberIds == {" A", "x", "y", "z"}

Arrangements ==
    {Listing(values) : values \in UNION {[1..n -> MemberIds] : n \in 0..3}}
    \cup {Sequence("tuple", values) : values \in [1..2 -> MemberIds]}
    \cup {Mapping(<<key>>, <<value>>) : key \in {"a", "allowed_parameters", "longkey", "7"},
                                        value \in MemberIds}

Others ==
    {[caller |-> c, root |-> "top",
      heap |-> [top |-> Mapping(<<"action_type", "target", "parameters">>, <<"A", " A", "x">>),
                x |-> x, y |-> y, z |-> Listing(<<" A", " A", " A">>)]] :
        c \in {"candidate", "payload"}, x \in Arrangements, y \in Arrangements}

MCInputs == Cases \cup WatchedCases \cup Others
=============================================================================
