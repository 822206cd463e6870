---------------------------- MODULE PolicySamples ----------------------------
(* Policies and principals for the checks of PolicyEvaluation.             *)

Field == [root |-> "resource", name |-> "field"]
Proposed == [root |-> "proposed", name |-> "field"]
Literal(t) == [root |-> "literal", name |-> t]
SubjectField(n) == [root |-> "subject", name |-> n]
Comparison(o, l, r) == [op |-> o, left |-> l, right |-> r]
Not(e) == [op |-> "not", kids |-> <<e>>]
NoCondition == [op |-> "empty"]

IsBlank == Comparison("equal", Field, Literal(""))
IsOwn == Comparison("equal", Field, SubjectField("id"))
IsOfRole == Comparison("in", Field, SubjectField("role_codes"))
BecomesA == Comparison("equal", Proposed, Literal("a"))

Accepted == {IsOwn, IsOfRole, Not(IsBlank), [op |-> "or", kids |-> <<IsBlank, IsOfRole>>],
             [op |-> "and", kids |-> <<IsOwn, Not(IsOfRole)>>], NoCondition}

\* A list compared as a text, no field, too deep, a proposed value in the condition.
Refused == {Comparison("equal", Field, SubjectField("role_codes")), Comparison("equal", Literal(""), Literal("")),
            Not(Not(Not(IsBlank))), BecomesA}

Sample(scopes, actions, subjects, conditions, proposals) ==
    [scope : scopes, action : actions, effect : {"allow", "deny"}, subject : subjects,
     condition : conditions, proposed : proposals]

Anybody == [any |-> {}, none |-> {}]

SamplePolicy == Sample({"global"}, {"update"}, {Anybody}, Accepted, {NoCondition, BecomesA})
    \cup Sample({"t1"}, {"update", "read"}, {[any |-> {"a"}, none |-> {"b"}]}, {IsOwn, Not(IsOfRole)}, {NoCondition})
    \cup Sample({"global"}, {"read"}, {Anybody}, Refused, {NoCondition})
    \cup Sample({"global"}, {"read"}, {Anybody}, {IsOwn}, {BecomesA})

SamplePrincipal == [tenant : {"t1"}, id : {"a"}, membership : BOOLEAN, roles : SUBSET {"a", "b"}]
    \cup [tenant : {"t2"}, id : {"b"}, membership : {TRUE}, roles : {{"a"}}]
=============================================================================
