-------------------------- MODULE PolicyEvaluation --------------------------
(***************************************************************************)
(* Data permission policies: the conditions they may be written in         *)
(* (condition_parser.go), the SQL they are compiled to (compiler.go), their*)
(* evaluation in memory (evaluator.go), the engine that holds the          *)
(* published ones (engine.go) and the service that asks it (service.go).   *)
(*                                                                         *)
(* A condition is a tree of comparisons of one column of the resource.  The*)
(* column may be NULL, as parent_id of a department is; the code that loads*)
(* such a row for the evaluation in memory reads the NULL as "".           *)
(* SQL compares texts under the collation of the column, Go byte by byte.  *)
(***************************************************************************)
EXTENDS Naturals, FiniteSetsExt

CONSTANTS
    Policy,             \* documents: [scope, action, effect, subject, condition, proposed]
    Principal,          \* [tenant, id, membership, roles]
    Text,               \* the texts of a column; "" is one of them
    Folded,             \* what the collation takes a text for: itself on PostgreSQL, while the
                        \* default collations of MySQL ignore the case
    MaxPredicateDepth,
    MaxPredicateNodes,
    MaxPolicies         \* bound of the published policies

VARIABLES
    active,             \* whether the engine holds a snapshot
    policies            \* the policies of the snapshot

vars == <<active, policies>>

-----------------------------------------------------------------------------
(* Conditions.                                                             *)

\* The operands are [root, name], the comparisons [op, left, right], the others [op, kids].
Empty == [op |-> "empty"]

\* The subject fields, and whether they are lists.
trustedSubjectFields == [id |-> "text", role_codes |-> "list"]

schemaField == {"field"}

Compares(e) == e.op \in {"equal", "in"}

RECURSIVE depth(_), nodes(_)

depth(e) == IF Compares(e) \/ e = Empty THEN 1
            ELSE 1 + Max({depth(e.kids[k]) : k \in DOMAIN e.kids})

nodes(e) == IF Compares(e) \/ e = Empty THEN 1
            ELSE 1 + MapThenSumSet(LAMBDA k : nodes(e.kids[k]), DOMAIN e.kids)

\* The parser, the compiler and the evaluator count alike.
tooComplex(e) == depth(e) > MaxPredicateDepth \/ nodes(e) > MaxPredicateNodes

\* An operand the parser accepts; of the literals, texts on the right of an equality.
operand(o, allowLiteral) ==
    \/ o.root \in {"resource", "proposed"} /\ o.name \in schemaField
    \/ o.root = "subject" /\ o.name \in DOMAIN trustedSubjectFields
    \/ o.root = "literal" /\ allowLiteral /\ o.name \in Text

RECURSIVE convert(_, _)

\* Mutant: the kind of the subject field is left to the evaluation.
convert_AnyKind(e, target) ==
    IF Compares(e)
    THEN operand(e.left, FALSE) /\ operand(e.right, e.op = "equal") /\ e.left.root = target
    ELSE e.op \in {"and", "or", "not"} /\ \A k \in DOMAIN e.kids : convert(e.kids[k], target)

\* The predicate has the shape of the condition, which is not repeated here.
convert(e, target) ==
    CASE e.op = "equal" ->
           /\ operand(e.left, FALSE) /\ operand(e.right, TRUE)
           /\ e.left.root = target /\ e.right.root \in {"subject", "literal"}
           /\ e.right.root = "subject" => trustedSubjectFields[e.right.name] = "text"
      [] e.op = "in" ->
           /\ operand(e.left, FALSE) /\ operand(e.right, FALSE)
           /\ e.left.root = target /\ e.right.root = "subject"
           /\ trustedSubjectFields[e.right.name] = "list"
      [] e.op \in {"and", "or", "not"} -> \A k \in DOMAIN e.kids : convert(e.kids[k], target)
      [] OTHER -> FALSE

parse(e, target) == e = Empty \/ (~tooComplex(e) /\ convert(e, target))

\* Policy.Compile.  Only a creation or an update has a proposed object.
Compiles(p) == /\ parse(p.condition, "resource") /\ parse(p.proposed, "proposed")
               /\ p.proposed # Empty => p.action = "update"

-----------------------------------------------------------------------------
(* SQL, in its three-valued logic: "yes", "no" and "null".                 *)

Not(v) == CASE v = "yes" -> "no" [] v = "no" -> "yes" [] OTHER -> v

Or(V) == CASE "error" \in V -> "error" [] "yes" \in V -> "yes" [] "null" \in V -> "null" [] OTHER -> "no"

And(V) == CASE "error" \in V -> "error" [] "no" \in V -> "no" [] "null" \in V -> "null" [] OTHER -> "yes"

Answer(b) == IF b THEN "yes" ELSE "no"

Kind(o) == IF o.root = "subject" THEN trustedSubjectFields[o.name] ELSE "text"

\* The value of the right operand: a literal, or the subject's.
Right(o, s) == IF o.root = "literal" THEN o.name ELSE s[o.name]

\* column = ?, under the collation of the column.
Alike(row, value) == Folded[row] = Folded[value]

compileEqual(e, s, row) ==
    CASE Kind(e.right) # "text" \/ e.left.root # "resource" -> "error"
      [] row = "NULL" -> "null"
      [] OTHER -> Answer(Alike(row, Right(e.right, s)))

\* An empty list is (1 = 0), whatever the row.
compileIn(e, s, row) ==
    CASE Kind(e.right) # "list" \/ e.left.root # "resource" -> "error"
      [] s[e.right.name] = {} -> "no"
      [] row = "NULL" -> "null"
      [] OTHER -> Answer(\E value \in s[e.right.name] : Alike(row, value))

RECURSIVE compilePredicate(_, _, _)

\* What the compiled predicate is for a row of the table.
compilePredicate(e, s, row) ==
    LET kids == {compilePredicate(e.kids[k], s, row) : k \in DOMAIN e.kids}
    IN  CASE e = Empty -> "yes"
          [] e.op = "equal" -> compileEqual(e, s, row)
          [] e.op = "in" -> compileIn(e, s, row)
          [] e.op = "and" -> And(kids)
          [] e.op = "or" -> Or(kids)
          [] e.op = "not" -> Or({Not(v) : v \in kids})

compileUnion(scopes, s, row) == Or({compilePredicate(p.condition, s, row) : p \in scopes})

\* Mutant: a denial that waits for the proposed object is part of the SQL already.
compileScopes_AllDenies(scopes, s, row) ==
    LET allows == {p \in scopes : p.effect = "allow"}
        denies == scopes \ allows
    IN  IF allows = {} THEN "no"
        ELSE And({compileUnion(allows, s, row), Not(compileUnion(denies, s, row))})

\* Compiler.Compile: what is allowed, less what is denied.
compileScopes(scopes, s, row) ==
    LET allows == {p \in scopes : p.effect = "allow"}
        denies == {p \in scopes \ allows : p.proposed = Empty}
    IN  IF allows = {} THEN "no"
        ELSE And({compileUnion(allows, s, row), Not(compileUnion(denies, s, row))})

-----------------------------------------------------------------------------
(* Evaluation in memory.                                                   *)

\* How the rows are loaded for it.
attributes(row) == IF row = "NULL" THEN "" ELSE row

\* resource and proposed are the values of the field in the two objects.
objectValue(o, resource, proposed) == IF o.root = "resource" THEN resource ELSE proposed

RECURSIVE evaluatePredicate(_, _, _, _)

evaluatePredicate(e, s, resource, proposed) ==
    LET kids == {evaluatePredicate(e.kids[k], s, resource, proposed) : k \in DOMAIN e.kids}
        left == objectValue(e.left, resource, proposed)
    IN  CASE e = Empty -> "yes"
          [] e.op = "equal" -> IF Kind(e.right) # "text" THEN "error"
                               ELSE Answer(left = Right(e.right, s))
          [] e.op = "in" -> IF Kind(e.right) # "list" THEN "error"
                            ELSE Answer(left \in s[e.right.name])
          [] e.op = "and" -> And(kids)
          [] e.op = "or" -> Or(kids)
          [] e.op = "not" -> Or({Not(v) : v \in kids})

\* A policy matches the object and, in a transition, the proposed one too.
matches(p, s, resource, proposed, includeProposed) ==
    LET current == evaluatePredicate(p.condition, s, resource, proposed)
    IN  IF current # "yes" \/ ~includeProposed THEN current
        ELSE evaluatePredicate(p.proposed, s, resource, proposed)

evaluate(scopes, s, resource, proposed, includeProposed) ==
    LET result(effect) == Or({matches(p, s, resource, proposed, includeProposed) :
                                p \in {q \in scopes : q.effect = effect}})
    IN  And({result("allow"), Not(result("deny"))})

-----------------------------------------------------------------------------
(* The engine and the service.                                             *)

\* projections: only a user with a membership has roles.
Subject(pr) == [id |-> pr.id, tenant |-> pr.tenant, role_codes |-> IF pr.membership THEN pr.roles ELSE {}]

\* m: the roles it asks for, and the ones it excludes.
MatchSubject(m, s) == /\ m.any # {} => m.any \cap s.role_codes # {}
                      /\ m.none \cap s.role_codes = {}

\* The policies for the action whose tenant and whose matcher is the subject's.
matchedScopes(action, s) ==
    {p \in policies : /\ p.action = action
                      /\ p.scope \in {"global", s.tenant}
                      /\ MatchSubject(p.subject, s)}

\* Service.Compile, on a row of the table.
CompileSQL(action, s, row) == IF active THEN compileScopes(matchedScopes(action, s), s, row) ELSE "error"

\* EvaluateCurrent, for the capabilities of a row.
EvaluateCurrent(action, s, row) ==
    IF active THEN evaluate(matchedScopes(action, s), s, attributes(row), attributes(row), FALSE) ELSE "error"

\* EvaluateTransition; a creation evaluates the new object as both.
EvaluateTransition(action, s, row, proposed) ==
    IF active THEN evaluate(matchedScopes(action, s), s, attributes(row), attributes(proposed), TRUE)
    ELSE "error"

\* NewRuntimeEngine
Init == active = TRUE /\ policies = {}

\* Engine.Replace: all of the policies, or the refresh fails and Invalidate leaves none.
Replace(next) ==
    /\ Cardinality(next) <= MaxPolicies
    /\ \/ /\ \A p \in next : Compiles(p)
          /\ active' = TRUE /\ policies' = next
       \/ /\ \E p \in next : ~Compiles(p)
          /\ active' = FALSE /\ policies' = {}

\* The database cannot be read.
Invalidate == active' = FALSE /\ policies' = {}

Next == \/ \E p \in Policy : Replace(policies \cup {p}) \/ Replace(policies \ {p})
        \/ Invalidate

Spec == Init /\ [][Next]_vars

-----------------------------------------------------------------------------
(* Properties.                                                             *)

\* A row that the SQL selects is one that the evaluation accepts, but for a denial that waits for
\* the proposed object; unless the column is NULL the converse holds too, and a transition is
\* allowed only of a row that the SQL selects.
Agree(s, action, row) ==
    LET now == {p \in matchedScopes(action, s) : p.effect = "allow" \/ p.proposed = Empty}
        selected == CompileSQL(action, s, row) = "yes"
        accepted == evaluate(now, s, attributes(row), attributes(row), FALSE) = "yes"
    IN  /\ selected => accepted
        /\ row # "NULL" => /\ accepted => selected
                           /\ \A new \in Text : EvaluateTransition(action, s, row, new) = "yes" => selected

\* The SQL scope and the evaluation in memory agree on every row
\* (docs/data-permission-policy-spec.md, sections 3 and 10).
ScopesAgree ==
    active => \A pr \in Principal, action \in {"read", "update"}, row \in Text \cup {"NULL"} :
                 Agree(Subject(pr), action, row)

RECURSIVE comparands(_, _)

\* What a condition compares a row with.
comparands(e, s) ==
    CASE e = Empty -> {}
      [] e.op = "equal" -> {Right(e.right, s)}
      [] e.op = "in" -> s[e.right.name]
      [] OTHER -> UNION {comparands(e.kids[k], s) : k \in DOMAIN e.kids}

\* The collation takes the row for no other text that a condition compares it with.
ToldApart(s, action, row) ==
    row # "NULL" => \A p \in matchedScopes(action, s) : \A t \in comparands(p.condition, s) :
                       Alike(row, t) => row = t

\* They agree on every row that the collation tells apart, hence on every row where the collation
\* is binary.
ScopesAgreeApart ==
    active => \A pr \in Principal, action \in {"read", "update"}, row \in Text \cup {"NULL"} :
                 ToldApart(Subject(pr), action, row) => Agree(Subject(pr), action, row)

\* Once published, a policy never fails a request: what the parser accepts the compiler and the
\* evaluator accept too, within the same limits of depth and nodes.
PublishedNeverFail ==
    active => \A p \in policies, pr \in Principal, row \in Text \cup {"NULL"} :
                 /\ ~tooComplex(p.condition) /\ ~tooComplex(p.proposed)
                 /\ "error" \notin {compilePredicate(p.condition, Subject(pr), row),
                                    matches(p, Subject(pr), attributes(row), attributes(row), TRUE)}

\* Both of them.
EvaluationIsSound == ScopesAgreeApart /\ PublishedNeverFail

\* A row button is offered when some update of the row is accepted by the endpoint: the row is
\* in the SQL scope and the transition is allowed.
RowsAreOffered ==
    active => \A pr \in Principal, row \in Text, new \in Text :
       LET s == Subject(pr)
       IN  CompileSQL("update", s, row) = "yes" /\ EvaluateTransition("update", s, row, new) = "yes"
              => EvaluateCurrent("update", s, row) = "yes"
=============================================================================
