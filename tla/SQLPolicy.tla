------------------------------ MODULE SQLPolicy ------------------------------
(***************************************************************************)
(* The fixed rules for SQL requests: EvaluateSQL and the SQL half of the   *)
(* hard-stop registry in internal/policy/policy.go, and the lexical rules  *)
(* of pg_parser_nocgo.go and pg_parser_common.go, which decide PostgreSQL  *)
(* requests in the builds without cgo (the released ones).  The three      *)
(* routes are the engines "mysql", "postgres" (the tree, with cgo) and     *)
(* "portable".                                                             *)
(*                                                                         *)
(* A request is the list of its statements, as the dialect's parser        *)
(* (external) yields them or as splitPortablePostgreSQL cuts them; <<>>    *)
(* when a parser refuses the text.  A statement has its kind s, the        *)
(* queries of its WITH clause (with) and the statements it holds besides   *)
(* (parts: sub-selects, the arms of a union, the query of EXPLAIN):        *)
(*   select, union  into ("none", "table" or "outfile") and lock ("none",  *)
(*                  "update" or another strength, "share")                 *)
(*   update, delete where: a condition, or NoWhere                         *)
(*   explain        analyze: "absent", "plain" (EXPLAIN ANALYZE), "option" *)
(*                  (among options in parentheses, without an argument) or *)
(*                  the argument of the option, "true", "false" or "text"  *)
(*   drop           object; alter: whether a clause drops something        *)
(*   insert, merge, copy, truncate, dropdb, transaction, show              *)
(*   opaque         a statement whose effect the text does not show (CALL, *)
(*                  DO, PREPARE, EXECUTE, functions, triggers ...)         *)
(*   replace        CREATE OR REPLACE of a function or trigger             *)
(* A condition is a Boolean constant, a comparison of two number literals, *)
(* a predicate over columns, AND, OR, NOT of conditions, or a condition in *)
(* parentheses.                                                            *)
(***************************************************************************)
EXTENDS Naturals, Sequences, ShellPolicy

Engines == {"mysql", "postgres", "portable"}

NoWhere == [e |-> "none"]

RECURSIVE WithParts(_)
(* A statement and all it holds: walkPostgres.                             *)
WithParts(stmt) == {stmt} \cup UNION {WithParts(p) : p \in stmt.with \cup stmt.parts}

(***************************************************************************)
(* Which statements only read                                              *)
(***************************************************************************)

RECURSIVE mysqlReadOnlyStatement(_)
mysqlReadOnlyStatement(stmt) ==
    \/ stmt.s \in {"select", "union"} /\ stmt.into = "none" /\ stmt.lock = "none"
    \/ stmt.s = "show"
    \/ /\ stmt.s = "explain"
       /\ stmt.analyze = "absent"
       /\ \A q \in stmt.parts : mysqlReadOnlyStatement(q)

(* ANALYZE without an argument executes the query; only the Boolean false  *)
(* takes it back.                                                          *)
postgresExplainExecutesQuery(stmt) == stmt.analyze \notin {"absent", "false"}

WriteNodes == {"insert", "update", "delete", "merge", "copy", "truncate", "dropdb", "transaction"}

postgresContainsWrite(stmt) == \E p \in WithParts(stmt) : p.s \in WriteNodes

(* The parser makes a union a select as well, without the INTO of its      *)
(* first arm.                                                              *)
postgresReadOnlyStatement(stmt) ==
    \/ /\ stmt.s \in {"select", "union"}
       /\ stmt.into = "none"
       /\ stmt.lock = "none"
       /\ ~postgresContainsWrite(stmt)
    \/ /\ stmt.s = "explain"
       /\ ~postgresExplainExecutesQuery(stmt)
       /\ \A q \in stmt.parts : q.s \in {"select", "union"} /\ ~postgresContainsWrite(q)

(* The first word outside parentheses decides.  INTO is not looked for,    *)
(* nor ANALYZE in parentheses, and WITH is no reading word.                *)
portablePostgreSQLReadOnly(stmt) ==
    /\ stmt.with = {}
    /\ \/ stmt.s \in {"select", "union"} /\ stmt.lock # "update"
       \/ stmt.s = "show"
       \/ stmt.s = "explain" /\ stmt.analyze # "plain"

(***************************************************************************)
(* Conditions that hold for every row                                      *)
(***************************************************************************)

constantComparisonAlwaysTrue(c) ==
    CASE c.op = "=" -> c.l = c.r
      [] c.op = "<>" -> c.l # c.r
      [] c.op = "<" -> c.l < c.r
      [] c.op = "<=" -> c.l <= c.r
      [] c.op = ">" -> c.l > c.r
      [] c.op = ">=" -> c.l >= c.r

RECURSIVE containsObviousTautology(_)
containsObviousTautology(c) ==
    CASE c.e = "bool" -> c.v
      [] c.e \in {"and", "or"} -> containsObviousTautology(c.x) \/ containsObviousTautology(c.y)
      [] c.e = "paren" -> containsObviousTautology(c.x)
      [] c.e = "cmp" -> constantComparisonAlwaysTrue(c)
      [] OTHER -> FALSE

(***************************************************************************)
(* The same question, asked of the words of the condition                  *)
(***************************************************************************)

Token(value, depth) == [value |-> value, depth |-> depth]

Digits == <<"0", "1", "2", "3", "4", "5", "6", "7", "8", "9">>

RECURSIVE portablePostgreSQLTokens(_, _)
(* The words of a condition that stands inside depth parentheses; "<" and  *)
(* ">" alone make no word.  A column predicate is written "c = TRUE".      *)
portablePostgreSQLTokens(c, depth) ==
    CASE c.e = "bool" -> <<Token(IF c.v THEN "TRUE" ELSE "FALSE", depth)>>
      [] c.e = "cmp" -> <<Token(Digits[c.l + 1], depth)>>
                        \o (IF c.op \in {"<", ">"} THEN <<>> ELSE <<Token(c.op, depth)>>)
                        \o <<Token(Digits[c.r + 1], depth)>>
      [] c.e = "column" -> <<Token(c.p, depth), Token("=", depth), Token("TRUE", depth)>>
      [] c.e \in {"and", "or"} -> portablePostgreSQLTokens(c.x, depth)
                                  \o <<Token(IF c.e = "and" THEN "AND" ELSE "OR", depth)>>
                                  \o portablePostgreSQLTokens(c.y, depth)
      [] c.e = "not" -> <<Token("NOT", depth)>> \o portablePostgreSQLTokens(c.x, depth)
      [] c.e = "paren" -> portablePostgreSQLTokens(c.x, depth + 1)

portablePostgreSQLTautologyAt(values, i) ==
    IF values[i] = "TRUE"
    THEN /\ i = 1 \/ values[i - 1] \notin {"=", "IS", "NOT"}
         /\ i = Len(values) \/ values[i + 1] # "="
    ELSE /\ i + 2 <= Len(values)
         /\ SubSeq(values, i, i + 2) \in {<<"1", "=", "1">>, <<"0", "<>", "1">>, <<"1", "<>", "0">>}

portablePostgreSQLTautologyEnd(values, i) == IF values[i] = "TRUE" THEN i + 1 ELSE i + 3

portablePostgreSQLSimpleTautology(values) ==
    \/ values = <<"TRUE">>
    \/ Len(values) = 3 /\ portablePostgreSQLTautologyAt(values, 1)

(* One that stands alone, or beside an OR outside all parentheses.         *)
portablePostgreSQLContainsObviousTautology(tokens) ==
    LET values == [i \in DOMAIN tokens |-> tokens[i].value]
        outside == {i \in DOMAIN tokens : \A j \in DOMAIN tokens : tokens[i].depth <= tokens[j].depth}
        IsOr(i) == i \in outside /\ values[i] = "OR"
    IN  \/ portablePostgreSQLSimpleTautology(values)
        \/ \E i \in outside :
              /\ portablePostgreSQLTautologyAt(values, i)
              /\ IsOr(i - 1) \/ IsOr(portablePostgreSQLTautologyEnd(values, i))

(***************************************************************************)
(* The registry and the decision                                           *)
(***************************************************************************)

(* MySQL's rule sees the normalized text, which also shows INTO OUTFILE;   *)
(* PostgreSQL's walks the tree.                                            *)
mysqlOpaqueFragment(stmt) ==
    \/ stmt.s = "opaque"
    \/ \E p \in WithParts(stmt) : p.s \in {"select", "union"} /\ p.into = "outfile"

postgresHasOpaqueEffectNode(stmt) == \E p \in WithParts(stmt) : p.s \in {"opaque", "replace", "copy"}

matchOpaqueEffect(engine, stmt) ==
    IF engine = "mysql" THEN mysqlOpaqueFragment(stmt) ELSE postgresHasOpaqueEffectNode(stmt)

matchDropDatabaseSchemaTable(stmt) ==
    \/ stmt.s = "dropdb"
    \/ stmt.s = "drop" /\ stmt.object \in {"database", "schema", "table", "foreign table"}

matchTruncateTable(stmt) == stmt.s = "truncate"

alterDropsData(stmt) == stmt.s = "alter" /\ stmt.drops

matchAlterDrop(stmt) == alterDropsData(stmt)

(* Only the statement itself is looked at, not what it holds.              *)
matchUnconditionalWrite(stmt) ==
    /\ stmt.s \in {"update", "delete"}
    /\ stmt.where = NoWhere \/ containsObviousTautology(stmt.where)

sqlHardStopRules(engine, stmt) ==
    << <<"opaque_sql_effect", matchOpaqueEffect(engine, stmt)>>,
       <<"drop_database_schema_table", matchDropDatabaseSchemaTable(stmt)>>,
       <<"truncate_table", matchTruncateTable(stmt)>>,
       <<"alter_drop", matchAlterDrop(stmt)>>,
       <<"unconditional_update_or_delete", matchUnconditionalWrite(stmt)>> >>

(* The portable rules look at the words outside parentheses: the ones that *)
(* an opaque statement begins with, which leave out "OR REPLACE", ...      *)
portablePostgreSQLOpaqueFragment(stmt) == stmt.s \in {"opaque", "copy"}

(* ... UPDATE or DELETE, first or behind a WITH clause, and the WHERE      *)
(* after it.                                                               *)
portablePostgreSQLUnconditionalWrite(stmt) ==
    /\ stmt.s \in {"update", "delete"}
    /\ \/ stmt.where = NoWhere
       \/ portablePostgreSQLContainsObviousTautology(portablePostgreSQLTokens(stmt.where, 0))

portablePostgreSQLHardStop(stmt) ==
    << <<"opaque_sql_effect", portablePostgreSQLOpaqueFragment(stmt)>>,
       <<"drop_database_schema_table", matchDropDatabaseSchemaTable(stmt)>>,
       <<"truncate_table", matchTruncateTable(stmt)>>,
       <<"alter_drop", matchAlterDrop(stmt)>>,
       <<"unconditional_update_or_delete", portablePostgreSQLUnconditionalWrite(stmt)>> >>

matchSQLHardStop(engine, stmt) ==
    LET rules == IF engine = "portable" THEN portablePostgreSQLHardStop(stmt) ELSE sqlHardStopRules(engine, stmt)
        matched == SelectSeq(rules, LAMBDA rule : rule[2])
    IN  IF matched = <<>> THEN "" ELSE matched[1][1]

ReadOnly(engine, stmt) ==
    CASE engine = "mysql" -> mysqlReadOnlyStatement(stmt)
      [] engine = "postgres" -> postgresReadOnlyStatement(stmt)
      [] engine = "portable" -> portablePostgreSQLReadOnly(stmt)

(* The class of the whole request: the last statement does not decide.     *)
ClassOf_Last(engine, stmts) ==
    IF stmts # <<>> /\ ReadOnly(engine, Last(stmts)) THEN "read_query" ELSE "may_write"

ClassOf(engine, stmts) ==
    IF stmts # <<>> /\ \A i \in DOMAIN stmts : ReadOnly(engine, stmts[i]) THEN "read_query" ELSE "may_write"

(* The first statement that a rule matches ends the loop, and the class it *)
(* leaves covers only the statements before it.                            *)
evaluateDefaultAllow(engine, stmts) ==
    LET stops == SelectSeq([i \in DOMAIN stmts |-> <<i, matchSQLHardStop(engine, stmts[i])>>],
                           LAMBDA m : m[2] # "")
        seen == SubSeq(stmts, 1, stops[1][1] - 1)
    IN  IF stops = <<>>
        THEN [withDecision("direct", "bounded_diagnostic") EXCEPT !.class = ClassOf(engine, stmts)]
        ELSE [withHardStop(stops[1][2]) EXCEPT
                 !.class = IF seen = <<>> THEN "read_query" ELSE ClassOf(engine, seen)]

(* The same loop in a build without cgo.                                   *)
evaluatePostgreSQL(stmts) == evaluateDefaultAllow("portable", stmts)

EvaluateSQL(req) ==
    CASE ~req.valid -> withDecision("rejected", "invalid_request")
      [] req.valid /\ req.engine = "portable" -> evaluatePostgreSQL(req.stmts)
      [] OTHER -> evaluateDefaultAllow(req.engine, req.stmts)

(***************************************************************************)
(* The database (external): what a statement changes, and which rows a     *)
(* condition lets through.                                                 *)
(***************************************************************************)

RECURSIVE Executed(_)
(* A statement executes itself and what it holds; EXPLAIN executes its     *)
(* query only under ANALYZE.                                               *)
Executed(stmt) ==
    {stmt} \cup (IF stmt.s = "explain" /\ stmt.analyze \in {"absent", "false"} THEN {}
                 ELSE UNION {Executed(p) : p \in stmt.with \cup stmt.parts})

(* A statement changes something by itself.                                *)
Changes(stmt) ==
    /\ stmt.s \notin {"show", "transaction", "explain"}
    /\ stmt.s \in {"select", "union"} => stmt.into # "none"

(* The truth of a condition for a row of which only the set of the column  *)
(* predicates it satisfies matters.                                        *)
RECURSIVE Holds(_, _)
Holds(c, row) ==
    CASE c.e = "none" -> TRUE
      [] c.e = "bool" -> c.v
      [] c.e = "cmp" -> constantComparisonAlwaysTrue(c)
      [] c.e = "column" -> c.p \in row
      [] c.e = "and" -> Holds(c.x, row) /\ Holds(c.y, row)
      [] c.e = "or" -> Holds(c.x, row) \/ Holds(c.y, row)
      [] c.e = "not" -> ~Holds(c.x, row)
      [] c.e = "paren" -> Holds(c.x, row)

RECURSIVE Negates(_)
Negates(c) ==
    \/ c.e = "not"
    \/ c.e \in {"and", "or"} /\ (Negates(c.x) \/ Negates(c.y))
    \/ c.e = "paren" /\ Negates(c.x)
=============================================================================
