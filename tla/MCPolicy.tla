------------------------------ MODULE MCPolicy -------------------------------
(***************************************************************************)
(* Requests for Policy: every program of up to three commands that the     *)
(* forms below build from a small vocabulary, and SQL requests of one or   *)
(* two statements.                                                         *)
(***************************************************************************)
EXTENDS Policy

Dot == RelPath(<<".">>)

Up == RelPath(<<"..", "etc">>)

(* Commands: the ways of moving, ... *)
Moves ==
    { <<Name("cd"), AbsPath(<<"etc">>)>>, <<Name("cd"), AbsPath(<<"srv">>)>>,
      <<Name("cd"), Opt("--"), RelPath(<<"..">>)>>, <<Name("cd"), RelPath(<<"etc">>)>>,
      <<Name("cd"), Opt("-")>>, <<Name("command"), Name("cd"), AbsPath(<<"etc">>)>>,
      <<Name("trap"), Name("x")>>, <<Name("sudo"), Name("cd"), AbsPath(<<"etc">>)>> }

(* ... of destroying by a relative path, ... *)
Removals ==
    { <<Name("rm"), Opt("-r"), Dot>>, <<Name("rm"), Opt("-r"), Up>>,
      <<Name("sudo"), Opt("-u"), Name("root"), Name("find"), Dot, Opt("-delete")>>,
      <<Name("env"), Opt("--chdir="), Name("find"), Dot, Opt("-delete")>>,
      <<Name("sudo"), Opt("--chdir"), AbsPath(<<"srv">>), Name("rm"), Opt("-r"), Dot>>,
      <<Name("sudo"), Opt("-i"), Name("rm"), Opt("-r"), Dot>> }

(* ... and of neither. *)
Others ==
    { <<Name("ls")>>, <<Name("exec"), Opt("--"), Name("tee"), RelPath(<<"..", "dev", "sda">>)>>,
      <<Name("eval"), Dynamic>> }

Both(c, x, y) ==
    [c |-> c, at |-> 9, x |-> x, y |-> y, out |-> <<>>, inp |-> FALSE, neg |-> FALSE, bg |-> FALSE]

Group(c, body) ==
    [c |-> c, at |-> 8, body |-> body, out |-> <<>>, inp |-> FALSE, neg |-> FALSE, bg |-> FALSE]

Function(name, body) ==
    [c |-> "func", at |-> 8, name |-> name, body |-> body, out |-> <<>>, inp |-> FALSE, neg |-> FALSE, bg |-> FALSE]

While(cond, body) ==
    [c |-> "while", at |-> 8, cond |-> cond, body |-> body, out |-> <<>>, inp |-> FALSE, neg |-> FALSE, bg |-> FALSE]

Embedded(at, program) == Call(at, <<Name("sh"), Opt("-ec"), Script(program)>>)

Pairs ==
    {Both(c, Call(1, x), Call(2, y)) : c \in Binary, x \in Moves, y \in Removals \cup Others}

(* A pair inside something, in the place of the second command. *)
Inside(pair) ==
    { pair, Group("subshell", <<pair>>), Group("block", <<pair>>), Embedded(7, <<pair>>),
      Group("if", <<pair>>), [pair EXCEPT !.neg = TRUE], [pair EXCEPT !.bg = TRUE],
      Group("subshell", <<pair.x, pair.y>>) }

(* Three commands: a move, then a group around a move and a removal, or a  *)
(* group around a move and then a removal.                                 *)
PlainMoves ==
    { <<Name("cd"), AbsPath(<<"etc">>)>>, <<Name("cd"), AbsPath(<<"srv">>)>>, <<Name("cd"), Opt("-")>>,
      <<Name("cd"), Opt("--"), RelPath(<<"..">>)>>, <<Name("command"), Name("cd"), AbsPath(<<"etc">>)>> }

PlainPairs ==
    {Both(c, Call(1, m), Call(2, r)) :
        c \in {"and", "or"}, m \in PlainMoves, r \in {<<Name("rm"), Opt("-r"), Dot>>, <<Name("rm"), Opt("-r"), Up>>}}

Triples ==
    UNION {{Both(c, Call(3, m), g) : g \in Inside(pair)} : c \in {"and", "or"}, m \in PlainMoves, pair \in PlainPairs}

Leading ==
    {Both("and", g, Call(4, r)) : r \in Removals,
        g \in UNION {Inside(Both("and", Call(1, m), Call(2, <<Name("ls")>>))) : m \in Moves}}

(* Redirects, which the shell opens before a wrapper takes effect.         *)
OnlyRedirects == [c |-> "none", at |-> 2, out |-> <<>>, inp |-> FALSE, neg |-> FALSE, bg |-> FALSE]

Redirected ==
    {Both("and", Call(1, m), [s EXCEPT !.out = <<RelPath(<<"..", "dev", "sda">>)>>]) :
        m \in Moves,
        s \in {Call(2, <<Name("env"), Opt("--chdir="), Name("ls")>>), Group("subshell", <<Call(2, <<Name("ls")>>)>>),
               Group("block", <<Call(2, <<Name("ls")>>)>>), Call(2, <<>>), OnlyRedirects}}

(* A pair beside the text of a sh -c that the parser refuses, and in the   *)
(* text of a sh -c whose options end in "--".                              *)
Unread ==
    UNION {{Both("and", pair, Embedded(7, Refused)), Both("and", Embedded(7, <<Call(6, <<Name("ls")>>)>>), pair),
            Both("and", pair, Embedded(7, <<Embedded(6, Refused)>>)),
            Call(7, <<Name("sh"), Opt("-c"), Opt("--"), Script(<<pair>>)>>)} : pair \in PlainPairs}

CDFunction == Function("cd", <<Call(5, <<Name("command"), Name("cd"), AbsPath(<<"etc">>)>>)>>)

(* Programs, lists of statements. *)
Programs ==
    {<<p>> : p \in Pairs \cup Triples \cup Leading \cup Redirected \cup Unread}
    \cup {<<Call(1, m), Call(2, r)>> : m \in Moves, r \in Removals}
    \cup {<<CDFunction, Both("and", Call(1, m), Call(2, r))>> : m \in Moves, r \in Removals}
    \cup {<<Both("and", CDFunction, Both("and", Call(1, m), Call(2, r)))>> : m \in Moves, r \in Removals}

(* One program for each of the other rules. *)
Single(args) == <<Call(1, args)>>

RuleSamples ==
    { <<>>, Refused, Single(<<Name("sudo")>>), Single(<<Name("mkfs")>>), Single(<<Name("yes")>>),
      Single(<<Name("dd"), Assign("if=/dev/zero")>>), Single(<<Name("dd"), Assign("if=/dev/zero"), Assign("count=1")>>),
      Single(<<Name("dd"), OutputFile(AbsPath(<<"dev", "sda">>))>>), Single(<<Name("cp"), AbsPath(<<"x">>), AbsPath(<<"dev", "mapper", "a">>), Opt("-f")>>),
      Single(<<Name("cat"), AbsPath(<<"dev", "zero">>)>>), Single(<<Name("find"), Opt("-exec")>>),
      Single(<<Name("docker"), Name("exec")>>), Single(<<Name("vi")>>), Single(<<Name("top"), Opt("-b")>>),
      Single(<<Name("sh")>>), Single(<<Name("sh"), Opt("-c"), Script(<<>>)>>), Single(<<Name("sh"), Opt("-c"), Name("mkfs")>>),
      Single(<<Name("psql"), Opt("-c")>>), Single(<<Name("ssh"), Name("known")>>),
      Single(<<Name("ssh"), Name("other")>>), Single(<<Name("ssh")>>), Single(<<Name("sed"), Opt("-n"), Name("1p"), Dot>>),
      Single(<<Name("sed"), Opt("-i"), Name("1p"), Dot>>), Single(<<Name("env"), Opt("-u"), Name("x"), Name("sudo"), Name("ls")>>),
      <<Both("pipe", Call(1, <<Name("ls")>>), Call(2, <<Name("sh")>>))>>,
      <<While(Single(<<Name("true")>>), Single(<<Name("ls")>>))>>, <<Function(":", Single(<<Name("ls")>>))>> }

Directories == {NoDir, <<"etc">>, <<"srv">>}

Request(program, dir) ==
    [program |-> program, dir |-> dir, valid |-> TRUE, blacklist |-> "none",
     registered |-> {Name("known")}, available |-> TRUE]

MCSSHRequests ==
    {Request(p, d) : p \in Programs, d \in Directories}
    \cup {[Request(p, NoDir) EXCEPT !.blacklist = b, !.valid = v, !.available = a] :
             p \in RuleSamples, b \in {"none", "match", "invalid"}, v \in BOOLEAN, a \in BOOLEAN}

(***************************************************************************)
(* SQL                                                                     *)
(***************************************************************************)

Cmp(l, op, r) == [e |-> "cmp", op |-> op, l |-> l, r |-> r]

Column(p) == [e |-> "column", p |-> p]

Atoms ==
    {[e |-> "bool", v |-> v] : v \in BOOLEAN}
    \cup {Cmp(1, op, r) : op \in {"=", "<>", "<", "<=", ">", ">="}, r \in 0..2}
    \cup {Cmp(0, "<>", 1), Cmp(2, "=", 2)}
    \cup {Column(p) : p \in Columns}

Paren(c) == [e |-> "paren", x |-> c]

Conditions ==
    Atoms \cup {[e |-> c, x |-> x, y |-> y] : c \in {"and", "or"}, x \in Atoms, y \in Atoms}
    \cup {[e |-> "not", x |-> x] : x \in Atoms} \cup {Paren(x) : x \in Atoms}
    \cup {[e |-> "or", x |-> Column("c1"), y |-> [e |-> c, x |-> x, y |-> y]] : c \in {"and", "or"}, x \in Atoms, y \in Atoms}
    \cup UNION {{[e |-> "or", x |-> Paren(x), y |-> y], Paren([e |-> "or", x |-> x, y |-> y])} : x \in Atoms, y \in Atoms}

(* A statement without a WITH clause. *)
Plain(k) == [s |-> k, with |-> {}, parts |-> {}]

Write(k, where) == [s |-> k, where |-> where, with |-> {}, parts |-> {}]

Writes == {Write(k, w) : k \in {"update", "delete"}, w \in Conditions \cup {NoWhere}}

Select(into, lock, with, parts) == [s |-> "select", into |-> into, lock |-> lock, with |-> with, parts |-> parts]

Query == Select("none", "none", {}, {})

Delete == Write("delete", Column("c1"))

(* The WITH queries, the sub-selects, and the arms of a union.             *)
WithQueries == {Query, Delete, Write("update", NoWhere), Plain("insert"), Select("none", "none", {}, {Query})}

Queries ==
    {Select(i, l, w, p) : i \in {"none", "table", "outfile"}, l \in {"none", "update", "share"},
                          w \in {{}} \cup {{q} : q \in WithQueries}, p \in {{}, {Query}, {Select("none", "none", {Query}, {})}}}
    \cup {[Select(i, l, {}, {first, Query}) EXCEPT !.s = "union"] :
             i \in {"none", "outfile"}, l \in {"none", "update"}, first \in {Query, Select("table", "none", {}, {})}}

Statements ==
    Queries
    \cup {[s |-> "explain", analyze |-> a, with |-> {}, parts |-> {q}] :
             a \in {"absent", "plain", "option", "true", "false", "text"},
             q \in Queries \cup {Delete, Write("delete", NoWhere), Plain("opaque")}}
    \cup {[Write(k, w) EXCEPT !.with = {q}] : k \in {"update", "delete"}, w \in {NoWhere, Column("c1")}, q \in WithQueries}
    \cup {Plain(k) : k \in {"show", "insert", "merge", "copy", "truncate", "dropdb", "transaction", "opaque", "replace"}}
    \cup {[s |-> "drop", object |-> o, with |-> {}, parts |-> {}] : o \in {"table", "foreign table", "view"}}
    \cup {[s |-> "alter", drops |-> d, with |-> {}, parts |-> {}] : d \in BOOLEAN}

SQL(engine, stmts) == [engine |-> engine, stmts |-> stmts, valid |-> TRUE]

(* What a dialect can say.  MySQL's WITH queries only read, a union has    *)
(* its INTO at its end, and EXPLAIN ANALYZE has no argument.  PostgreSQL   *)
(* has no INTO OUTFILE, the INTO of a union stands in its first arm, and   *)
(* a WITH query that writes belongs to the outermost statement.            *)
Written(engine, s) ==
    IF engine = "mysql"
    THEN /\ \A p \in WithParts(s) : \A q \in p.with : q.s = "select"
         /\ \A p \in WithParts(s) : p.s = "union" => \A q \in p.parts : q.into = "none"
         /\ s.s = "explain" => s.analyze \in {"absent", "plain"} /\ \A q \in s.parts : q.s # "opaque"
         /\ s.s \notin {"copy", "merge", "replace"}
         /\ s.s = "drop" => s.object # "foreign table"
    ELSE \A p \in WithParts(s) : p.s \in {"select", "union"} => p.into # "outfile"

MCSQLRequests ==
    {SQL(e, <<w>>) : e \in Engines, w \in Writes}
    \cup {r \in {SQL(e, <<s>>) : e \in Engines, s \in Statements} : Written(r.engine, r.stmts[1])}
    \cup {r \in {SQL(e, <<s, t>>) : e \in Engines, s \in Statements, t \in {Query, Delete}} :
             Written(r.engine, r.stmts[1])}
    \cup {SQL(e, <<>>) : e \in Engines} \cup {[SQL("mysql", <<>>) EXCEPT !.valid = FALSE]}
=============================================================================
