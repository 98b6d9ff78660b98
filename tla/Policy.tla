------------------------------- MODULE Policy --------------------------------
(***************************************************************************)
(* A request meets the policy of internal/policy and, when it is let       *)
(* through, the remote shell or the database executes it.                  *)
(*                                                                         *)
(* The request is chosen once; Evaluate is EvaluateSSH or EvaluateSQL;     *)
(* Execute is what the other side does with a request that the policy      *)
(* answered with "direct".  The rules and the semantics of the other side  *)
(* are the operators of ShellPolicy and SQLPolicy.                         *)
(***************************************************************************)
EXTENDS SQLPolicy, FiniteSets

CONSTANTS SSHRequests, SQLRequests  \* the requests that may arrive

VARIABLES request,   \* the request
          result,    \* what the policy says of it; Pending before
          done       \* what its execution did: a set of effects; {} before

vars == <<request, result, done>>

Pending == Verdict("pending", "")

Decisions == {"pending", "direct", "rejected", "absolute_prohibited"}

IsSSH == "program" \in DOMAIN request

TypeOK ==
    /\ {"program", "dir"} \subseteq DOMAIN request \/ {"engine", "stmts"} \subseteq DOMAIN request
    /\ result.decision \in Decisions
    /\ result.class \in {"", "read_query", "may_write"}
    /\ \A d \in done : IF IsSSH THEN d.dir # NoDir ELSE d.of \in Range(request.stmts)

Init ==
    /\ request \in SSHRequests \/ request \in SQLRequests
    /\ result = Pending
    /\ done = {}

Evaluate ==
    /\ result = Pending
    /\ result' = IF IsSSH THEN EvaluateSSH(request) ELSE EvaluateSQL(request)
    /\ UNCHANGED <<request, done>>

ExecuteSSH ==
    /\ IsSSH
    /\ result.decision = "direct"
    /\ done = {}
    /\ \E r \in ProgramRuns(request.program, request.dir) : done' = r.did
    /\ UNCHANGED <<request, result>>

(* Each statement that ran and changed something, with the statement of    *)
(* the request it ran in.                                                  *)
ExecuteSQL ==
    /\ ~IsSSH
    /\ result.decision = "direct"
    /\ done = {}
    /\ done' = UNION {{[by |-> p, of |-> s] : p \in {q \in Executed(s) : Changes(q)}} : s \in Range(request.stmts)}
    /\ UNCHANGED <<request, result>>

Next == Evaluate \/ ExecuteSSH \/ ExecuteSQL

Spec == Init /\ [][Next]_vars

(***************************************************************************)
(* Properties                                                              *)
(***************************************************************************)

(* The programs whose commands the analysis can follow: no command is      *)
(* opaque, and none runs under sudo -i, which goes to the user's home      *)
(* while sudoChangesWorkingDirectory lets it stay.                         *)
Followed(program) ==
    LET analysis == analyzeShellProgram(program)
    IN  /\ ~matchOpaqueShellEffect(analysis)
        /\ \A t \in analysis.commands : ~LoginSudo(t)

(* A directory that the analysis takes for known is the true one: in every *)
(* run of the program, whichever of its commands fail, each command and    *)
(* each redirect for which collectKnownPathCommands records a directory    *)
(* happens in that directory, whether the request declares a directory or  *)
(* the first cd names one.  Of the programs that are not Followed, the     *)
(* ones with an opaque command are refused in any case.                    *)
KnownIsTrue ==
    IsSSH /\ Followed(request.program) =>
        \A k \in collectKnownPathCommands(request.program, request.dir) :
        \A r \in ProgramRuns(request.program, request.dir) :
        \A d \in r.did :
            d.at = k.at /\ d.args = k.args /\ d.out = k.out => d.dir = k.dir

(* The chains the analysis follows: literal commands joined by && alone,   *)
(* in subshells and sh -c too, whose cd commands are plain and static,     *)
(* whose wrappers stay in place, and whose sh -c texts parse and stand     *)
(* right behind the option.  A text that does not parse ends the whole     *)
(* analysis, and a command beside it is then let through whatever it does. *)
RECURSIVE StaticChain(_)
StaticChain(s) ==
    /\ ~s.neg
    /\ ~s.bg
    /\ CASE s.c = "call" ->
                /\ ~IsDynamic(s.args)
                /\ ChildDir(s.args, <<>>) = <<>>
                /\ s.args # <<>> /\ s.args[1] = Name("cd") =>
                      isStaticCDTarget(Last(s.args)) /\ \A i \in 2..Len(s.args) - 1 : s.args[i] = Opt("--")
                /\ s.args # <<>> /\ s.args[1] # Name("cd") => ~InShell(s.args) /\ Program(s.args) # "cd"
                /\ ShellText(s.args) = staticEmbeddedShellSource(s.args)
                /\ \A text \in Range(ShellText(s.args)) : Len(text) = 1 /\ StaticChain(text[1])
         [] s.c = "and" -> StaticChain(s.x) /\ StaticChain(s.y)
         [] s.c = "subshell" -> Len(s.body) = 1 /\ StaticChain(s.body[1])
         [] OTHER -> FALSE

Destructive(d) ==
    \/ destroysBaseSystemTree(d.args, d.dir)
    \/ writesBlockDeviceWithPath(d.args, d.dir)
    \/ RedirectsToDevice(d.out, d.dir)

RECURSIVE FirstCommand(_)
FirstCommand(s) == IF s.c = "and" THEN FirstCommand(s.x) ELSE s

(* Where the chain begins is known: the request declares a directory, or   *)
(* the chain begins with a cd to an absolute one.                          *)
KnownStart(req, s) ==
    \/ req.dir # NoDir
    \/ LET first == FirstCommand(s)
       IN  first.c = "call" /\ Len(first.args) > 1 /\ first.args[1] = Name("cd") /\ Last(first.args).abs

(* A StaticChain with a KnownStart never destroys a base system tree or    *)
(* writes to a raw device, wherever its cd commands, "..", wrappers,       *)
(* subshells and sh -c have taken it: what EvaluateSSH let through did not *)
(* do so in the directory it really ran in.                                *)
ChainIsStopped ==
    /\ IsSSH
    /\ Len(request.program) = 1
    /\ StaticChain(request.program[1])
    /\ KnownStart(request, request.program[1])
    => \A d \in done : ~Destructive(d)

(* The column predicates of the conditions. *)
Columns == {"c1", "c2"}

(* Conditions with NOT, which no rule looks into, are left aside.          *)
Unrestricted(stmt) ==
    /\ stmt.s \in {"update", "delete"}
    /\ ~Negates(stmt.where)
    /\ \A row \in SUBSET Columns : Holds(stmt.where, row)

(* What the lexical rule knows: no condition, or TRUE, 1 = 1, 0 <> 1 or    *)
(* 1 <> 0, alone or as an arm of an OR without parentheses of its own.     *)
RECURSIVE PlainArm(_)
PlainArm(c) ==
    \/ c \in {NoWhere, [e |-> "bool", v |-> TRUE], [e |-> "cmp", op |-> "=", l |-> 1, r |-> 1],
              [e |-> "cmp", op |-> "<>", l |-> 0, r |-> 1], [e |-> "cmp", op |-> "<>", l |-> 1, r |-> 0]}
    \/ c.e = "or" /\ (PlainArm(c.x) \/ PlainArm(c.y))

RECURSIVE PlainlyTrue(_)
PlainlyTrue(c) == IF c.e = "paren" THEN PlainlyTrue(c.x) ELSE PlainArm(c)

(* The changes that a request classed read_query may bring all the same:   *)
(* the INTO of an arm of a PostgreSQL union, and in the portable route     *)
(* every SELECT INTO, and what EXPLAIN executes when ANALYZE stands among  *)
(* options in parentheses.                                                 *)
Overlooked(engine, d) ==
    \/ engine = "postgres" /\ d.of.s = "union" /\ d.by \in d.of.parts
    \/ engine = "portable" /\ (d.by.s \in {"select", "union"} \/ (d.of.s = "explain" /\ d.of.analyze # "plain"))

(* What the database does is what the verdict promised, as far as each     *)
(* route reaches.  A request classed read_query, which the runner sends    *)
(* with the read credential and in a read-only transaction, changes        *)
(* nothing that Overlooked does not list: not through a WITH query, an     *)
(* executing EXPLAIN, a SELECT INTO or an earlier statement of the same    *)
(* request.  And of the statements of a request themselves, no UPDATE or   *)
(* DELETE runs whose condition, written or not, holds for every row; in    *)
(* the portable route, none whose condition is plainly true.  The rule     *)
(* does not look into statements: an unrestricted UPDATE or DELETE in a    *)
(* WITH query or under EXPLAIN ANALYZE runs.                               *)
SQLVerdictHolds ==
    ~IsSSH =>
        \A d \in done :
            /\ result.class = "read_query" => Overlooked(request.engine, d)
            /\ d.by = d.of /\ Unrestricted(d.by) =>
                  request.engine = "portable" /\ ~PlainlyTrue(d.by.where)
=============================================================================
