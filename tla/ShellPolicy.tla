----------------------------- MODULE ShellPolicy -----------------------------
(***************************************************************************)
(* The fixed rules for SSH commands: internal/policy/policy.go             *)
(* (EvaluateSSH, the hard-stop registry, the shell analysis) and           *)
(* path_context.go (which directory a command of the program runs in).     *)
(*                                                                         *)
(* A command line is the syntax tree that the shell parser (external)      *)
(* yields: a sequence of statements.  A word is a record of a kind:        *)
(*   name    a plain word, v its text                                      *)
(*   opt     a word that begins with "-"; an option with its value in the  *)
(*           same word ("--chdir=/tmp") is named up to and with the "="    *)
(*   assign  a word that holds "=", v its text; of=path also has the path  *)
(*   path    elements and whether they begin at the root                   *)
(*   script  the program text of sh -c, parsed (Refused when it does not   *)
(*           parse)                                                        *)
(*   dynamic a word that is not literal ($x, $(...))                       *)
(* Letter case, white space and quoting are left out: words are what       *)
(* literalShellWord makes of them.  A directory is the sequence of its     *)
(* elements below "/".                                                     *)
(***************************************************************************)
EXTENDS Naturals, Sequences, SequencesExt

Name(v) == [w |-> "name", v |-> v]

Opt(v) == [w |-> "opt", v |-> v]

Assign(v) == [w |-> "assign", v |-> v]

OutputFile(p) == [w |-> "assign", v |-> "of=", path |-> p]

AbsPath(elems) == [w |-> "path", abs |-> TRUE, to |-> elems]

RelPath(elems) == [w |-> "path", abs |-> FALSE, to |-> elems]

Script(program) == [w |-> "script", src |-> program]

Dynamic == [w |-> "dynamic"]

Call(at, args) ==
    [c |-> "call", at |-> at, args |-> args, out |-> <<>>, inp |-> FALSE, neg |-> FALSE, bg |-> FALSE]

(* The program of a text that the parser refuses.                          *)
Refused == <<[Call(0, <<>>) EXCEPT !.c = "refused"]>>

(* The directory that is not known: "" in the code.                        *)
NoDir == <<"">>

(***************************************************************************)
(* Paths                                                                   *)
(***************************************************************************)

(* path.Clean of elements below an absolute directory. *)
Clean(dir, elems) ==
    FoldLeft(LAMBDA d, e : CASE e = "." -> d
                             [] e = ".." -> IF d = <<>> THEN d ELSE Front(d)
                             [] OTHER -> Append(d, e),
             dir, elems)

resolveKnownPath(dir, word) ==
    CASE word.w # "path" -> NoDir
      [] word.abs -> Clean(<<>>, word.to)
      [] OTHER -> IF dir = NoDir THEN NoDir ELSE Clean(dir, word.to)

BaseRoots == {"bin", "sbin", "lib", "lib64", "boot", "etc", "usr", "dev", "proc", "sys", "run"}

isBaseSystemPath(p) ==
    /\ p # NoDir
    /\ \/ p = <<>>
       \/ Head(p) = "*"
       \/ Head(p) \in BaseRoots /\ ~IsPrefix(<<"usr", "local">>, p)

(* Names below /dev that begin like a disk's; one stands for them all.     *)
RawDevices == {"sda"}

isRawBlockDevicePath(p) ==
    /\ p # NoDir
    /\ Len(p) >= 2
    /\ p[1] = "dev"
    /\ p[2] \in RawDevices \/ (p[2] = "mapper" /\ Len(p) > 2)

(***************************************************************************)
(* Wrappers: the program a command really runs                             *)
(***************************************************************************)

(* strings.ToLower(path.Base(token)); the base of "" is ".".               *)
Base(word) ==
    CASE word.w = "name" -> word.v
      [] word.w = "path" -> IF word.to = <<>> THEN "/" ELSE Last(word.to)
      [] word.w = "dynamic" -> "."
      [] OTHER -> ""

IsOpt(word) == word.w = "opt"

HasEquals(word) == word.w = "assign" \/ word = Opt("--chdir=")

SudoValueOptions == {"-C", "-g", "-h", "-p", "-r", "-t", "-u", "--chdir", "--close-from",
                     "--group", "--host", "--prompt", "--role", "--type", "--user"}

RECURSIVE skipSudoArguments(_, _)
skipSudoArguments(t, i) ==
    CASE i > Len(t) -> i
      [] t[i] = Opt("--") -> i + 1
      [] ~IsOpt(t[i]) -> i
      [] t[i].v \in SudoValueOptions /\ i < Len(t) -> skipSudoArguments(t, i + 2)
      [] OTHER -> skipSudoArguments(t, i + 1)

RECURSIVE skipEnvArguments(_, _)
skipEnvArguments(t, i) ==
    CASE i > Len(t) -> i
      [] t[i] = Opt("--") -> i + 1
      [] t[i] \in {Opt("-u"), Opt("--unset")} ->
             IF i < Len(t) THEN skipEnvArguments(t, i + 2) ELSE Len(t) + 1
      [] IsOpt(t[i]) \/ t[i].w = "assign" -> skipEnvArguments(t, i + 1)
      [] OTHER -> i

RECURSIVE skipExecArguments(_, _)
skipExecArguments(t, i) ==
    CASE i > Len(t) -> i
      [] t[i] = Opt("--") -> i + 1
      [] t[i] = Opt("-a") /\ i < Len(t) -> skipExecArguments(t, i + 2)
      [] IsOpt(t[i]) -> skipExecArguments(t, i + 1)
      [] OTHER -> i

(* The token after the wrapper at i and its arguments; i itself when the   *)
(* token there is the program.                                             *)
AfterWrapper(t, i) ==
    CASE Base(t[i]) = "sudo" -> skipSudoArguments(t, i + 1)
      [] Base(t[i]) = "env" -> skipEnvArguments(t, i + 1)
      [] Base(t[i]) \in {"command", "nohup"} -> i + 1
      [] Base(t[i]) = "exec" -> skipExecArguments(t, i + 1)
      [] HasEquals(t[i]) -> i + 1
      [] OTHER -> i

RECURSIVE ExecutableFrom(_, _)
ExecutableFrom(t, i) ==
    CASE i > Len(t) -> 0
      [] AfterWrapper(t, i) = i -> i
      [] OTHER -> ExecutableFrom(t, AfterWrapper(t, i))

(* 0 where the code has -1: nothing but wrappers.                          *)
executableIndex(t) == ExecutableFrom(t, 1)

Program(t) == IF executableIndex(t) = 0 THEN "" ELSE Base(t[executableIndex(t)])

Arguments(t) == SubSeq(t, executableIndex(t) + 1, Len(t))

HasAny(arguments, words) == \E i \in DOMAIN arguments : arguments[i] \in words

RECURSIVE SudoFrom(_, _)
SudoFrom(t, i) ==
    CASE i > Len(t) -> FALSE
      [] Base(t[i]) \in {"env", "command", "nohup"} \/ HasEquals(t[i]) -> SudoFrom(t, AfterWrapper(t, i))
      [] OTHER -> Base(t[i]) = "sudo"

commandStartsWithSudo(t) == SudoFrom(t, 1)

EnvChdir == {"-C", "--chdir", "--chdir="}

RECURSIVE envChangesWorkingDirectory(_, _)
envChangesWorkingDirectory(t, i) ==
    CASE i > Len(t) -> FALSE
      [] t[i] = Opt("--") -> FALSE
      [] IsOpt(t[i]) /\ t[i].v \in EnvChdir -> TRUE
      [] t[i] \in {Opt("-u"), Opt("--unset")} -> envChangesWorkingDirectory(t, i + 2)
      [] IsOpt(t[i]) \/ t[i].w = "assign" -> envChangesWorkingDirectory(t, i + 1)
      [] OTHER -> FALSE

SudoChdir == {"-D", "--chdir", "--chdir="}

RECURSIVE sudoChangesWorkingDirectory(_, _)
sudoChangesWorkingDirectory(t, i) ==
    CASE i > Len(t) -> FALSE
      [] t[i] = Opt("--") \/ ~IsOpt(t[i]) -> FALSE
      [] t[i].v \in SudoChdir -> TRUE
      [] t[i].v \in SudoValueOptions -> sudoChangesWorkingDirectory(t, i + 2)
      [] OTHER -> sudoChangesWorkingDirectory(t, i + 1)

RECURSIVE WrapperFrom(_, _)
WrapperFrom(t, i) ==
    IF i > Len(t) THEN FALSE
    ELSE \/ Base(t[i]) = "env" /\ envChangesWorkingDirectory(t, i + 1)
         \/ Base(t[i]) = "sudo" /\ sudoChangesWorkingDirectory(t, i + 1)
         \/ AfterWrapper(t, i) # i /\ WrapperFrom(t, AfterWrapper(t, i))

hasWorkingDirectoryWrapper(t) == WrapperFrom(t, 1)

(* Which options of sh carry the program text: -c alone or in a group.     *)
CommandStringOptions == {"-c", "-ec"}

(* What the parser makes of a word's text; a word that is not literal has  *)
(* become empty.                                                           *)
Parsed(word) ==
    CASE word.w = "script" -> word.src
      [] word.w = "dynamic" -> <<>>
      [] OTHER -> <<Call(0, <<word>>)>>

RECURSIVE ScriptFrom(_, _)
ScriptFrom(arguments, i) ==
    CASE i > Len(arguments) -> <<>>
      [] arguments[i] = Opt("--") -> <<>>
      [] IsOpt(arguments[i]) /\ arguments[i].v \in CommandStringOptions /\ i < Len(arguments) ->
             <<Parsed(arguments[i + 1])>>
      [] arguments[i] = Opt("-o") /\ i < Len(arguments) -> ScriptFrom(arguments, i + 2)
      [] ~IsOpt(arguments[i]) -> <<>>
      [] OTHER -> ScriptFrom(arguments, i + 1)

(* The program of sh -c, the word behind the option, as a sequence of at   *)
(* most one.                                                               *)
staticEmbeddedShellSource(t) == IF Program(t) = "sh" THEN ScriptFrom(Arguments(t), 1) ELSE <<>>

(***************************************************************************)
(* What a command destroys, its relative paths taken from dir              *)
(***************************************************************************)

Operands(arguments, dir) ==
    {resolveKnownPath(dir, arguments[i]) : i \in {j \in DOMAIN arguments : ~IsOpt(arguments[j])}}

RecursiveOptions == {Opt("-r"), Opt("-rf"), Opt("--recursive")}

destroysBaseSystemTree(t, dir) ==
    /\ \E p \in Operands(Arguments(t), dir) : isBaseSystemPath(p)
    /\ \/ Program(t) = "rm" /\ HasAny(Arguments(t), RecursiveOptions)
       \/ Program(t) \in {"rmdir", "unlink", "shred"}
       \/ Program(t) = "find" /\ HasAny(Arguments(t), {Opt("-delete")})

(* The last argument that is no option.                                    *)
blockDeviceDestination(arguments, dir) ==
    \E i \in DOMAIN arguments :
        /\ ~IsOpt(arguments[i])
        /\ \A j \in i + 1..Len(arguments) : IsOpt(arguments[j])
        /\ isRawBlockDevicePath(resolveKnownPath(dir, arguments[i]))

hasDDBlockDeviceDestination(arguments, dir) ==
    \E i \in DOMAIN arguments :
        /\ arguments[i].w = "assign"
        /\ arguments[i].v = "of="
        /\ isRawBlockDevicePath(resolveKnownPath(dir, arguments[i].path))

writesBlockDeviceWithPath(t, dir) ==
    LET a == Arguments(t)
    IN  \/ /\ Program(t) = "dd"
           /\ hasDDBlockDeviceDestination(a, dir) \/ blockDeviceDestination(a, dir)
        \/ Program(t) \in {"shred", "tee"} /\ \E p \in Operands(a, dir) : isRawBlockDevicePath(p)
        \/ Program(t) \in {"cp", "mv", "install"} /\ blockDeviceDestination(a, dir)

RedirectsToDevice(out, dir) ==
    \E i \in DOMAIN out : isRawBlockDevicePath(resolveKnownPath(dir, out[i]))

(***************************************************************************)
(* The analysis of a program                                               *)
(*                                                                         *)
(* A statement has its kind c, its place at in the text, its literal       *)
(* output redirects out, whether it reads a redirected input (inp), is     *)
(* negated or runs in the background:                                      *)
(*   none     only redirects                                               *)
(*   refused  the whole of a text that does not parse                      *)
(*   call     args                                                         *)
(*   and, or, pipe   x, y                                                  *)
(*   subshell, block, while, func, if   body; while also cond,             *)
(*   func its name                                                         *)
(***************************************************************************)

Binary == {"and", "or", "pipe"}

RECURSIVE Nodes(_)
(* Every statement of a program, the ones inside others included:          *)
(* syntax.Walk, which does not enter the text of sh -c.                    *)
Nodes(program) ==
    UNION {LET s == program[i]
           IN  {s} \cup (CASE s.c \in {"none", "refused", "call"} -> {}
                           [] s.c \in Binary -> Nodes(<<s.x, s.y>>)
                           [] s.c = "while" -> Nodes(s.cond) \cup Nodes(s.body)
                           [] OTHER -> Nodes(s.body))
           : i \in DOMAIN program}

Calls(program) == {s \in Nodes(program) : s.c = "call"}

IsDynamic(t) == \E i \in DOMAIN t : t[i].w = "dynamic"

Interpreters == {"bash", "zsh", "dash", "fish", "python", "python3", "perl", "ruby", "node", "php", "lua", "awk"}

(* sed -n, one literal line or range to print, and files named one by one. *)
LinePrints == {Name("1p"), Name("1,2p")}

isLiteralSedLinePrintInvocation(t) ==
    LET a == Arguments(t)
        quiet == {Opt("-n"), Opt("--quiet"), Opt("--silent")}
    IN  \E n \in 2..Len(a) - 1 :
            /\ \A i \in 1..n - 1 : a[i] \in quiet \/ (i = n - 1 /\ a[i] = Opt("--"))
            /\ \E i \in 1..n - 1 : a[i] \in quiet
            /\ a[n] \in LinePrints
            /\ \A i \in n + 1..Len(a) : a[i].w = "path" /\ "*" \notin Range(a[i].to)

isDynamicShellInvocation(t) ==
    \/ Program(t) \in {"eval", "source", "."} \cup Interpreters
    \/ Program(t) = "sed" /\ ~isLiteralSedLinePrintInvocation(t)

isAlwaysTrueCondition(cond) ==
    Len(cond) = 1 /\ cond[1].c = "call" /\ cond[1].args = <<Name("true")>>

(* The text of a sh -c that does not parse is an error of the whole        *)
(* analysis, at whatever depth it stands.                                  *)
RECURSIVE analyzeShellProgram(_)
analyzeShellProgram(program) ==
    LET nodes == Nodes(program)
        calls == Calls(program)
        nested == UNION {{analyzeShellProgram(src) : src \in Range(staticEmbeddedShellSource(s.args))} : s \in calls}
    IN  [err |-> (\E s \in nodes : s.c = "refused") \/ \E n \in nested : n.err,
         commands |-> {s.args : s \in {c \in calls : c.args # <<>>}} \cup UNION {n.commands : n \in nested},
         writesBlockDevice |-> \/ \E s \in nodes : RedirectsToDevice(s.out, NoDir)
                               \/ \E n \in nested : n.writesBlockDevice,
         unbounded |-> \/ \E s \in nodes : s.c = "while" /\ isAlwaysTrueCondition(s.cond)
                       \/ \E n \in nested : n.unbounded,
         dynamic |-> \/ \E s \in calls : IsDynamic(s.args) \/ isDynamicShellInvocation(s.args)
                     \/ \E n \in nested : n.dynamic,
         hasInputRedirect |-> (\E s \in nodes : s.inp) \/ \E n \in nested : n.hasInputRedirect,
         hasPipeline |-> (\E s \in nodes : s.c = "pipe") \/ \E n \in nested : n.hasPipeline]

(***************************************************************************)
(* Where the commands of a program run: path_context.go                    *)
(***************************************************************************)

initialStaticPathContext(dir) == [dir |-> dir, cd |-> TRUE]

unknownStaticPathContext == [dir |-> NoDir, cd |-> FALSE]

declaresCDFunction(program) == \E s \in Nodes(program) : s.c = "func" /\ s.name = "cd"

(* Resolution that does not depend on CDPATH or on expansion.              *)
isStaticCDTarget(word) ==
    /\ word.w = "path"
    /\ "*" \notin Range(word.to)
    /\ word.abs \/ (word.to # <<>> /\ Head(word.to) \in {".", ".."})

invokesCD(t) ==
    \/ t # <<>> /\ Base(t[1]) \in {"command", "builtin"}
    \/ Program(t) \in {"cd", "builtin", "pushd", "popd", "trap"}

literalCDContext_NoDashes(t, ctx) ==
    IF t = <<>> THEN ctx
    ELSE IF t[1] # Name("cd") \/ ~ctx.cd
         THEN IF invokesCD(t) THEN unknownStaticPathContext ELSE ctx
    ELSE IF /\ Len(t) = 2
            /\ isStaticCDTarget(t[2])
            /\ resolveKnownPath(ctx.dir, t[2]) # NoDir
         THEN [dir |-> resolveKnownPath(ctx.dir, t[2]), cd |-> TRUE]
    ELSE unknownStaticPathContext

literalCDContext(t, ctx) ==
    IF t = <<>> THEN ctx
    ELSE IF t[1] # Name("cd") \/ ~ctx.cd
         THEN IF invokesCD(t) THEN unknownStaticPathContext ELSE ctx
    ELSE LET a == IF Len(t) = 3 /\ t[2] = Opt("--") THEN <<t[3]>> ELSE Tail(t)
         IN  IF /\ Len(a) = 1
                /\ ~IsOpt(a[1])
                /\ isStaticCDTarget(a[1])
                /\ resolveKnownPath(ctx.dir, a[1]) # NoDir
             THEN [dir |-> resolveKnownPath(ctx.dir, a[1]), cd |-> TRUE]
             ELSE unknownStaticPathContext

appendKnownPathCommand(s, t, dir, out) ==
    IF dir = NoDir \/ (t = <<>> /\ out = <<>>) THEN {}
    ELSE {[at |-> s.at, args |-> t, dir |-> dir, out |-> out]}

recordKnownOutputRedirects(s, ctx) == appendKnownPathCommand(s, <<>>, ctx.dir, s.out)

RECURSIVE collectKnownPathStatement(_, _)
collectKnownPathStatements(program, ctx) ==
    UNION {collectKnownPathStatement(program[i], IF i = 1 THEN ctx ELSE unknownStaticPathContext).known
           : i \in DOMAIN program}

collectKnownPathProgram(program, ctx) ==
    collectKnownPathStatements(program, [ctx EXCEPT !.cd = @ /\ ~declaresCDFunction(program)])

collectKnownPathCall(s, ctx) ==
    LET here == IF hasWorkingDirectoryWrapper(s.args) THEN unknownStaticPathContext ELSE ctx
        embedded == Range(staticEmbeddedShellSource(s.args))
    IN  IF IsDynamic(s.args) THEN [known |-> {}, ctx |-> unknownStaticPathContext]
        ELSE [known |-> appendKnownPathCommand(s, s.args, here.dir, <<>>)
                        \cup recordKnownOutputRedirects(s, ctx)
                        \cup UNION {collectKnownPathProgram(src, here) : src \in embedded},
              ctx |-> literalCDContext(s.args, here)]

(* Which contexts a binary command passes on: && hands the left one over,  *)
(* everything else forgets it.                                             *)
Handed_Always(op, left) == left

Handed(op, left) == IF op = "and" THEN left ELSE unknownStaticPathContext

collectKnownPathExpression(s, ctx) ==
    LET redirects == recordKnownOutputRedirects(s, ctx)
    IN  CASE s.c = "call" -> collectKnownPathCall(s, ctx)
          [] s.c \in Binary ->
                 LET left == collectKnownPathStatement(s.x, ctx)
                     right == collectKnownPathStatement(s.y, Handed(s.c, left.ctx))
                 IN  [known |-> redirects \cup left.known \cup right.known,
                      ctx |-> Handed(s.c, right.ctx)]
          [] s.c = "subshell" ->
                 [known |-> redirects \cup collectKnownPathStatements(s.body, ctx), ctx |-> ctx]
          [] s.c = "block" ->
                 [known |-> redirects \cup collectKnownPathStatements(s.body, ctx),
                  ctx |-> unknownStaticPathContext]
          [] OTHER -> [known |-> {}, ctx |-> unknownStaticPathContext]

collectKnownPathStatement(s, ctx) ==
    LET r == collectKnownPathExpression(s, ctx)
    IN  IF s.c \in {"none", "refused"} THEN [known |-> {}, ctx |-> ctx]
        ELSE IF s.neg \/ s.bg THEN [r EXCEPT !.ctx = unknownStaticPathContext] ELSE r

collectKnownPathCommands(program, dir) == collectKnownPathProgram(program, initialStaticPathContext(dir))

(***************************************************************************)
(* The hard-stop registry and the decision                                 *)
(***************************************************************************)

FormatTools == {"mkfs", "fdisk", "cfdisk", "sfdisk", "gdisk", "sgdisk", "parted", "wipefs"}

matchFormatOrPartition(analysis) == \E t \in analysis.commands : Program(t) \in FormatTools

matchRawBlockDeviceWrite(analysis, known) ==
    \/ analysis.writesBlockDevice
    \/ \E t \in analysis.commands : writesBlockDeviceWithPath(t, NoDir)
    \/ \E k \in known : RedirectsToDevice(k.out, k.dir) \/ writesBlockDeviceWithPath(k.args, k.dir)

matchBaseSystemTreeDestruction(analysis, known) ==
    \/ \E t \in analysis.commands : destroysBaseSystemTree(t, NoDir)
    \/ \E k \in known : destroysBaseSystemTree(k.args, k.dir)

UnboundedDevices == {AbsPath(<<"dev", "zero">>), AbsPath(<<"dev", "random">>), AbsPath(<<"dev", "urandom">>)}

(* What the text begins with: a function named ":" or "while true".        *)
StartsUnbounded(program) ==
    /\ program # <<>>
    /\ \/ program[1].c = "func" /\ program[1].name = ":"
       \/ program[1].c = "while" /\ isAlwaysTrueCondition(SubSeq(program[1].cond, 1, 1))

matchUnboundedResourceExhaustion(program, analysis) ==
    \/ analysis.unbounded
    \/ StartsUnbounded(program)
    \/ \E t \in analysis.commands :
          \/ Program(t) \in {"yes", "stress", "stress-ng"}
          \/ /\ Program(t) = "dd"
             /\ HasAny(Arguments(t), {Assign("if=/dev/zero")})
             /\ ~HasAny(Arguments(t), {Assign("count=1")})
          \/ Program(t) = "cat" /\ HasAny(Arguments(t), UnboundedDevices)

ContainerTools == {"docker", "podman", "nerdctl", "ctr", "crictl", "kubectl", "lxc", "incus"}

matchOpaqueShellEffect(analysis) ==
    \/ analysis.dynamic
    \/ \E t \in analysis.commands :
          \/ Program(t) \in {"eval", "source", ".", "xargs", "parallel", "pxargs"} \cup Interpreters
          \/ Program(t) = "sed" /\ ~isLiteralSedLinePrintInvocation(t)
          \/ /\ Program(t) = "sh"
             /\ staticEmbeddedShellSource(t) = <<>>
             /\ analysis.hasPipeline \/ analysis.hasInputRedirect
          \/ Program(t) = "find" /\ HasAny(Arguments(t), {Opt("-exec"), Opt("-execdir"), Opt("-ok"), Opt("-okdir")})
          \/ Program(t) \in ContainerTools /\ HasAny(Arguments(t), {Name("exec")})

(* A remote client names its destinations statically or not at all; the    *)
(* grammars of their arguments are reduced to the destination they end in, *)
(* one that is registered or anything else.                                *)
RemoteClients == {"ssh", "scp", "sftp", "rsync", "mosh", "rsh", "slogin", "telnet"}

matchUnregisteredRemoteHop(analysis, registered, available) ==
    \E t \in analysis.commands :
        /\ Program(t) \in RemoteClients
        /\ \/ ~available
           \/ Arguments(t) = <<>>
           \/ Last(Arguments(t)) \notin registered

hardStopRules(analysis, known, req) ==
    << <<"format_or_partition", matchFormatOrPartition(analysis)>>,
       <<"raw_block_device_write", matchRawBlockDeviceWrite(analysis, known)>>,
       <<"base_system_tree_destruction", matchBaseSystemTreeDestruction(analysis, known)>>,
       <<"unbounded_resource_exhaustion", matchUnboundedResourceExhaustion(req.program, analysis)>>,
       <<"opaque_shell_effect", matchOpaqueShellEffect(analysis)>>,
       <<"unregistered_remote_hop", matchUnregisteredRemoteHop(analysis, req.registered, req.available)>> >>

(* The first rule of the registry that matches, "" when none does.         *)
matchSSHHardStop(analysis, known, req) ==
    LET matched == SelectSeq(hardStopRules(analysis, known, req), LAMBDA rule : rule[2])
    IN  IF matched = <<>> THEN "" ELSE matched[1][1]

InteractivePrograms == {"read", "vi", "vim", "nvim", "nano", "emacs", "less", "more", "man", "su", "doas", "login", "passwd"}

requiresInteractiveInput(commands) ==
    \E t \in commands :
        \/ executableIndex(t) = 0 /\ Base(t[1]) = "sudo"
        \/ Program(t) \in InteractivePrograms
        \/ Program(t) \in {"top", "htop"} /\ ~HasAny(Arguments(t), {Opt("-b"), Opt("--batch")})
        \/ Program(t) = "sh" /\ staticEmbeddedShellSource(t) = <<>>
        \/ /\ Program(t) \in {"mysql", "mariadb", "psql"}
           /\ ~HasAny(Arguments(t), {Opt("-e"), Opt("--execute"), Opt("-c"), Opt("--command"), Opt("-f"), Opt("--file")})

Verdict(decision, reason) ==
    [decision |-> decision, reason |-> reason, interactive |-> FALSE, sudo |-> FALSE, class |-> ""]

withDecision(decision, reason) == Verdict(decision, reason)

withHardStop(id) == Verdict("absolute_prohibited", id)

(* A request: the program, the declared directory, whether it and the      *)
(* limits are valid, what the target's own patterns say of the text        *)
(* ("none", "match" or "invalid"), and the registered destinations, if     *)
(* they could be read.  A text that the parser refuses, or that holds a    *)
(* sh -c whose text it refuses, meets no hard stop.                        *)
EvaluateSSH(req) ==
    LET analysis == analyzeShellProgram(req.program)
        known == collectKnownPathCommands(req.program, req.dir)
        stop == matchSSHHardStop(analysis, known, req)
        analysed == ~analysis.err /\ analysis.commands # {}
    IN  IF ~req.valid \/ req.blacklist = "invalid" THEN withDecision("rejected", "invalid_request")
        ELSE IF analysed /\ stop # "" THEN withHardStop(stop)
        ELSE IF req.blacklist = "match" THEN Verdict("rejected", "target_command_blacklist")
        ELSE [withDecision("direct", "literal_static_shell") EXCEPT
                 !.interactive = analysed /\ requiresInteractiveInput(analysis.commands),
                 !.sudo = analysed /\ \E t \in analysis.commands : commandStartsWithSudo(t)]

(***************************************************************************)
(* The remote shell (external): what the runs of a program can do.         *)
(*                                                                         *)
(* A run is [did, dir, fn, ok]: the set of things it did, the directory    *)
(* the shell ends in, the body of a function cd if one was declared, and   *)
(* whether the last command succeeded.  A thing done is a command run or a *)
(* redirect opened at a place of the text, in the directory it really      *)
(* happened in.  Every command may succeed or fail.                        *)
(***************************************************************************)

(* Where a directory that the text does not determine turns out to be.     *)
Elsewhere == <<"elsewhere">>

(* The directories a builtin can leave the shell in.  A relative operand   *)
(* not begun by "." is looked up in CDPATH.                                *)
Destinations(t, dir) ==
    LET target == Last(t)
    IN  CASE Program(t) \in {"pushd", "popd"} -> {Elsewhere}
          [] Program(t) = "trap" -> {dir, Elsewhere}
          [] target.w = "path" /\ isStaticCDTarget(target) -> {resolveKnownPath(dir, target)}
          [] target.w = "path" -> {resolveKnownPath(dir, target), Elsewhere}
          [] OTHER -> {Elsewhere}

(* A builtin takes effect in the shell itself: it stands first, or behind  *)
(* command or builtin.                                                     *)
InShell(t) ==
    LET i == IF t[1] \in {Name("command"), Name("builtin")}
             THEN IF t[2] = Opt("--") THEN 3 ELSE 2
             ELSE 1
    IN  t[i] \in {Name("cd"), Name("pushd"), Name("popd"), Name("trap")}

(* sudo starts a login shell, in the user's home.                          *)
LoginSudo(t) ==
    \E i, j \in 1..executableIndex(t) - 1 :
        /\ i < j
        /\ Base(t[i]) = "sudo"
        /\ t[j] \in {Opt("-i"), Opt("--login")}
        /\ \A k \in i..j : Base(t[k]) # "env"

(* env and sudo start the program in another directory when they are told. *)
ChildDir(t, dir) ==
    IF \/ \E i \in 1..executableIndex(t) - 1 : t[i] \in {Opt("--chdir"), Opt("--chdir=")}
       \/ LoginSudo(t)
    THEN Elsewhere ELSE dir

(* sh -c runs the first word behind its options.                           *)
ShellText(t) ==
    LET a == Arguments(t)
        operands == {i \in DOMAIN a : ~IsOpt(a[i]) /\ (i = 1 \/ a[i - 1] # Opt("-o"))}
        options == 1..Min(operands) - 1
    IN  IF /\ Program(t) = "sh"
           /\ operands # {}
           /\ \E i \in options : a[i].v \in CommandStringOptions /\ \A j \in 1..i : a[j] # Opt("--")
        THEN <<Parsed(a[Min(operands)])>>
        ELSE <<>>

RECURSIVE Runs(_, _)

RunsInTurn(program, from) ==
    FoldLeft(LAMBDA ends, s :
                UNION {{[r EXCEPT !.did = @ \cup e.did] : r \in Runs(s, e)} : e \in ends},
             {[did |-> {}, dir |-> from.dir, fn |-> from.fn, ok |-> TRUE]}, program)

CallRuns(s, from) ==
    LET t == s.args
        opened == IF s.out = <<>> THEN {}
                  ELSE {[at |-> s.at, args |-> <<>>, out |-> s.out, dir |-> from.dir]}
        child == ChildDir(t, from.dir)
        ran == opened \cup {[at |-> s.at, args |-> t, out |-> <<>>, dir |-> child]}
        Done(did, dir, ok) == [did |-> did, dir |-> dir, fn |-> from.fn, ok |-> ok]
    IN  CASE t = <<>> -> {Done(opened, from.dir, TRUE)}
          [] t[1] = Name("cd") /\ from.fn # <<>> ->
                 {[r EXCEPT !.did = @ \cup opened] : r \in RunsInTurn(from.fn, [from EXCEPT !.fn = <<>>])}
          [] InShell(t) -> {Done(opened, d, TRUE) : d \in Destinations(t, from.dir)}
                           \cup {Done(opened, from.dir, FALSE)}
          [] ShellText(t) # <<>> ->
                 {Done(ran \cup r.did, from.dir, r.ok) :
                     r \in RunsInTurn(ShellText(t)[1], [dir |-> child, fn |-> <<>>])}
          [] OTHER -> {Done(ran, from.dir, ok) : ok \in BOOLEAN}

StatementRuns(s, from) ==
    LET opened == IF s.out = <<>> THEN {}
                  ELSE {[at |-> s.at, args |-> <<>>, out |-> s.out, dir |-> from.dir]}
        Outside(r) == [r EXCEPT !.dir = from.dir, !.fn = from.fn]
        Then(r, next) == [next EXCEPT !.did = @ \cup r.did]
    IN  CASE s.c = "call" -> CallRuns(s, from)
          [] s.c \in {"and", "or"} ->
                 UNION {IF r.ok = (s.c = "and") THEN {Then(r, n) : n \in Runs(s.y, r)} ELSE {r}
                        : r \in Runs(s.x, from)}
          [] s.c = "pipe" ->
                 {Then(r, Outside(n)) : r \in Runs(s.x, from), n \in Runs(s.y, from)}
          [] s.c = "subshell" ->
                 {Outside([r EXCEPT !.did = @ \cup opened]) : r \in RunsInTurn(s.body, from)}
          [] s.c = "block" -> {[r EXCEPT !.did = @ \cup opened] : r \in RunsInTurn(s.body, from)}
          [] s.c = "none" -> {[did |-> opened, dir |-> from.dir, fn |-> from.fn, ok |-> ok] : ok \in BOOLEAN}
          [] s.c = "refused" -> {[did |-> {}, dir |-> from.dir, fn |-> from.fn, ok |-> FALSE]}
          [] s.c = "func" ->
                 {[did |-> {}, dir |-> from.dir, fn |-> IF s.name = "cd" THEN s.body ELSE from.fn, ok |-> TRUE]}
          [] s.c = "while" ->
                 {[did |-> {}, dir |-> from.dir, fn |-> from.fn, ok |-> TRUE]}
                 \cup RunsInTurn(s.cond \o s.body, from)
          [] OTHER -> RunsInTurn(s.body, from)
                      \cup {[did |-> {}, dir |-> from.dir, fn |-> from.fn, ok |-> TRUE]}

Runs(s, from) ==
    {[r EXCEPT !.ok = IF s.neg THEN ~@ ELSE s.bg \/ @,
               !.dir = IF s.bg THEN from.dir ELSE @,
               !.fn = IF s.bg THEN from.fn ELSE @] : r \in StatementRuns(s, from)}

(* Every run of a program from a directory; a shell whose directory the    *)
(* request does not declare starts in the home directory.                  *)
HomeDir == <<"home", "user">>

ProgramRuns(program, dir) ==
    RunsInTurn(program, [dir |-> IF dir = NoDir THEN HomeDir ELSE dir, fn |-> <<>>])
=============================================================================
