------------------------------- MODULE Config -------------------------------
(***************************************************************************)
(* The configuration of an image through the stages of a Dockerfile: build *)
(* arguments, variables and the commands that only change metadata         *)
(* (pkg/dockerfile/buildargs.go, pkg/commands, newStageBuilder, optimize,  *)
(* build and DoBuild of pkg/executor/build.go).                            *)
(*                                                                         *)
(* With --cache the metadata commands of a stage are executed twice: first *)
(* by optimize, which needs the variables for the cache keys and works on  *)
(* a shallow copy of the configuration and on the stage's own arguments,   *)
(* and then by build.  What is shared between the two passes (maps that    *)
(* are not nil, the commands themselves, the arrays behind slices, the     *)
(* arguments that DoBuild hands on) is state here.                         *)
(*                                                                         *)
(* A word of a Dockerfile is a literal, a variable ($k) or an escaped one  *)
(* (\$k).  Left out: the disk, variables in the names of variables and     *)
(* labels, paths that are absolute by the value of a variable, and the     *)
(* order of Env.                                                           *)
(***************************************************************************)
EXTENDS Naturals, Sequences, FiniteSets, SequencesExt

CONSTANTS
    Key,         \* names of variables
    Value,       \* literal values
    Empty,       \* the empty string, a Value
    Builtin,     \* names that are build arguments without an ARG: HTTP_PROXY ...
    LabelName,
    Options,     \* possible --build-arg options: [Key -> words or Unset]
    MetaArgs,    \* ARGs before the first FROM: sequences of [key, val]
    OptLabels,   \* --label options: [LabelName -> words or Unset]
    Images,      \* configurations of base images, by name
    Froms,       \* what FROM may say, per stage: [stage] or [word]
    Lists,       \* the commands a stage may have, per stage
    ShellLen,    \* the number of words of a SHELL: [shells -> Nat]
    ScratchEnv,  \* constants.ScratchEnvVars
    Signals,     \* values ParseSignal takes
    MaxStages,   \* bound: stages of a Dockerfile
    Unset,       \* a name that has no entry
    Nil          \* a nil pointer, slice or field

ASSUME ConfigAssumption ==
    /\ Empty \in Value /\ Builtin \subseteq Key
    /\ Unset # Nil
    /\ MaxStages \in Nat

Lit(v) == [type |-> "lit", val |-> v]
Var(k) == [type |-> "var", key |-> k]

Word == {Lit(v) : v \in Value} \cup [type : {"var", "esc"}, key : Key]

\* What a word is after replacement: a literal, or the text $k.
Text == {Lit(v) : v \in Value} \cup {Var(k) : k \in Key}

Env == [Key -> Text \cup {Unset}]

NoLabels == [x \in LabelName |-> Unset]

VARIABLES
    cache,       \* opts.Cache
    options,     \* opts.BuildArgs
    meta,        \* the ARGs before the first FROM, expanded
    stage,       \* the stage being built
    base,        \* its base image's configuration after initConfig
    list,        \* its commands as written, triggers of the base first
    triggers,    \* how many of them are triggers
    cmds,        \* s.cmds
    pc,          \* "from", "optimize", "build", "done" or "failed"
    i,           \* the command to be executed next
    stopCache,   \* optimize has missed the cache
    cfg,         \* optimize's copy of the configuration
    config,      \* s.cf.Config
    args,        \* the arguments that DoBuild holds and hands to the next stage
    clone,       \* the copy that optimize makes of them
    cell,        \* the word after the end of a SHELL's array, if it has room for one
    images,      \* the configurations of the stages built
    meantArgs    \* history: arguments as the Dockerfile means them, before the stage

vars == <<cache, options, meta, stage, base, list, triggers, cmds, pc, i, stopCache,
          cfg, config, args, clone, cell, images, meantArgs>>

-----------------------------------------------------------------------------
(***************************************************************************)
(* Replacement of variables.  "seen" gives what is set.                    *)
(***************************************************************************)
ResolveEnvironmentReplacement(w, seen) ==
    CASE w.type = "lit" -> w
      [] w.type = "esc" -> Var(w.key)
      [] w.type = "var" -> IF seen[w.key] = Unset THEN Lit(Empty) ELSE seen[w.key]

(***************************************************************************)
(* BuildArgs of Docker's builder: what was declared by ARG (Nil without a  *)
(* value), what was declared before FROM, and the options.  An option      *)
(* counts before a default, a default before a value from before FROM.     *)
(***************************************************************************)
NewBuildArgs(opts) ==
    [options |-> opts, allowed |-> [k \in Key |-> Unset], meta |-> [k \in Key |-> Unset]]

getBuildArg(b, k, mapping) ==
    IF b.options[k] # Unset THEN b.options[k]
    ELSE IF mapping[k] \notin {Unset, Nil} THEN mapping[k]
    ELSE IF b.meta[k] # Nil THEN b.meta[k] ELSE Unset

GetAll(b, mapping) ==
    [k \in Key |-> IF mapping[k] # Unset \/ k \in Builtin
                   THEN getBuildArg(b, k, mapping) ELSE Unset]

ReplacementEnvs(b, env) ==
    LET a == GetAll(b, b.allowed)
    IN [k \in Key |-> IF env[k] # Unset THEN env[k] ELSE a[k]]

AddMetaArgs(b, margs) ==
    [b EXCEPT !.meta = FoldLeft(LAMBDA f, a : [f EXCEPT ![a.key] = a.val], @, margs)]

ParseArg(key, val, env, b) ==
    IF val # Nil THEN ResolveEnvironmentReplacement(val, ReplacementEnvs(b, env))
    ELSE IF GetAll(b, b.allowed)[key] # Unset THEN GetAll(b, b.allowed)[key]
    ELSE IF GetAll(b, b.meta)[key] # Unset THEN GetAll(b, b.meta)[key]
    ELSE Nil

(***************************************************************************)
(* The ARGs before the first FROM are expanded with the ones before them   *)
(* and with the options, which come last in the list and so count first.   *)
(***************************************************************************)
expandNestedArgs(margs, opts) ==
    FoldLeft(LAMBDA done, a :
        LET seen == [k \in Key |->
                LET S == {j \in DOMAIN done : done[j].key = k /\ done[j].val # Nil}
                IN IF opts[k] # Unset THEN opts[k]
                   ELSE IF S # {} THEN done[Max(S)].val
                   ELSE Unset]
        IN Append(done, IF a.val = Nil THEN a ELSE
                [a EXCEPT !.val = ResolveEnvironmentReplacement(@, seen)]),
        << >>, margs)

(***************************************************************************)
(* The variables for the names of base images: an option counts unless it  *)
(* is empty.                                                               *)
(***************************************************************************)
unifyArgs(margs, opts) ==
    [k \in Key |->
        LET S == {j \in DOMAIN margs : margs[j].key = k /\ margs[j].val # Nil}
        IN IF opts[k] \notin {Unset, Lit(Empty)} THEN opts[k]
           ELSE IF S # {} THEN margs[Max(S)].val
           ELSE Unset]

resolveStagesArgs(w) == ResolveEnvironmentReplacement(w, unifyArgs(meta, options))

-----------------------------------------------------------------------------
(***************************************************************************)
(* Slices.  A SHELL's words are appended one by one, so that its array has *)
(* room for a power of two of them; appending a command line to a slice    *)
(* with room writes into the array that every such slice shares.  A slice  *)
(* is the shell, the number of the array its last word is in (Nil: one of  *)
(* its own) and that word if the array is its own.                         *)
(***************************************************************************)
HasRoom(shell) == ~\E e \in 0 .. 4 : ShellLen[shell] = 2 ^ e

appendLine(x, line) ==
    IF ~line.prependShell THEN [shell |-> Nil, at |-> Nil, line |-> line.line]
    ELSE IF x.cfg.shell = Nil THEN [shell |-> "default", at |-> Nil, line |-> line.line]
    ELSE IF HasRoom(x.cfg.shell.shell)
    THEN [shell |-> x.cfg.shell.shell, at |-> x.cfg.shell.at, line |-> Nil]
    ELSE [shell |-> x.cfg.shell.shell, at |-> Nil, line |-> line.line]

CellAfter(x, line) ==
    LET s == appendLine(x, line)
    IN IF s.at = Nil THEN x.cell ELSE [x.cell EXCEPT ![s.at] = line.line]

\* What a slice reads as.
Argv(s, cells) ==
    IF s = Nil THEN Nil
    ELSE [shell |-> s.shell, line |-> IF s.at = Nil THEN s.line ELSE cells[s.at]]

-----------------------------------------------------------------------------
(***************************************************************************)
(* ExecuteCommand of each command, number n of the stage, on               *)
(* x = [cfg, args, cell, cmd, ok].                                         *)
(***************************************************************************)
Seen(x) == ReplacementEnvs(x.args, x.cfg.env)

Resolve(x, w) == ResolveEnvironmentReplacement(w, Seen(x))

ArgCommand(x) ==
    [x EXCEPT !.args.allowed[x.cmd.key] = ParseArg(x.cmd.key, x.cmd.val, x.cfg.env, x.args)]

UpdateConfigEnv(x) ==
    [x EXCEPT !.cfg.env =
        FoldLeft(LAMBDA e, pair : [e EXCEPT ![pair.key] = Resolve(x, pair.val)], @, x.cmd.pairs)]

(***************************************************************************)
(* The resolved labels are written back into the command.                  *)
(***************************************************************************)
updateLabels(x) ==
    LET resolved == [j \in DOMAIN x.cmd.pairs |->
                        [x.cmd.pairs[j] EXCEPT !.val = Resolve(x, @)]]
    IN [x EXCEPT
        !.cmd.pairs = resolved,
        !.cfg.labels = FoldLeft(LAMBDA f, pair : [f EXCEPT ![pair.key] = pair.val], @, resolved)]

ExposeCommand(x) ==
    LET proto == IF x.cmd.proto = Nil THEN "tcp" ELSE x.cmd.proto
    IN IF proto \notin {"tcp", "udp"} THEN [x EXCEPT !.ok = FALSE]
       ELSE [x EXCEPT !.cfg.ports = @ \cup {<<Resolve(x, x.cmd.word), proto>>}]

VolumeCommand(x) == [x EXCEPT !.cfg.volumes = @ \cup {Resolve(x, x.cmd.word)}]

UserCommand(x) ==
    [x EXCEPT !.cfg.user = [j \in DOMAIN x.cmd.words |-> Resolve(x, x.cmd.words[j])]]

WorkdirCommand(x) ==
    LET w == Resolve(x, x.cmd.word)
        path == IF w = Lit(Empty) THEN << >> ELSE <<w>>
    IN [x EXCEPT !.cfg.workdir = IF x.cmd.abs \/ @ = Nil THEN path ELSE @ \o path]

StopSignalCommand(x) ==
    LET s == Resolve(x, x.cmd.word)
    IN IF s \notin Signals THEN [x EXCEPT !.ok = FALSE] ELSE [x EXCEPT !.cfg.signal = s]

HealthCheckCommand(x) == [x EXCEPT !.cfg.health = x.cmd.test]

OnBuildCommand(x) == [x EXCEPT !.cfg.onbuild = Append(@, x.cmd.trigger)]

ShellCommand(x, n) == [x EXCEPT !.cfg.shell = [shell |-> x.cmd.shell, at |-> n]]

CmdCommand(x) ==
    [x EXCEPT !.cfg.cmd = appendLine(x, x.cmd), !.cell = CellAfter(x, x.cmd)]

EntrypointCommand(x) ==
    [x EXCEPT !.cfg.entrypoint = appendLine(x, x.cmd), !.cell = CellAfter(x, x.cmd)]

RunCommand(x) == [x EXCEPT !.cell = CellAfter(x, x.cmd)]

ExecuteCommand(x, n) ==
    CASE x.cmd.op = "ARG" -> ArgCommand(x)
      [] x.cmd.op = "ENV" -> UpdateConfigEnv(x)
      [] x.cmd.op = "LABEL" -> updateLabels(x)
      [] x.cmd.op = "EXPOSE" -> ExposeCommand(x)
      [] x.cmd.op = "VOLUME" -> VolumeCommand(x)
      [] x.cmd.op = "USER" -> UserCommand(x)
      [] x.cmd.op = "WORKDIR" -> WorkdirCommand(x)
      [] x.cmd.op = "STOPSIGNAL" -> StopSignalCommand(x)
      [] x.cmd.op = "HEALTHCHECK" -> HealthCheckCommand(x)
      [] x.cmd.op = "ONBUILD" -> OnBuildCommand(x)
      [] x.cmd.op = "SHELL" -> ShellCommand(x, n)
      [] x.cmd.op = "CMD" -> CmdCommand(x)
      [] x.cmd.op = "ENTRYPOINT" -> EntrypointCommand(x)
      [] x.cmd.op = "RUN" -> RunCommand(x)
      [] x.cmd.op = "CACHED RUN" -> x

MetadataOnly(c) == c.op \notin {"RUN", "CACHED RUN", "WORKDIR"}

-----------------------------------------------------------------------------
(***************************************************************************)
(* What the Dockerfile means: the variables and arguments before command   *)
(* n, with no regard to passes, copies and caches.  An ARG without a value *)
(* keeps the value the argument has, from an earlier stage too, and else   *)
(* takes the one from before the first FROM.                               *)
(***************************************************************************)
MetaValue(k) ==
    LET S == {j \in DOMAIN meta : meta[j].key = k}
    IN IF S = {} THEN Nil ELSE meta[Max(S)].val

Visible(m) ==
    [k \in Key |->
        IF m.env[k] # Unset THEN m.env[k]
        ELSE IF m.arg[k] = Unset /\ k \notin Builtin THEN Unset
        ELSE IF options[k] # Unset THEN options[k]
        ELSE IF m.arg[k] \notin {Unset, Nil} THEN m.arg[k]
        ELSE IF MetaValue(k) # Nil THEN MetaValue(k)
        ELSE Unset]

TextIn(m, w) == ResolveEnvironmentReplacement(w, Visible(m))

\* The value that the last of the pairs for a key gives it.
Given(pairs, k) == pairs[CHOOSE j \in DOMAIN pairs :
    pairs[j].key = k /\ \A h \in DOMAIN pairs : pairs[h].key = k => h <= j].val

Sets(c, k) == \E j \in DOMAIN c.pairs : c.pairs[j].key = k

After(m, c) ==
    CASE c.op = "ENV" ->
            [m EXCEPT !.env = [k \in Key |-> IF Sets(c, k) THEN TextIn(m, Given(c.pairs, k))
                                             ELSE @[k]]]
      [] c.op = "ARG" /\ c.val # Nil -> [m EXCEPT !.arg[c.key] = TextIn(m, c.val)]
      [] c.op = "ARG" /\ c.val = Nil ->
            [m EXCEPT !.arg[c.key] = IF @ \in {Unset, Nil} THEN MetaValue(c.key) ELSE @]
      [] OTHER -> m

Meant ==
    LET f[n \in 1 .. Len(list) + 1] ==
            IF n = 1 THEN [env |-> base.env, arg |-> meantArgs]
                     ELSE After(f[n - 1], list[n - 1])
    IN f

-----------------------------------------------------------------------------
EmptyConfig ==
    [env |-> [k \in Key |-> Unset], labels |-> NoLabels, ports |-> {}, volumes |-> {},
     user |-> Nil, workdir |-> Nil, signal |-> Nil, health |-> Nil, onbuild |-> << >>,
     shell |-> Nil, cmd |-> Nil, entrypoint |-> Nil]

initConfig(img) ==
    [img EXCEPT !.env = IF \A k \in Key : @[k] = Unset THEN ScratchEnv ELSE @,
                !.labels = [x \in LabelName |-> IF OptLabels[x] # Unset THEN OptLabels[x]
                                                ELSE @[x]]]

Init ==
    /\ cache \in BOOLEAN
    /\ options \in Options
    /\ \E margs \in MetaArgs : meta = expandNestedArgs(margs, options)
    /\ stage = 0 /\ pc = "from" /\ i = 1
    /\ base = EmptyConfig /\ config = EmptyConfig /\ cfg = EmptyConfig
    /\ list = << >> /\ cmds = << >> /\ triggers = 0 /\ stopCache = FALSE
    /\ args = NewBuildArgs(options) /\ clone = NewBuildArgs(options)
    /\ cell = << >>
    /\ images = << >>
    /\ meantArgs = [k \in Key |-> Unset]

\* Mutant: the triggers stay in the configuration.
blankNothing(img) == img

\* Blank out the triggers, which are now commands of this stage.
resolveOnBuild(img) == [img EXCEPT !.onbuild = << >>]

BaseOf(from) ==
    IF "stage" \in DOMAIN from THEN images[from.stage] ELSE Images[resolveStagesArgs(from.word)]

\* The image can be retrieved.
HasBase(from) ==
    "word" \in DOMAIN from => resolveStagesArgs(from.word) \in DOMAIN Images

(***************************************************************************)
(* newStageBuilder.  The arguments are a copy of those DoBuild holds, and  *)
(* DoBuild then holds this copy.                                           *)
(***************************************************************************)
newStageBuilder ==
    /\ pc = "from" /\ stage < MaxStages
    /\ \E from \in Froms[stage + 1], l \in Lists[stage + 1] :
        /\ HasBase(from)
        /\ LET img == BaseOf(from)
           IN /\ base' = resolveOnBuild(initConfig(img))
              /\ list' = img.onbuild \o l
              /\ triggers' = Len(img.onbuild)
    /\ stage' = stage + 1
    /\ cmds' = list' /\ config' = base' /\ cfg' = base'
    /\ args' = AddMetaArgs(args, meta) /\ clone' = args'
    /\ meantArgs' = IF stage = 0 THEN meantArgs ELSE Meant[Len(list) + 1].arg
    /\ cell' = [n \in 0 .. Len(list') |-> Nil]
    /\ i' = 1 /\ stopCache' = FALSE
    /\ pc' = IF cache THEN "optimize" ELSE "build"
    /\ UNCHANGED <<cache, options, meta, images>>

Result(cf, a) == [cfg |-> cf, args |-> a, cell |-> cell, cmd |-> cmds[i], ok |-> TRUE]

(***************************************************************************)
(* optimize, one command: the key is made with what is seen here, a RUN    *)
(* may be found in the cache as long as nothing was missed, and metadata   *)
(* commands are executed on the copy and on the stage's own arguments.     *)
(***************************************************************************)
optimizeRun ==
    /\ pc = "optimize" /\ i <= Len(cmds) /\ cmds[i].op = "RUN"
    /\ \E hit \in BOOLEAN :
        /\ hit => ~stopCache
        /\ cmds' = [cmds EXCEPT ![i].op = IF hit THEN "CACHED RUN" ELSE @]
        /\ stopCache' = ~hit
    /\ i' = i + 1
    /\ UNCHANGED <<cache, options, meta, stage, base, list, triggers, pc, cfg, config,
                   args, clone, cell, images, meantArgs>>

optimizeMetadata ==
    /\ pc = "optimize" /\ i <= Len(cmds) /\ cmds[i].op # "RUN"
    /\ IF ~MetadataOnly(cmds[i])
       THEN i' = i + 1 /\ UNCHANGED <<cfg, args, cell, cmds, pc>>
       ELSE LET x == ExecuteCommand(Result(cfg, args), i)
            IN /\ cfg' = x.cfg /\ args' = x.args /\ cell' = x.cell
               /\ cmds' = [cmds EXCEPT ![i] = x.cmd]
               /\ pc' = IF x.ok THEN pc ELSE "failed"
               /\ i' = i + 1
    /\ UNCHANGED <<cache, options, meta, stage, base, list, triggers, stopCache, config,
                   clone, images, meantArgs>>

\* Mutant: the arguments are not restored.
restoreNothing == args

\* The arguments that build works with: optimize's deferred function restores the copy.
sArgs == IF cache THEN clone ELSE args

(***************************************************************************)
(* optimize returns: of its configuration remain the maps that were there  *)
(* before, which it shares with the one of the stage.                      *)
(***************************************************************************)
optimizeEnds ==
    /\ pc = "optimize" /\ i > Len(cmds)
    /\ config' = [config EXCEPT !.labels = IF @ = NoLabels THEN @ ELSE cfg.labels,
                                !.ports = IF @ = {} THEN @ ELSE cfg.ports,
                                !.volumes = IF @ = {} THEN @ ELSE cfg.volumes]
    /\ pc' = "build" /\ i' = 1
    /\ UNCHANGED <<cache, options, meta, stage, base, list, triggers, cmds, stopCache,
                   cfg, args, clone, cell, images, meantArgs>>

buildCommand ==
    /\ pc = "build" /\ i <= Len(cmds)
    /\ LET x == ExecuteCommand(Result(config, sArgs), i)
       IN /\ config' = x.cfg /\ cell' = x.cell
          /\ cmds' = [cmds EXCEPT ![i] = x.cmd]
          /\ IF cache THEN clone' = x.args /\ UNCHANGED args
                      ELSE args' = x.args /\ UNCHANGED clone
          /\ pc' = IF x.ok THEN pc ELSE "failed"
    /\ i' = i + 1
    /\ UNCHANGED <<cache, options, meta, stage, base, list, triggers, stopCache, cfg,
                   images, meantArgs>>

OwnCommands == SubSeq(list, triggers + 1, Len(list))

HasOp(l, op) == \E j \in DOMAIN l : l[j].op = op

\* Mutant: a CMD of the base image is kept beside a new ENTRYPOINT.
reviewNothing(cf) == cf

reviewConfig(cf) ==
    IF HasOp(OwnCommands, "ENTRYPOINT") /\ ~HasOp(OwnCommands, "CMD")
    THEN [cf EXCEPT !.cmd = Nil] ELSE cf

(***************************************************************************)
(* The configuration written to the image, and read back for a stage built *)
(* on it, whose slices have arrays of their own.                           *)
(***************************************************************************)
Written(cf) ==
    LET own(s) == IF s = Nil THEN Nil
                  ELSE [shell |-> s.shell, at |-> Nil, line |-> Argv(s, cell).line]
    IN [cf EXCEPT !.cmd = own(@), !.entrypoint = own(@),
                  !.shell = IF @ = Nil THEN Nil ELSE [@ EXCEPT !.at = 0]]

(***************************************************************************)
(* The end of a stage in DoBuild.                                          *)
(***************************************************************************)
endStage ==
    /\ pc = "build" /\ i > Len(cmds)
    /\ images' = Append(images, Written(reviewConfig(config)))
    /\ pc' = IF stage = MaxStages THEN "done" ELSE "from"
    /\ UNCHANGED <<cache, options, meta, stage, base, list, triggers, cmds, i, stopCache,
                   cfg, config, args, clone, cell, meantArgs>>

Next == newStageBuilder \/ optimizeRun \/ optimizeMetadata \/ optimizeEnds
        \/ buildCommand \/ endStage

Spec == Init /\ [][Next]_vars

-----------------------------------------------------------------------------
(***************************************************************************)
(* The state has its types: what the configuration holds is text in which  *)
(* no escape is left, and both sets of arguments have the options of the   *)
(* command line.                                                           *)
(***************************************************************************)
TypeOK ==
    /\ pc \in {"from", "optimize", "build", "done", "failed"}
    /\ stage \in 0 .. MaxStages /\ Len(images) \in {stage, stage - 1}
    /\ i \in 1 .. Len(cmds) + 1 /\ Len(cmds) = Len(list)
    /\ \A c \in {cfg, config, base} :
        /\ c.env \in Env
        /\ c.labels \in [LabelName -> Text \cup {Unset}]
        /\ c.ports \subseteq Text \X {"tcp", "udp"}
        /\ c.volumes \subseteq Text
        /\ c.user = Nil \/ \A j \in DOMAIN c.user : c.user[j] \in Text
        /\ c.signal \in Signals \cup {Nil}
    /\ \A b \in {args, clone} :
        /\ b.options = options
        /\ \A f \in {b.allowed, b.meta} : f \in [Key -> Text \cup {Unset, Nil}]

(***************************************************************************)
(* In either pass over the commands of a stage, a command sees the         *)
(* variables it is meant to see: those that went into the key under which  *)
(* optimize looks a RUN up are those with which build runs it, an ARG is   *)
(* seen from its declaration on and not before, ENV hides it, and an       *)
(* option nobody declared is not seen.                                     *)
(***************************************************************************)
SeenIsMeant ==
    i <= Len(list) =>
        /\ pc = "optimize" => ReplacementEnvs(args, cfg.env) = Visible(Meant[i])
        /\ pc = "build" => ReplacementEnvs(sArgs, config.env) = Visible(Meant[i])

-----------------------------------------------------------------------------
Built == pc \in {"from", "done"} /\ stage > 0

Of(op) == {n \in DOMAIN list : list[n].op = op}

TextAt(n, w) == TextIn(Meant[n], w)

WorkdirAt ==
    LET f[n \in 1 .. Len(list) + 1] ==
            IF n = 1 THEN base.workdir
            ELSE IF list[n - 1].op # "WORKDIR" THEN f[n - 1]
            ELSE LET w == TextAt(n - 1, list[n - 1].word)
                     path == IF w = Lit(Empty) THEN << >> ELSE <<w>>
                 IN IF list[n - 1].abs \/ f[n - 1] = Nil THEN path ELSE f[n - 1] \o path
    IN f

(***************************************************************************)
(* The image of a stage has the labels, ports, volumes, user, directory,   *)
(* signal and check that its commands give it on top of its base, each     *)
(* word expanded once and with the variables of its place, whether the     *)
(* commands were executed once or twice; and its triggers are those of its *)
(* own ONBUILD commands, since those of its base have been executed.       *)
(***************************************************************************)
MetadataIsMeant ==
    Built =>
        LET out == images[stage]
            labels(x) == {n \in Of("LABEL") : Sets(list[n], x)}
        IN /\ out.env = Meant[Len(list) + 1].env
           /\ \A x \in LabelName : out.labels[x] =
                IF labels(x) = {} THEN base.labels[x]
                ELSE TextAt(Max(labels(x)), Given(list[Max(labels(x))].pairs, x))
           /\ out.ports = base.ports \cup
                {<<TextAt(n, list[n].word), IF list[n].proto = Nil THEN "tcp" ELSE list[n].proto>>
                    : n \in Of("EXPOSE")}
           /\ out.volumes = base.volumes \cup {TextAt(n, list[n].word) : n \in Of("VOLUME")}
           /\ out.user = IF Of("USER") = {} THEN base.user
                ELSE LET n == Max(Of("USER"))
                     IN [j \in DOMAIN list[n].words |-> TextAt(n, list[n].words[j])]
           /\ out.workdir = WorkdirAt[Len(list) + 1]
           /\ out.signal = IF Of("STOPSIGNAL") = {} THEN base.signal
                ELSE TextAt(Max(Of("STOPSIGNAL")), list[Max(Of("STOPSIGNAL"))].word)
           /\ out.health = IF Of("HEALTHCHECK") = {} THEN base.health
                           ELSE list[Max(Of("HEALTHCHECK"))].test
           /\ out.onbuild = [n \in 1 .. Cardinality(Of("ONBUILD")) |->
                list[CHOOSE h \in Of("ONBUILD") :
                        Cardinality({g \in Of("ONBUILD") : g <= h}) = n].trigger]

(***************************************************************************)
(* The command line that the last CMD or ENTRYPOINT before the end of the  *)
(* stage gives, with the shell of its place.                               *)
(***************************************************************************)
LineOf(op, inherited) ==
    IF Of(op) = {} THEN inherited
    ELSE LET n == Max(Of(op))
             S == {h \in Of("SHELL") : h < n}
         IN [line |-> list[n].line,
             shell |-> IF ~list[n].prependShell THEN Nil
                       ELSE IF S # {} THEN list[Max(S)].shell
                       ELSE IF base.shell # Nil THEN base.shell.shell
                       ELSE "default"]

(***************************************************************************)
(* CMD and ENTRYPOINT of an image are those of the last such commands,     *)
(* whatever other command lines were put together after them, and a stage  *)
(* that sets an ENTRYPOINT without a CMD has no CMD.                       *)
(***************************************************************************)
CommandsAreMeant ==
    Built =>
        /\ Argv(images[stage].entrypoint, cell) = LineOf("ENTRYPOINT", Argv(base.entrypoint, cell))
        /\ Argv(images[stage].cmd, cell) =
            IF Of("ENTRYPOINT") # {} /\ Of("CMD") = {} THEN Nil
            ELSE LineOf("CMD", Argv(base.cmd, cell))

=============================================================================
