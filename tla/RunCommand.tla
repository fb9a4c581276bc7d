----------------------------- MODULE RunCommand -----------------------------
(***************************************************************************)
(* pkg/commands/run.go: how a RUN command becomes a process, and what is   *)
(* left of it.  Under / it is run as it is; with --sandbox it is chrooted  *)
(* into /kaniko/sandbox or, where the kernel's file systems could not be   *)
(* mounted there, run through proot, or over stubs of them, in which       *)
(* /proc/self/exe is a link made before each RUN (pkg/util:                *)
(* sandbox_kernel_fs.go and sandbox_proc_resolve.go).  proot may have to   *)
(* be extracted first (proot_provision.go).                                *)
(*                                                                         *)
(* Executables are known by their names, each with one path; scripts are   *)
(* sequences of segments, which are sequences of words.  The process of a  *)
(* RUN installs tools, adds a user, and starts others, in its process      *)
(* group or out of it.  The executor may be killed and started again.      *)
(***************************************************************************)
EXTENDS Naturals, Sequences, Functions

CONSTANTS
    Name,        \* names of executables
    Shell,       \* the name of /bin/sh
    Priority,    \* procSelfExePriority: 0 for a name that is not in it
    Alias,       \* procSelfExeAliases: a sequence of names for each name
    Assignment,  \* words of a script that assign a variable
    Prefix,      \* words before a command: env, exec, command
    Builtin,     \* isShellBuiltin
    Script,      \* RUN commands, [form, segments]
    User,        \* what USER may be set to
    Number,      \* the uids that numbers among them are
    HostPasswd,  \* kaniko's own /etc/passwd: the uids of its users
    BasePasswd,  \* that of the base image
    HomeIsSet,   \* the values of "ENV sets HOME"
    KernelFS,    \* sandboxKernelMounts: /proc, /sys, /dev
    BaseNames,   \* the executables of the base image
    None,        \* no value
    MaxRuns,     \* bound on the RUN commands of a build
    MaxStarts    \* bound on the executors started

IsList(s) == Len(s) \in Nat /\ DOMAIN s = 1 .. Len(s)

ASSUME RunAssumption ==
    /\ Shell \in BaseNames /\ BaseNames \subseteq Name /\ None \notin Name
    /\ Priority \in [Name -> {0} \cup 30 .. 100] /\ Alias \in [Name -> Seq(Name)]
    /\ \A c \in Script : /\ c.form \in {"exec", "sh -c", "sh -e -c"}
                         /\ IsList(c.segments) /\ Len(c.segments) > 0
                         /\ \A i \in DOMAIN c.segments : IsList(c.segments[i])
    /\ "root" \in DOMAIN HostPasswd /\ HostPasswd["root"] = 0 /\ None \notin Nat
    /\ DOMAIN Number \cap (DOMAIN BasePasswd \cup {"", "app"}) = {}
    /\ "proc" \in KernelFS
    /\ MaxRuns \in Nat /\ MaxStarts \in Nat

VARIABLES
    starts,      \* how many executors were started
    sandbox,     \* config.RootDir is not /
    proot,       \* where proot comes from: "found", "embedded", "broken", "none"
    mounted,     \* the kernel's file systems that are mounted in the sandbox
    SandboxProcSelfStub,
    procSelfExe, \* the link /proc/self/exe of the stub
    tmpFile,     \* writeProot's temporary file: "none", "partial" or "whole"
    prootFile,   \* the file proot at prootCachePath(), likewise
    names,       \* the executables in the image
    users,       \* the image's /etc/passwd: the uids of its users
    user, home,  \* config.User; ENV has set HOME
    runs,        \* RUN commands begun
    pc,          \* "off", "idle", a step of runCommandInExec, or "failed"
    cmd,         \* the RUN command under way
    via,         \* the state of the proot binary that is used, None without one
    proc,        \* what was started: its uid, what names and users were then, and
                 \* whether the stub was brought up to date; None if nothing was
    group,       \* processes in its group, other than itself
    stray        \* a process has left a group

vars == <<starts, sandbox, proot, mounted, SandboxProcSelfStub, procSelfExe, tmpFile,
          prootFile, names, users, user, home, runs, pc, cmd, via, proc, group, stray>>

machine == <<starts, sandbox, proot, mounted, SandboxProcSelfStub>>
image == <<names, users, user, home>>
files == <<tmpFile, prootFile>>

-----------------------------------------------------------------------------
(***************************************************************************)
(* newCommand[0]: a command in exec form, or the shell.                    *)
(***************************************************************************)
newCommand(c) == IF c.form = "exec" THEN c.segments[1][1] ELSE Shell

(***************************************************************************)
(* ResolveSandboxProcSelfExeTarget: what /proc/self/exe is to be.          *)
(***************************************************************************)

procSelfExeGenericScore == 10

Score(n) == IF Priority[n] = 0 THEN procSelfExeGenericScore ELSE Priority[n]

(***************************************************************************)
(* firstShellCommandWord: the first word that is no builtin, or none.      *)
(* Assignments are skipped at the beginning only, and the arguments of a   *)
(* builtin are words like others.                                          *)
(***************************************************************************)
firstShellCommandWord(segment) ==
    LET first == CHOOSE i \in 1 .. Len(segment) + 1 :
                   /\ i <= Len(segment) => segment[i] \notin Assignment
                   /\ \A k \in 1 .. i - 1 : segment[k] \in Assignment
        words == {i \in first .. Len(segment) : segment[i] \notin Prefix \cup Builtin}
    IN IF words = {} THEN None ELSE segment[CHOOSE i \in words : \A k \in words : i <= k]

(***************************************************************************)
(* The first of the best names at the places I of a sequence.              *)
(***************************************************************************)
FirstBest(s, I) ==
    s[CHOOSE i \in I : \A k \in I :
        Score(s[k]) < Score(s[i]) \/ (Score(s[k]) = Score(s[i]) /\ i <= k)]

(***************************************************************************)
(* bestProcSelfExeForWord: the word, or what it is known to call.          *)
(***************************************************************************)
bestProcSelfExeForWord(word, found) ==
    LET tries == <<word>> \o Alias[word]
        resolved == {i \in DOMAIN tries : tries[i] \in found \ Builtin}
    IN IF word \notin Name \/ resolved = {} THEN None ELSE FirstBest(tries, resolved)

bestForSegments(c, found) ==
    [i \in DOMAIN c.segments |->
        bestProcSelfExeForWord(firstShellCommandWord(c.segments[i]), found)]

(***************************************************************************)
(* lookPath: an executable is found in the image, not in kaniko's root.    *)
(***************************************************************************)
lookPath(word, found) == IF word \in found THEN word ELSE None

\* Mutant: any command of the script will do.
ResolveToAnyCommand(c, found) ==
    LET best == bestForSegments(c, found)
        resolved == {i \in DOMAIN best : best[i] # None}
    IN IF c.form # "sh -c" THEN lookPath(newCommand(c), found)
       ELSE IF resolved # {} THEN FirstBest(best, resolved)
       ELSE lookPath(Shell, found)

ResolveSandboxProcSelfExeTarget(c, found) ==
    LET best == bestForSegments(c, found)
        resolved == {i \in DOMAIN best : best[i] # None}
        recognized == {i \in resolved : Score(best[i]) > procSelfExeGenericScore}
        genericPaths == {best[i] : i \in resolved \ recognized}
    IN IF c.form # "sh -c" THEN lookPath(newCommand(c), found)
       ELSE IF recognized # {} THEN FirstBest(best, recognized)
       ELSE IF \E n \in genericPaths : genericPaths = {n} THEN CHOOSE n \in genericPaths : TRUE
       ELSE lookPath(Shell, found)

(***************************************************************************)
(* UpdateSandboxProcSelfStub: without a target the link stays as it is; if *)
(* it cannot be replaced, it stays or is removed, and that is only logged. *)
(***************************************************************************)
UpdateSandboxProcSelfStub(exe, ok) ==
    IF SandboxProcSelfStub /\ exe # None
    THEN procSelfExe' \in IF ok THEN {exe} ELSE {procSelfExe, None}
    ELSE ok /\ UNCHANGED procSelfExe

-----------------------------------------------------------------------------
(***************************************************************************)
(* Users.  LookupUser reads the /etc/passwd under /, which is the image's  *)
(* without a sandbox, and kaniko's own with one; a number needs no entry.  *)
(***************************************************************************)
passwd == IF sandbox THEN HostPasswd ELSE users

uidIn(table, u) ==
    IF u \in DOMAIN table THEN table[u] ELSE IF u \in DOMAIN Number THEN Number[u] ELSE None

LookupUser(u) == uidIn(passwd, u)

\* Mutant: HOME is left alone for a user it cannot find.
neverFails == FALSE

(***************************************************************************)
(* addDefaultHOME fails for a user it cannot find, unless HOME is set.     *)
(***************************************************************************)
addDefaultHOMEFails == ~home /\ user \notin {"", "root"} /\ LookupUser(user) = None

SyscallCredentials(u) == IF u = "" THEN 0 ELSE LookupUser(u)

(***************************************************************************)
(* prootUserSpec: a user who is not found runs as root.                    *)
(***************************************************************************)
prootUserSpec(u) ==
    IF u \in {"", "root"} \/ LookupUser(u) = None THEN 0 ELSE LookupUser(u)

-----------------------------------------------------------------------------
Init ==
    /\ starts = 0 /\ sandbox \in BOOLEAN
    /\ proot \in {"found", "embedded", "broken", "none"}
    /\ mounted = {} /\ SandboxProcSelfStub = FALSE
    /\ procSelfExe = None /\ tmpFile = "none" /\ prootFile = "none"
    /\ names = BaseNames /\ users = BasePasswd
    /\ user = "" /\ home \in HomeIsSet
    /\ runs = 0 /\ pc = "off" /\ cmd = None /\ via = None /\ proc = None
    /\ group = {} /\ stray = FALSE

(***************************************************************************)
(* Stubs of what is not mounted, /proc first; one that cannot be made is   *)
(* only logged.                                                            *)
(***************************************************************************)
SetupSandboxStubKernelFilesystems(M) ==
    SandboxProcSelfStub' \in IF sandbox /\ "proc" \notin M THEN BOOLEAN ELSE {FALSE}

(***************************************************************************)
(* An executor starts: the sandbox is wiped, mountSandboxKernelFilesystems *)
(* mounts what it can, and stubs are made of the rest.  Without a sandbox  *)
(* there is no other executor: the image is unpacked over the container's  *)
(* own files.                                                              *)
(***************************************************************************)
mountSandboxKernelFilesystems ==
    /\ pc = "off" /\ starts < MaxStarts /\ (sandbox \/ starts = 0)
    /\ starts' = starts + 1
    /\ \E M \in SUBSET KernelFS :
         /\ mounted' = IF sandbox THEN M ELSE KernelFS
         /\ SetupSandboxStubKernelFilesystems(M)
    /\ procSelfExe' = None
    /\ names' = BaseNames /\ users' = BasePasswd /\ user' = ""
    /\ runs' = 0 /\ pc' = "idle"
    /\ cmd' = None /\ via' = None /\ proc' = None
    /\ UNCHANGED <<sandbox, proot, home, files, group, stray>>

(***************************************************************************)
(* The executor ends or is killed; what it has extracted stays, and so do  *)
(* the processes of a RUN, which have a process group of their own.        *)
(***************************************************************************)
endExecutor ==
    /\ pc # "off" /\ pc' = "off"
    /\ stray' = (stray \/ pc = "running" \/ group # {})
    /\ group' = {}
    /\ UNCHANGED <<machine, procSelfExe, files, image, runs, cmd, via, proc>>

\* USER.
setUser(u) ==
    /\ pc = "idle" /\ user # u /\ user' = u
    /\ UNCHANGED <<machine, procSelfExe, files, names, users, home, runs, pc, cmd, via,
                   proc, group, stray>>

-----------------------------------------------------------------------------
(***************************************************************************)
(* runCommandInExec, up to the choice of proot.                            *)
(***************************************************************************)
runCommandInExec(c) ==
    /\ pc = "idle" /\ runs < MaxRuns
    /\ runs' = runs + 1
    /\ cmd' = c /\ via' = None /\ proc' = None
    /\ pc' = IF addDefaultHOMEFails THEN "failed" ELSE "proot"
    /\ UNCHANGED <<machine, procSelfExe, files, image, group, stray>>

SandboxKernelFSBindMounted == mounted = KernelFS

(***************************************************************************)
(* sandboxProotPath and provisionProot: a proot that is found or was       *)
(* extracted before is used as it is; a binary that is embedded is         *)
(* extracted if there is a directory to write to.                          *)
(***************************************************************************)
sandboxProotPath ==
    /\ pc = "proot"
    /\ \/ /\ ~sandbox \/ SandboxKernelFSBindMounted \/ (proot = "none" /\ prootFile = "none")
          /\ pc' = "start" /\ UNCHANGED via
       \/ /\ sandbox /\ ~SandboxKernelFSBindMounted
          /\ IF prootFile # "none" \/ proot = "found"
             THEN /\ via' = IF prootFile # "none" THEN prootFile ELSE "whole"
                  /\ pc' = "start"
             ELSE /\ proot # "none"
                  /\ pc' \in {"start", "extract"} /\ UNCHANGED via
    /\ UNCHANGED <<machine, procSelfExe, files, image, runs, cmd, proc, group, stray>>

\* Mutant: the binary is written where it is looked for.
writeProotInPlace ==
    \/ /\ pc = "extract" /\ prootFile = "none"
       /\ prootFile' = "partial" /\ UNCHANGED <<tmpFile, pc, via>>
    \/ /\ pc = "extract" /\ prootFile = "partial"
       /\ prootFile' = "whole" /\ via' = "whole" /\ pc' = "start" /\ UNCHANGED tmpFile

(***************************************************************************)
(* writeProot: to a temporary file, which is tried and then renamed; after *)
(* an error the RUN goes on without proot.  A temporary file that a killed *)
(* executor left has another name and is in nobody's way.                  *)
(***************************************************************************)
writeProot ==
    \/ /\ pc = "extract" /\ pc' = "write"
       /\ tmpFile' = "partial" /\ UNCHANGED <<prootFile, via>>
    \/ /\ pc = "write" /\ pc' = "verify"
       /\ tmpFile' = "whole" /\ UNCHANGED <<prootFile, via>>
    \/ /\ pc = "verify" /\ proot # "broken"
       /\ prootFile' = tmpFile /\ tmpFile' = "none"
       /\ via' = prootFile' /\ pc' = "start"
    \/ /\ pc \in {"extract", "write", "verify"}
       /\ tmpFile' = "none" /\ pc' = "start" /\ UNCHANGED <<prootFile, via>>

provisionProot ==
    /\ writeProot
    /\ UNCHANGED <<machine, procSelfExe, image, runs, cmd, proc, group, stray>>

(***************************************************************************)
(* The rest of runCommandInExec up to cmd.Start: the stub is brought up to *)
(* date and the credentials are looked up, unless proot is used; then the  *)
(* process is started, if its executable is there.                         *)
(***************************************************************************)
startCommand ==
    LET exe == ResolveSandboxProcSelfExeTarget(cmd, names)
        uid == IF via # None THEN prootUserSpec(user) ELSE SyscallCredentials(user)
    IN /\ pc = "start"
       /\ \E ok \in BOOLEAN :
            /\ IF sandbox /\ via = None THEN UpdateSandboxProcSelfStub(exe, ok)
               ELSE ok /\ UNCHANGED procSelfExe
            /\ \/ /\ uid # None /\ lookPath(newCommand(cmd), names) # None
                  /\ pc' = "running"
                  /\ proc' = [uid |-> uid, names |-> names, users |-> users, updated |-> ok]
               \/ /\ pc' = "failed" /\ UNCHANGED proc
       /\ UNCHANGED <<machine, files, image, runs, cmd, via, group, stray>>

-----------------------------------------------------------------------------
(***************************************************************************)
(* What processes do (external): the process of the RUN, one it started    *)
(* and left in its group, or one that has left the group.                  *)
(***************************************************************************)
Alive == pc = "running" \/ group # {} \/ stray

work ==
    /\ pc # "off" /\ Alive
    /\ \/ \E n \in Name \ names : names' = names \cup {n} /\ UNCHANGED users
       \/ /\ "app" \notin DOMAIN users /\ UNCHANGED names
          /\ users' = [u \in DOMAIN users \cup {"app"} |-> IF u = "app" THEN 1001 ELSE users[u]]
    /\ UNCHANGED <<machine, procSelfExe, files, user, home, runs, pc, cmd, via, proc, group, stray>>

fork ==
    /\ pc = "running"
    /\ \/ group = {} /\ group' = {runs} /\ UNCHANGED stray
       \/ ~stray /\ stray' = TRUE /\ UNCHANGED group
    /\ UNCHANGED <<machine, procSelfExe, files, image, runs, pc, cmd, via, proc>>

(***************************************************************************)
(* cmd.Wait: a command that fails ends the build, and its group goes on.   *)
(***************************************************************************)
waitCommand ==
    /\ pc = "running" /\ pc' \in {"kill", "failed"}
    /\ UNCHANGED <<machine, procSelfExe, files, image, runs, cmd, via, proc, group, stray>>

\* Mutant: the processes that were left are not killed.
killNothing ==
    /\ pc = "kill" /\ pc' = "idle"
    /\ UNCHANGED <<machine, procSelfExe, files, image, runs, cmd, via, proc, group, stray>>

\* (What SIGKILL is sent to is taken to be dead when kill returns.)
killGroup ==
    /\ pc = "kill"
    /\ \/ pc' = "idle" /\ group' = {}
       \/ pc' = "failed" /\ UNCHANGED group
    /\ UNCHANGED <<machine, procSelfExe, files, image, runs, cmd, via, proc, stray>>

Next ==
    \/ mountSandboxKernelFilesystems
    \/ endExecutor
    \/ \E u \in User : setUser(u)
    \/ \E c \in Script : runCommandInExec(c)
    \/ sandboxProotPath
    \/ provisionProot
    \/ startCommand
    \/ work
    \/ fork
    \/ waitCommand
    \/ killGroup

Spec == Init /\ [][Next]_vars

-----------------------------------------------------------------------------
(***************************************************************************)
(* Properties.                                                             *)
(***************************************************************************)

(***************************************************************************)
(* The state has its types; there is a stub of /proc/self/exe only where   *)
(* /proc is not mounted.                                                   *)
(***************************************************************************)
TypeOK ==
    /\ mounted \subseteq KernelFS /\ SandboxProcSelfStub \in BOOLEAN
    /\ procSelfExe \in Name \cup {None}
    /\ procSelfExe # None => sandbox /\ "proc" \notin mounted
    /\ tmpFile \in {"none", "partial", "whole"} /\ prootFile \in {"none", "partial", "whole"}
    /\ BaseNames \subseteq names /\ names \subseteq Name
    /\ pc \in {"off", "idle", "proot", "extract", "write", "verify", "start", "running",
               "kill", "failed"}
    /\ via \in {None, "partial", "whole"}

(***************************************************************************)
(* proot_provision.go: the binary is written "atomically, verifying that   *)
(* [it] runs ... before publishing it": whenever executors are killed,     *)
(* none runs a command through a part of proot, or through one that does   *)
(* not run on this machine.                                                *)
(***************************************************************************)
ProotIsWhole == via # None => via = "whole" /\ (proot = "broken" => prootFile = "none")

(***************************************************************************)
(* What a script calls, and the tools among it that look themselves up     *)
(* through /proc/self/exe, with those that others are known to call.       *)
(***************************************************************************)
Calls(c) ==
    {n \in Name : \E i \in DOMAIN c.segments : \E k \in DOMAIN c.segments[i] :
        /\ c.segments[i][k] = n
        /\ \A m \in 1 .. k - 1 : c.segments[i][m] \in Assignment \cup Prefix}

Reaches(c) == Calls(c) \cup UNION {Range(Alias[m]) : m \in Calls(c)}

Toolchain(c) == {n \in Reaches(c) : Priority[n] > 0}

OnStub == pc = "running" /\ sandbox /\ via = None /\ SandboxProcSelfStub /\ proc.updated

(***************************************************************************)
(* README, --sandbox: "before each RUN command the stub /proc/self/exe ... *)
(* [is] updated for the toolchain that needs [it]", "highest-priority      *)
(* compiler in script"; sandbox_proc_resolve.go: where none is installed   *)
(* yet, "we must NOT point the stub at an arbitrary unrelated binary".     *)
(* While a command runs over the stub, the link leads to the best tool of  *)
(* its own script that was there, or to the shell, never to what an        *)
(* earlier RUN needed and never to a bystander.  (Unless the link could    *)
(* not be replaced, which kaniko only logs.)                               *)
(***************************************************************************)
SelfExeServesToolchain ==
    OnStub /\ cmd.form = "sh -c" /\ Toolchain(cmd) # {} =>
        LET there == Toolchain(cmd) \cap proc.names
        IN IF there = {} THEN procSelfExe = Shell
           ELSE procSelfExe \in there /\ \A n \in there : Priority[n] <= Priority[procSelfExe]

(***************************************************************************)
(* The scripts for which it does, whatever is installed when they run: the *)
(* words before a command are read as the shell reads them (no assignment  *)
(* behind env, no executable's name behind a builtin), and a script that   *)
(* calls tools calls no other executable, or two of the base image, so     *)
(* that none of them is "the single resolvable command".                   *)
(***************************************************************************)
Readable(segment) ==
    \A m \in DOMAIN segment : \A k \in 1 .. m - 1 :
        (\A h \in 1 .. m - 1 : segment[h] \in Assignment \cup Prefix \cup Builtin) =>
            /\ segment[k] \in Prefix => segment[m] \notin Assignment
            /\ segment[k] \in Builtin => segment[m] \notin Name

Bystanders(c) == {n \in Reaches(c) : Priority[n] = 0}

ServedScripts(scripts) ==
    /\ Name \cap (Assignment \cup Prefix \cup Builtin) = {}
    /\ \A c \in scripts : c.form = "sh -c" /\ Toolchain(c) # {} =>
         /\ \A i \in DOMAIN c.segments : Readable(c.segments[i])
         /\ \/ Bystanders(c) = {}
            \/ \E m, n \in Calls(c) \cap Bystanders(c) \cap BaseNames : m # n

(***************************************************************************)
(* A command runs with the uid that USER has in the image, whether it is   *)
(* run under /, in a chroot or through proot (run.go: for proot USER is    *)
(* resolved "via the same credential lookup the native path uses"); a user *)
(* who is not found is an error, never root.  With --sandbox this is so    *)
(* only if kaniko's own passwd file, which is the one that is read, has no *)
(* other entry for the user than the image; where it has, the command runs *)
(* with the uid that the user has there.                                   *)
(***************************************************************************)
HostAgrees(u, table) ==
    u \in DOMAIN HostPasswd => u \in DOMAIN table /\ table[u] = HostPasswd[u]

RunsAsUser ==
    pc = "running" /\ (sandbox => HostAgrees(user, proc.users)) =>
        proc.uid = IF user = "" THEN 0 ELSE uidIn(proc.users, user)

(***************************************************************************)
(* After a RUN that succeeded nothing writes to the image but a process    *)
(* that has left its group: what the snapshot sees is what the RUN left.   *)
(***************************************************************************)
QuietAfterRun ==
    [][(pc = "idle" /\ ~stray => names' = names /\ users' = users)]_vars

=============================================================================
