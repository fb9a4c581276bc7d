------------------------------- MODULE Sandbox -------------------------------
(***************************************************************************)
(* cmd/executor/cmd/root.go with --sandbox: the directory /kaniko/sandbox, *)
(* its bind mounts of the host's /proc, /sys and /dev, and how executors   *)
(* that follow each other in one container set it up and tear it down,     *)
(* killed or cancelled at any point.                                       *)
(*                                                                         *)
(* An executor is its main goroutine and, once it is installed, the        *)
(* goroutine that handles SIGINT and SIGTERM.  What lies in the sandbox is *)
(* known by the run that put it there.  Unmounting, reading the directory  *)
(* and removing files may each fail.  The files of the mounts themselves   *)
(* and the stubs that replace missing mounts are left out.                 *)
(***************************************************************************)
EXTENDS Naturals

CONSTANTS
    KernelFS,   \* sandboxKernelMounts: /proc, /sys, /dev
    MaxRuns     \* bound on the executors started

ASSUME SandboxAssumption == MaxRuns \in Nat

VARIABLES
    run,         \* how many executors were started
    mode,        \* "caps", "userns" or "none": what the container allows
    pc,          \* the main goroutine; "off" when no executor runs
    handler,     \* the signal goroutine: "none", "waiting", or its step
    once,        \* sandboxTeardownOnce: "free", "main", "handler" or "done"
    wipe,        \* the next step of wipeSandboxContents
    listed,      \* the entries wipeSandboxContents has read
    toMount,     \* mounts that setup has still to try
    mounts,      \* mounts under the sandbox: file system, run that mounted it
    contents,    \* the runs whose files are in the sandbox
    host,        \* the host's /proc, /sys, /dev are as they were
    stuck,       \* history: the runs in which a mount could not be unmounted
    kept,        \* history: the runs in which an entry could not be removed
    signalled,   \* a signal was sent to this executor
    ended        \* how the last executor ended

sandboxVars == <<mounts, contents, host, stuck, kept>>

vars == <<run, mode, pc, handler, once, wipe, listed, toMount, sandboxVars, signalled, ended>>

-----------------------------------------------------------------------------
Init ==
    /\ run = 0
    /\ mode \in {"caps", "userns", "none"}
    /\ pc = "off"
    /\ handler = "none"
    /\ once = "free"
    /\ wipe = "unmount"
    /\ listed = {}
    /\ toMount = {}
    /\ mounts = {}
    /\ contents = {}
    /\ host = TRUE
    /\ stuck = {}
    /\ kept = {}
    /\ signalled = FALSE
    /\ ended = "none"

(***************************************************************************)
(* The process is gone, with its goroutines and, in a mount namespace of   *)
(* its own, its mounts.                                                    *)
(***************************************************************************)
End(how) ==
    /\ pc' = "off"
    /\ handler' = "none"
    /\ once' = "free"
    /\ wipe' = "unmount"
    /\ listed' = {}
    /\ toMount' = {}
    /\ mounts' = IF mode = "userns" THEN {} ELSE mounts
    /\ ended' = how
    /\ UNCHANGED <<run, mode, contents, host, stuck, kept, signalled>>

(***************************************************************************)
(* An executor starts.  Without CAP_SYS_ADMIN ("caps") it runs again in a  *)
(* user and mount namespace, if there is a strategy that works ("userns"); *)
(* the parent only waits for it, and passes signals on.                    *)
(***************************************************************************)
start ==
    /\ pc = "off" /\ run < MaxRuns
    /\ run' = run + 1
    /\ pc' = "setup.wipe"
    /\ signalled' = FALSE
    /\ toMount' = KernelFS
    /\ UNCHANGED <<mode, handler, once, wipe, listed, sandboxVars, ended>>

(***************************************************************************)
(* unmountSandboxMounts.  That mountinfo cannot be read, or a mount not be *)
(* unmounted, is logged and no more.                                       *)
(***************************************************************************)

\* Mutant: the mounts are left to the kernel.
unmountNothing == UNCHANGED <<mounts, stuck>>

unmountSandboxMounts ==
    \E left \in SUBSET mounts :
        /\ mounts' = left
        /\ stuck' = IF left = {} THEN stuck ELSE stuck \cup {run}

(***************************************************************************)
(* wipeSandboxContents: unmount, read the directory, remove what was read. *)
(* wipeGoesOn has its steps but the last, wipeReturns(err) the last.  What *)
(* is mounted still is removed through its mount point, which itself is    *)
(* busy and makes RemoveAll fail.                                          *)
(***************************************************************************)
wipeGoesOn ==
    \/ /\ wipe = "unmount" /\ wipe' = "read"
       /\ unmountSandboxMounts
       /\ UNCHANGED <<listed, contents, host, kept>>
    \/ /\ wipe = "read" /\ wipe' = "remove"
       /\ listed' = contents
       /\ UNCHANGED sandboxVars

\* Mutant: what cannot be removed is no error.
wipeReturnsNil(err) ==
    /\ wipe = "remove" /\ ~err
    /\ \E left \in SUBSET listed :
         /\ contents' = (contents \ listed) \cup left
         /\ kept' = IF left = {} /\ mounts = {} THEN kept ELSE kept \cup {run}
    /\ host' = (host /\ mounts = {})
    /\ wipe' = "unmount" /\ listed' = {}
    /\ UNCHANGED <<mounts, stuck>>

wipeReturns(err) ==
    /\ \/ /\ wipe = "read" /\ err
          /\ kept' = kept \cup {run}
          /\ UNCHANGED <<contents, host>>
       \/ /\ wipe = "remove"
          /\ \E left \in SUBSET listed :
               /\ err = (left # {} \/ mounts # {})
               /\ contents' = (contents \ listed) \cup left
          /\ kept' = IF err THEN kept \cup {run} ELSE kept
          /\ host' = (host /\ mounts = {})
    /\ wipe' = "unmount" /\ listed' = {}
    /\ UNCHANGED <<mounts, stuck>>

(***************************************************************************)
(* setupSandbox up to the mounts; "resetting sandbox" may fail, and then   *)
(* PersistentPreRunE does, and main exits.                                 *)
(***************************************************************************)
setupWipe ==
    /\ pc = "setup.wipe"
    /\ \/ wipeGoesOn /\ UNCHANGED <<pc, toMount, ended>>
       \/ wipeReturns(FALSE) /\ pc' = "setup.mount" /\ UNCHANGED <<toMount, ended>>
       \/ wipeReturns(TRUE) /\ pc' = "off" /\ toMount' = {} /\ ended' = "setup"
    /\ UNCHANGED <<run, mode, handler, once, signalled>>

(***************************************************************************)
(* mountSandboxKernelFilesystems: a mount that fails is skipped.  The      *)
(* target directory is made in any case.                                   *)
(***************************************************************************)
mountKernelFS(k) ==
    /\ pc = "setup.mount" /\ k \in toMount
    /\ toMount' = toMount \ {k}
    /\ contents' = contents \cup {run}
    /\ \/ mode # "none" /\ mounts' = mounts \cup {<<k, run>>}
       \/ UNCHANGED mounts
    /\ UNCHANGED <<run, mode, pc, handler, once, wipe, listed, host, stuck, kept, signalled, ended>>

setupSandboxRuntimeFiles ==
    /\ pc = "setup.mount" /\ toMount = {}
    /\ contents' = contents \cup {run}
    /\ pc' = "setup.install"
    /\ UNCHANGED <<run, mode, handler, once, wipe, listed, toMount, mounts, host, stuck, kept, signalled, ended>>

\* The sandbox is active; signals are handled from here on.
installSandboxCleanup ==
    /\ pc = "setup.install"
    /\ handler' = "waiting"
    /\ pc' = "flags"
    /\ UNCHANGED <<run, mode, once, wipe, listed, toMount, sandboxVars, signalled, ended>>

(***************************************************************************)
(* The rest of PersistentPreRunE: flags and the build context are checked; *)
(* an error goes back to main, which exits.                                *)
(***************************************************************************)
checkFlags ==
    /\ pc = "flags"
    /\ pc' = "build"
    /\ UNCHANGED <<run, mode, handler, once, wipe, listed, toMount, sandboxVars, signalled, ended>>

flagsInvalid == pc = "flags" /\ End("flags")

\* Building puts files into the sandbox.
buildWrites ==
    /\ pc = "build"
    /\ contents' = contents \cup {run}
    /\ UNCHANGED <<run, mode, pc, handler, once, wipe, listed, toMount, mounts, host, stuck, kept, signalled, ended>>

\* The image is pushed, or exit(err).
buildEnds(how) ==
    /\ pc = "build"
    /\ pc' = how
    /\ UNCHANGED <<run, mode, handler, once, wipe, listed, toMount, sandboxVars, signalled, ended>>

-----------------------------------------------------------------------------
(***************************************************************************)
(* teardownSandboxIfActive, by the main goroutine ("main") or the handler: *)
(* one of them wipes, the other waits for it.  "cleanup incomplete" is     *)
(* logged and no more.                                                     *)
(***************************************************************************)
enterOnce(who) ==
    /\ once = "free" /\ once' = who
    /\ UNCHANGED <<run, mode, pc, handler, wipe, listed, toMount, sandboxVars, signalled, ended>>

wipeOnce(who) ==
    /\ once = who
    /\ \/ wipeGoesOn /\ UNCHANGED once
       \/ \E err \in BOOLEAN : wipeReturns(err) /\ once' = "done"
    /\ UNCHANGED <<run, mode, pc, handler, toMount, signalled, ended>>

Outcomes == {"success", "failure"}

\* Mutant: the failure of a build does not tear down.
mainTeardownOnSuccess ==
    \/ pc = "success" /\ (enterOnce("main") \/ wipeOnce("main"))
    \/ /\ pc = "failure" /\ once = "free" /\ once' = "done"
       /\ UNCHANGED <<run, mode, pc, handler, wipe, listed, toMount, sandboxVars, signalled, ended>>

mainTeardown == pc \in Outcomes /\ (enterOnce("main") \/ wipeOnce("main"))

exit == pc \in Outcomes /\ once = "done" /\ End(pc)

(***************************************************************************)
(* SIGINT or SIGTERM: before the handler is installed the process dies.    *)
(***************************************************************************)
signal ==
    /\ pc # "off" /\ ~signalled
    /\ IF handler = "none"
       THEN End("signal")
       ELSE /\ signalled' = TRUE
            /\ handler' = "received"
            /\ UNCHANGED <<run, mode, pc, once, wipe, listed, toMount, sandboxVars, ended>>

handlerTeardown == handler = "received" /\ (enterOnce("handler") \/ wipeOnce("handler"))

\* Mutant: the handler leaves the process to itself.
raiseNothing ==
    /\ handler = "received" /\ once = "done"
    /\ handler' = "waiting"
    /\ UNCHANGED <<run, mode, pc, once, wipe, listed, toMount, sandboxVars, signalled, ended>>

raiseAgain == handler = "received" /\ once = "done" /\ End("handled")

\* SIGKILL, or out of memory.
kill == pc # "off" /\ End("killed")

Main ==
    \/ setupWipe
    \/ \E k \in KernelFS : mountKernelFS(k)
    \/ setupSandboxRuntimeFiles
    \/ installSandboxCleanup
    \/ checkFlags
    \/ flagsInvalid
    \/ buildWrites
    \/ \E how \in Outcomes : buildEnds(how)
    \/ mainTeardown
    \/ exit

Handler == handlerTeardown \/ raiseAgain

Next ==
    \/ start
    \/ Main
    \/ Handler
    \/ signal
    \/ kill

\* The handler runs; the build may hang.
Spec == Init /\ [][Next]_vars /\ WF_vars(Handler) /\ WF_vars(mainTeardown \/ exit)

-----------------------------------------------------------------------------
(***************************************************************************)
(* Properties.                                                             *)
(***************************************************************************)

(***************************************************************************)
(* The state has its types; a build starts when all mounts were tried.     *)
(***************************************************************************)
TypeOK ==
    /\ run \in 0 .. MaxRuns
    /\ mode \in {"caps", "userns", "none"}
    /\ pc \in {"off", "flags", "build"} \cup Outcomes
              \cup {"setup.wipe", "setup.mount", "setup.install"}
    /\ handler \in {"none", "waiting", "received"}
    /\ once \in {"free", "main", "handler", "done"}
    /\ wipe \in {"unmount", "read", "remove"}
    /\ mounts \subseteq KernelFS \X (1 .. run) /\ toMount \subseteq KernelFS
    /\ pc \notin {"off", "setup.wipe", "setup.mount"} => toMount = {}
    /\ ended \in {"none", "setup", "flags", "signal", "handled", "killed"} \cup Outcomes
    /\ contents \subseteq 1 .. run /\ listed \subseteq 1 .. run
    /\ stuck \subseteq 1 .. run /\ kept \subseteq 1 .. run
    /\ signalled \in BOOLEAN

(***************************************************************************)
(* README, --sandbox: "build steps do not delete or overwrite files from   *)
(* the original root filesystem".  Wiping goes through a bind mount into   *)
(* the host's /dev, /proc or /sys only if the kernel did not unmount it    *)
(* when unmountSandboxMounts asked for it, which is logged and no more;    *)
(* never because of who made the mount, when the executor that made it was *)
(* killed, or who else is wiping.                                          *)
(***************************************************************************)
HostIsUntouched == host \/ stuck # {}

(***************************************************************************)
(* README: the sandbox is "wiped at the start": whatever executors before  *)
(* it left behind, and whatever cannot be unmounted or removed, a build    *)
(* starts only with the files and the mounts of its own setup.             *)
(***************************************************************************)
BuildStartsFresh ==
    pc \in {"flags", "build"} =>
        contents \subseteq {run} /\ \A m \in mounts : m[2] = run

(***************************************************************************)
(* README: the sandbox is "wiped at the start and end of every kaniko      *)
(* invocation (including after a successful build/push and on failure or   *)
(* SIGINT/SIGTERM)".  This is what holds of it: an executor that comes to  *)
(* the end of its build, with success or not, and is not sent a signal,    *)
(* leaves no file and no mount unless one could not be removed or          *)
(* unmounted.  It is not so of one that ends before it builds (its flags   *)
(* or its setup are in error), nor on a signal, which may come before      *)
(* there is a handler, or have the handler wipe while the build writes.    *)
(***************************************************************************)
LeavesNothing ==
    pc = "off" /\ ended \in Outcomes /\ ~signalled /\ run \notin stuck \cup kept =>
        contents = {} /\ mounts = {}

(***************************************************************************)
(* An executor that handles a signal ends, even if it is just tearing down *)
(* the sandbox by itself: neither waits for the other forever.             *)
(***************************************************************************)
SignalEndsIt == signalled ~> pc = "off"

=============================================================================
