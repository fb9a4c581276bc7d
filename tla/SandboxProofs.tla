---------------------------- MODULE SandboxProofs ----------------------------
(***************************************************************************)
(* Proofs about Sandbox, for any kernel file systems and any number of     *)
(* executors that follow each other.                                       *)
(***************************************************************************)
EXTENDS Sandbox, TLAPS

(***************************************************************************)
(* Wiping is over, or has not begun: nobody is in wipeSandboxContents.     *)
(***************************************************************************)
Idle == wipe = "unmount" /\ listed = {}

(***************************************************************************)
(* Who may be in wipeSandboxContents, and when there may be a handler.     *)
(***************************************************************************)
WiperInv ==
    /\ pc \in {"off", "setup.wipe", "setup.mount", "setup.install"} => once = "free" /\ handler = "none"
    /\ pc # "setup.wipe" /\ once \in {"free", "done"} => Idle
    /\ once = "main" => pc \in Outcomes
    /\ once = "handler" => handler = "received"
    /\ handler = "received" => signalled
    /\ once = "done" => signalled \/ pc \in Outcomes

(***************************************************************************)
(* While someone wipes, a mount that is left is one that could not be      *)
(* unmounted: mounts are made in the setup only, when there is no handler  *)
(* yet.  Once the setup has wiped, all mounts are its own.                 *)
(***************************************************************************)
MountInv ==
    /\ wipe # "unmount" => mounts = {} \/ run \in stuck
    /\ host \/ stuck # {}
    /\ pc \notin {"off", "setup.wipe"} => \A m \in mounts : m[2] = run

(***************************************************************************)
(* What was read is all there is, unless the handler wipes under a build;  *)
(* after the first wipe there are files of this executor only.             *)
(***************************************************************************)
ContentsInv ==
    /\ listed \subseteq contents
    /\ wipe = "remove" /\ once # "handler" => listed = contents
    /\ pc # "off" => run # 0
    /\ pc \notin {"off", "setup.wipe"} => contents \subseteq {run}
    /\ once = "done" /\ ~signalled /\ run \notin stuck \cup kept => contents = {} /\ mounts = {}

IInv == TypeOK /\ WiperInv /\ MountInv /\ ContentsInv /\ LeavesNothing

(***************************************************************************)
(* The strengthened invariant holds at the start.                          *)
(***************************************************************************)
LEMMA InitIInv == Init => IInv
<1>. SUFFICES ASSUME Init PROVE IInv
  OBVIOUS
<1>1. run \in 0 .. MaxRuns
  BY SandboxAssumption DEF Init
<1>2. TypeOK
  BY <1>1 DEF Init, TypeOK, Outcomes
<1>3. host /\ ~signalled
  BY Zenon DEF Init
<1>. QED
  BY <1>2, <1>3
     DEF Init, IInv, WiperInv, MountInv, ContentsInv, LeavesNothing, Idle, Outcomes

(***************************************************************************)
(* The end of a process, by any way that is not a normal end.              *)
(***************************************************************************)
LEMMA EndIInv ==
    ASSUME IInv, NEW how \in {"setup", "flags", "signal", "handled", "killed"}, End(how)
    PROVE  IInv'
BY DEF End, IInv, TypeOK, WiperInv, MountInv, ContentsInv, LeavesNothing, Idle, Outcomes

(***************************************************************************)
(* The steps of wipeSandboxContents but the last.                          *)
(***************************************************************************)
LEMMA WipeGoesOn ==
    ASSUME IInv, wipeGoesOn, run # 0, run' = run
    PROVE  /\ wipe' \in {"read", "remove"}
           /\ mounts' \subseteq mounts /\ contents' = contents /\ host' = host /\ kept' = kept
           /\ stuck \subseteq stuck' /\ stuck' \subseteq 1 .. run
           /\ mounts' = {} \/ run \in stuck'
           /\ listed' \subseteq 1 .. run /\ listed' \subseteq contents'
           /\ wipe' = "remove" => listed' = contents'
<1>1. run \in 1 .. run
  BY SandboxAssumption DEF IInv, TypeOK
<1>2. CASE /\ wipe = "unmount" /\ wipe' = "read"
           /\ unmountSandboxMounts
           /\ UNCHANGED <<listed, contents, host, kept>>
  BY <1>1, <1>2 DEF unmountSandboxMounts, IInv, TypeOK, ContentsInv
<1>3. CASE /\ wipe = "read" /\ wipe' = "remove"
           /\ listed' = contents
           /\ UNCHANGED sandboxVars
  BY <1>3 DEF sandboxVars, IInv, TypeOK, MountInv
<1> QED
  BY <1>2, <1>3 DEF wipeGoesOn

(***************************************************************************)
(* The last step of wipeSandboxContents: without an error nothing of what  *)
(* was read is left, and no mount.                                         *)
(***************************************************************************)
LEMMA WipeReturns ==
    ASSUME IInv, NEW err \in BOOLEAN, wipeReturns(err), run # 0, run' = run
    PROVE  /\ wipe' = "unmount" /\ listed' = {} /\ mounts' = mounts /\ stuck' = stuck
           /\ contents' \subseteq contents
           /\ host' \/ stuck' # {}
           /\ kept \subseteq kept' /\ kept' \subseteq 1 .. run
           /\ err => run \in kept'
           /\ ~err => mounts = {} /\ (once # "handler" => contents' = {})
<1>1. run \in 1 .. run
  BY SandboxAssumption DEF IInv, TypeOK
<1>2. wipe' = "unmount" /\ listed' = {} /\ UNCHANGED <<mounts, stuck>>
  BY DEF wipeReturns
<1>3. CASE /\ wipe = "read" /\ err
           /\ kept' = kept \cup {run}
           /\ UNCHANGED <<contents, host>>
  BY <1>1, <1>2, <1>3 DEF IInv, TypeOK, MountInv
<1>4. CASE /\ wipe = "remove"
           /\ \E left \in SUBSET listed :
                /\ err = (left # {} \/ mounts # {})
                /\ contents' = (contents \ listed) \cup left
           /\ kept' = IF err THEN kept \cup {run} ELSE kept
           /\ host' = (host /\ mounts = {})
  <2>1. host' \/ stuck' # {}
    <3>1. CASE mounts = {}
      BY <1>2, <1>4, <3>1 DEF IInv, MountInv
    <3>2. CASE mounts # {}
      BY <1>2, <1>4, <3>2 DEF IInv, MountInv
    <3> QED
      BY <3>1, <3>2
  <2>2. PICK left \in SUBSET listed :
           err = (left # {} \/ mounts # {}) /\ contents' = (contents \ listed) \cup left
    BY <1>4
  <2>4. contents' \subseteq contents
    BY <2>2 DEF IInv, ContentsInv
  <2> QED
    BY <1>1, <1>2, <1>4, <2>1, <2>2, <2>4 DEF IInv, TypeOK, ContentsInv
<1> QED
  BY <1>3, <1>4 DEF wipeReturns

(***************************************************************************)
(* Setting up: wiping, mounting, installing the handler.                   *)
(***************************************************************************)
LEMMA SetupIInv ==
    ASSUME IInv, \/ start
                 \/ setupWipe
                 \/ \E k \in KernelFS : mountKernelFS(k)
                 \/ setupSandboxRuntimeFiles
                 \/ installSandboxCleanup
                 \/ checkFlags
    PROVE  IInv'
<1>1. CASE start
  <2>1. run' \in 0 .. MaxRuns /\ run' # 0 /\ 1 .. run \subseteq 1 .. run'
    BY <1>1, SandboxAssumption DEF start, IInv, TypeOK
  <2>2. UNCHANGED <<mode, handler, once, wipe, listed, mounts, contents, host, stuck, kept, ended>>
    BY <1>1 DEF start, sandboxVars
  <2>3. /\ contents' \subseteq 1 .. run' /\ listed' \subseteq 1 .. run'
        /\ stuck' \subseteq 1 .. run' /\ kept' \subseteq 1 .. run'
        /\ mounts' \subseteq KernelFS \X (1 .. run')
    BY <2>1, <2>2 DEF IInv, TypeOK
  <2>. QED
    BY <1>1, <2>1, <2>2, <2>3
       DEF start, IInv, TypeOK, WiperInv, MountInv, ContentsInv, LeavesNothing, Idle, Outcomes
<1>2. CASE setupWipe
  <2>0. run # 0 /\ UNCHANGED <<run, mode, handler, once, signalled>> /\ pc = "setup.wipe"
    BY <1>2 DEF setupWipe, IInv, ContentsInv
  <2>1. CASE wipeGoesOn /\ UNCHANGED <<pc, toMount, ended>>
    <3>1. TypeOK'
      BY <2>0, <2>1, WipeGoesOn, ZenonT(30) DEF IInv, TypeOK, Outcomes
    <3>2. WiperInv'
      BY <2>0, <2>1 DEF IInv, WiperInv, Outcomes
    <3>3. MountInv'
      BY <2>0, <2>1, WipeGoesOn DEF IInv, MountInv
    <3>4. ContentsInv'
      BY <2>0, <2>1, WipeGoesOn DEF IInv, WiperInv, ContentsInv
    <3> QED
      BY <2>0, <2>1, <3>1, <3>2, <3>3, <3>4 DEF IInv, LeavesNothing
  <2>2. CASE wipeReturns(FALSE) /\ pc' = "setup.mount" /\ UNCHANGED <<toMount, ended>>
    <3>1. TypeOK'
      BY <2>0, <2>2, WipeReturns, ZenonT(30) DEF IInv, TypeOK, Outcomes
    <3>2. once = "free"
      BY <2>0 DEF IInv, WiperInv
    <3> QED
      BY <2>0, <2>2, <3>1, <3>2, WipeReturns
         DEF IInv, WiperInv, MountInv, ContentsInv, LeavesNothing, Idle, Outcomes
  <2>3. CASE wipeReturns(TRUE) /\ pc' = "off" /\ toMount' = {} /\ ended' = "setup"
    <3>1. TypeOK'
      BY <2>0, <2>3, WipeReturns DEF IInv, TypeOK, Outcomes
    <3>2. once = "free"
      BY <2>0 DEF IInv, WiperInv
    <3> QED
      BY <2>0, <2>3, <3>1, <3>2, WipeReturns
         DEF IInv, WiperInv, MountInv, ContentsInv, LeavesNothing, Idle, Outcomes
  <2> QED
    BY <1>2, <2>1, <2>2, <2>3 DEF setupWipe
<1>3. ASSUME NEW k \in KernelFS, mountKernelFS(k) PROVE IInv'
  BY <1>3
     DEF mountKernelFS, IInv, TypeOK, WiperInv, MountInv, ContentsInv, LeavesNothing, Idle, Outcomes
<1>4. CASE setupSandboxRuntimeFiles
  BY <1>4
     DEF setupSandboxRuntimeFiles, IInv, TypeOK, WiperInv, MountInv, ContentsInv, LeavesNothing,
         Idle, Outcomes
<1>5. CASE installSandboxCleanup
  BY <1>5
     DEF installSandboxCleanup, sandboxVars, IInv, TypeOK, WiperInv, MountInv, ContentsInv, LeavesNothing,
         Idle, Outcomes
<1>6. CASE checkFlags
  BY <1>6
     DEF checkFlags, sandboxVars, IInv, TypeOK, WiperInv, MountInv, ContentsInv, LeavesNothing, Idle, Outcomes
<1>. QED
  BY <1>1, <1>2, <1>3, <1>4, <1>5, <1>6

(***************************************************************************)
(* Tearing down, by the main goroutine or by the handler.                  *)
(***************************************************************************)
LEMMA WipeOnceIInv ==
    ASSUME IInv, NEW who \in {"main", "handler"}, wipeOnce(who)
    PROVE  IInv'
<1>0. /\ once = who /\ UNCHANGED <<run, mode, pc, handler, toMount, signalled, ended>>
      /\ pc \notin {"off", "setup.wipe", "setup.mount", "setup.install"} /\ run # 0
      /\ who = "handler" => signalled
  BY DEF wipeOnce, IInv, WiperInv, ContentsInv
<1>1. CASE wipeGoesOn /\ UNCHANGED once
  <2>0. once' \in {"free", "main", "handler", "done"} /\ once' # "done"
    BY <1>0, <1>1
  <2>1. TypeOK'
    BY <1>0, <2>0, <1>1, WipeGoesOn, ZenonT(30) DEF IInv, TypeOK, Outcomes
  <2>2. WiperInv'
    BY <1>0, <1>1 DEF IInv, WiperInv, Idle, Outcomes
  <2>3. MountInv'
    BY <1>0, <1>1, WipeGoesOn DEF IInv, MountInv
  <2>4. ContentsInv'
    BY <1>0, <2>0, <1>1, WipeGoesOn DEF IInv, ContentsInv
  <2> QED
    BY <1>0, <2>1, <2>2, <2>3, <2>4 DEF IInv, LeavesNothing
<1>2. ASSUME NEW err \in BOOLEAN, wipeReturns(err), once' = "done" PROVE IInv'
  <2>1. TypeOK'
    BY <1>0, <1>2, WipeReturns, ZenonT(30) DEF IInv, TypeOK, Outcomes
  <2>2. WiperInv'
    BY <1>0, <1>2, WipeReturns DEF IInv, WiperInv, Idle, Outcomes
  <2>3. MountInv'
    BY <1>0, <1>2, WipeReturns DEF IInv, MountInv
  <2>4. ContentsInv'
    BY <1>0, <1>2, WipeReturns DEF IInv, ContentsInv
  <2> QED
    BY <1>0, <2>1, <2>2, <2>3, <2>4 DEF IInv, LeavesNothing
<1> QED
  BY <1>1, <1>2 DEF wipeOnce

(***************************************************************************)
(* Building, and the end of a build with its teardown.                     *)
(***************************************************************************)
LEMMA BuildIInv ==
    ASSUME IInv, \/ buildWrites
                 \/ \E how \in Outcomes : buildEnds(how)
                 \/ mainTeardown
                 \/ exit
    PROVE  IInv'
<1>1. CASE buildWrites
  <2>1. contents' \subseteq 1 .. run'
    BY <1>1 DEF buildWrites, IInv, TypeOK, ContentsInv
  <2>2. TypeOK'
    BY <1>1, <2>1 DEF buildWrites, IInv, TypeOK, Outcomes
  <2>3. once = "handler" \/ Idle
    BY <1>1 DEF buildWrites, IInv, TypeOK, WiperInv, Outcomes
  <2>4. ContentsInv'
    BY <1>1, <2>3 DEF buildWrites, IInv, WiperInv, ContentsInv, Idle, Outcomes
  <2>. QED
    BY <1>1, <2>2, <2>4 DEF buildWrites, IInv, WiperInv, MountInv, LeavesNothing, Idle, Outcomes
<1>2. ASSUME NEW how \in Outcomes, buildEnds(how) PROVE IInv'
  BY <1>2
     DEF buildEnds, sandboxVars, IInv, TypeOK, WiperInv, MountInv, ContentsInv, LeavesNothing, Idle, Outcomes
<1>3. CASE pc \in Outcomes /\ enterOnce("main")
  BY <1>3
     DEF enterOnce, sandboxVars, IInv, TypeOK, WiperInv, MountInv, ContentsInv, LeavesNothing, Idle, Outcomes
<1>4. CASE pc \in Outcomes /\ wipeOnce("main")
  BY <1>4, WipeOnceIInv
<1>5. CASE exit
  BY <1>5
     DEF exit, End, IInv, TypeOK, WiperInv, MountInv, ContentsInv, LeavesNothing, Idle, Outcomes
<1>. QED
  BY <1>1, <1>2, <1>3, <1>4, <1>5 DEF mainTeardown

(***************************************************************************)
(* Signals.                                                                *)
(***************************************************************************)
LEMMA SignalIInv ==
    ASSUME IInv, signal \/ Handler
    PROVE  IInv'
<1>1. CASE signal /\ handler = "none"
  BY <1>1, EndIInv DEF signal
<1>2. CASE signal /\ handler # "none"
  <2>1. /\ pc # "off" /\ signalled' = TRUE /\ handler' = "received"
        /\ UNCHANGED <<run, mode, pc, once, wipe, listed, toMount, mounts, contents, host, stuck, kept, ended>>
    BY <1>2 DEF signal, sandboxVars
  <2>2. TypeOK'
    BY <2>1 DEF IInv, TypeOK, Outcomes
  <2>3. WiperInv'
    BY <1>2, <2>1 DEF IInv, WiperInv, Idle, Outcomes
  <2>4. MountInv'
    BY <2>1 DEF IInv, MountInv
  <2>5. ContentsInv'
    BY <2>1 DEF IInv, ContentsInv
  <2> QED
    BY <2>1, <2>2, <2>3, <2>4, <2>5 DEF IInv, LeavesNothing
<1>3. CASE handler = "received" /\ enterOnce("handler")
  BY <1>3
     DEF enterOnce, sandboxVars, IInv, TypeOK, WiperInv, MountInv, ContentsInv, LeavesNothing, Idle, Outcomes
<1>4. CASE handler = "received" /\ wipeOnce("handler")
  BY <1>4, WipeOnceIInv
<1>5. CASE raiseAgain
  BY <1>5, EndIInv DEF raiseAgain
<1>. QED
  BY <1>1, <1>2, <1>3, <1>4, <1>5 DEF Handler, handlerTeardown

(***************************************************************************)
(* The invariant is inductive.                                             *)
(***************************************************************************)
LEMMA NextIInv == IInv /\ [Next]_vars => IInv'
<1>. SUFFICES ASSUME IInv, [Next]_vars PROVE IInv'
  OBVIOUS
<1>1. CASE flagsInvalid \/ kill
  BY <1>1, EndIInv DEF flagsInvalid, kill
<1>2. CASE UNCHANGED vars
  BY <1>2
     DEF vars, sandboxVars, IInv, TypeOK, WiperInv, MountInv, ContentsInv, LeavesNothing, Idle, Outcomes
<1>. QED
  BY <1>1, <1>2, SetupIInv, BuildIInv, SignalIInv DEF Next, Main

(***************************************************************************)
(* Executors with --sandbox never remove the host's files through a bind   *)
(* mount that unmountSandboxMounts could unmount, wherever they and those  *)
(* before them were killed, cancelled or failed, and whether the main      *)
(* goroutine or the signal handler wipes.                                  *)
(***************************************************************************)
THEOREM HostStaysUntouched == Spec => []HostIsUntouched
<1>1. IInv => HostIsUntouched
  BY DEF IInv, MountInv, HostIsUntouched
<1>. QED
  BY InitIInv, NextIInv, <1>1, PTL DEF Spec

(***************************************************************************)
(* A build in the sandbox starts with the files and the mounts of its own  *)
(* setup only, whatever could not be unmounted or removed.                 *)
(***************************************************************************)
THEOREM BuildsStartFresh == Spec => []BuildStartsFresh
<1>1. IInv => BuildStartsFresh
  BY DEF IInv, MountInv, ContentsInv, BuildStartsFresh
<1>. QED
  BY InitIInv, NextIInv, <1>1, PTL DEF Spec

(***************************************************************************)
(* An executor that comes to the end of its build, with success or not,    *)
(* and is not sent a signal, leaves neither files nor mounts but what      *)
(* could not be removed or unmounted.                                      *)
(***************************************************************************)
THEOREM ExitsLeaveNothing == Spec => []LeavesNothing
<1>1. IInv => LeavesNothing
  BY DEF IInv
<1>. QED
  BY InitIInv, NextIInv, <1>1, PTL DEF Spec

=============================================================================
