-------------------------- MODULE RunCommandProofs --------------------------
(***************************************************************************)
(* Proofs about RunCommand, for any executables, scripts, users and kernel *)
(* file systems, and any number of RUN commands and executors: proot is    *)
(* whole, commands run as their user, nothing writes after a RUN, and      *)
(* /proc/self/exe serves the tools of scripts that kaniko reads as the     *)
(* shell does (ServedScripts).                                             *)
(***************************************************************************)
EXTENDS RunCommand, SequenceTheorems, WellFoundedInduction, TLAPS

(***************************************************************************)
(* The proot binary.  What is found at prootCachePath() is whole and was   *)
(* tried on this machine, since only a temporary file that is whole gets   *)
(* there; so is the binary that is used.                                   *)
(***************************************************************************)
ProotInv ==
    /\ prootFile \in {"none", "whole"}
    /\ proot = "broken" => prootFile = "none"
    /\ pc = "verify" => tmpFile = "whole"
    /\ via \in {None, "whole"}

(***************************************************************************)
(* The user.  proot is used in a sandbox only, where users are looked up   *)
(* in kaniko's own passwd file; a RUN that got past addDefaultHOME without *)
(* HOME has a user who is there.                                           *)
(***************************************************************************)
Preparing == pc \in {"proot", "extract", "write", "verify", "start"}

UserInv ==
    /\ via # None \/ pc \in {"extract", "write", "verify"} => sandbox
    /\ Preparing /\ sandbox /\ ~home => user \in {"", "root"} \/ LookupUser(user) # None
    /\ ~home \/ via = None => RunsAsUser
    /\ DOMAIN users \cap DOMAIN Number = {}

(***************************************************************************)
(* The process group.  Before a RUN has started its process, and after the *)
(* group of the last one was killed, there is none; an executor that ends  *)
(* leaves it to the strays.                                                *)
(***************************************************************************)
GroupInv == Preparing \/ pc \in {"off", "idle"} => group = {}

IInv == ProotInv /\ UserInv /\ GroupInv

(***************************************************************************)
(* The invariant holds at the start: there is nothing yet.                 *)
(***************************************************************************)
LEMMA InitIInv == Init => IInv
BY RunAssumption DEF Init, IInv, ProotInv, UserInv, GroupInv, Preparing, RunsAsUser

(***************************************************************************)
(* A user that was found has the uid of the image, if kaniko's passwd file *)
(* has no other.                                                           *)
(***************************************************************************)
LEMMA CredentialsAreUser ==
    ASSUME NEW u, DOMAIN users \cap DOMAIN Number = {}, sandbox => HostAgrees(u, users)
    PROVE  /\ SyscallCredentials(u) # None =>
                 SyscallCredentials(u) = IF u = "" THEN 0 ELSE uidIn(users, u)
           /\ sandbox /\ (u \in {"", "root"} \/ LookupUser(u) # None) =>
                 prootUserSpec(u) = IF u = "" THEN 0 ELSE uidIn(users, u)
<1>1. CASE ~sandbox
  BY <1>1 DEF SyscallCredentials, LookupUser, passwd
<1>2. CASE sandbox
  <2>1. LookupUser(u) # None => LookupUser(u) = uidIn(users, u)
    <3>1. CASE u \in DOMAIN HostPasswd
      BY <1>2, <3>1 DEF LookupUser, passwd, uidIn, HostAgrees
    <3>2. CASE u \notin DOMAIN HostPasswd
      BY <1>2, <3>2 DEF LookupUser, passwd, uidIn
    <3>. QED
      BY <3>1, <3>2
  <2>2. u = "root" => uidIn(users, u) = 0
    BY <1>2, RunAssumption DEF HostAgrees, uidIn
  <2>3. u = "root" => LookupUser(u) = 0
    BY <1>2, RunAssumption DEF LookupUser, passwd, uidIn
  <2>. QED
    BY <2>1, <2>2 DEF SyscallCredentials, prootUserSpec
<1>. QED
  BY <1>1, <1>2

(***************************************************************************)
(* The start of an executor, its end and the setting of a user.            *)
(***************************************************************************)
LEMMA ExecutorIInv ==
    ASSUME IInv,
           mountSandboxKernelFilesystems \/ endExecutor \/ \E u \in User : setUser(u)
    PROVE  IInv'
<1>1. CASE mountSandboxKernelFilesystems
  BY <1>1, RunAssumption DEF mountSandboxKernelFilesystems, files, IInv, ProotInv, UserInv, GroupInv,
              Preparing, RunsAsUser
<1>2. CASE endExecutor
  BY <1>2 DEF endExecutor, machine, files, image, IInv, ProotInv, UserInv, GroupInv,
              Preparing, RunsAsUser
<1>3. ASSUME NEW u \in User, setUser(u) PROVE IInv'
  BY <1>3 DEF setUser, machine, files, IInv, ProotInv, UserInv, GroupInv,
              Preparing, RunsAsUser
<1>. QED
  BY <1>1, <1>2, <1>3

(***************************************************************************)
(* runCommandInExec up to the start of the process.                        *)
(***************************************************************************)
LEMMA PrepareIInv ==
    ASSUME IInv,
           (\E c \in Script : runCommandInExec(c)) \/ sandboxProotPath \/ provisionProot
    PROVE  IInv'
<1>1. ASSUME NEW c \in Script, runCommandInExec(c) PROVE IInv'
  BY <1>1 DEF runCommandInExec, addDefaultHOMEFails, LookupUser, passwd, machine, files,
              image, IInv, ProotInv, UserInv, GroupInv, Preparing, RunsAsUser
<1>2. CASE sandboxProotPath
  BY <1>2 DEF sandboxProotPath, LookupUser, passwd, machine, files,
              image, IInv, ProotInv, UserInv, GroupInv, Preparing, RunsAsUser
<1>3. CASE provisionProot
  <2>1. PICK from \in {"extract", "write", "verify"} : pc = from
    BY <1>3 DEF provisionProot, writeProot
  <2>. QED
    BY <1>3, <2>1 DEF provisionProot, writeProot, LookupUser, passwd, machine,
              image, IInv, ProotInv, UserInv, GroupInv, Preparing, RunsAsUser
<1>. QED
  BY <1>1, <1>2, <1>3

(***************************************************************************)
(* The process is started as the user that was looked up.                  *)
(***************************************************************************)
LEMMA StartIInv ==
    ASSUME IInv, startCommand
    PROVE  IInv'
<1>1. CASE pc' = "failed" /\ UNCHANGED proc
  BY <1>1 DEF startCommand, machine, files, image, IInv, ProotInv, UserInv, GroupInv,
              Preparing, RunsAsUser
<1>2. CASE pc' = "running" /\ pc = "start"
  <2>. DEFINE uid == IF via # None THEN prootUserSpec(user) ELSE SyscallCredentials(user)
  <2>1. proc'.uid = uid /\ proc'.users = users /\ uid # None
    BY <1>2 DEF startCommand
  <2>2. UNCHANGED <<machine, files, image, via, group>>
    BY DEF startCommand
  <2>3. (~home \/ via = None) /\ (sandbox => HostAgrees(user, users)) =>
           uid = IF user = "" THEN 0 ELSE uidIn(users, user)
    <3>0. DOMAIN users \cap DOMAIN Number = {}
      BY DEF IInv, UserInv
    <3>1. CASE via = None
      BY <2>1, <3>0, <3>1, CredentialsAreUser
    <3>2. CASE via # None /\ ~home
      BY <1>2, <3>0, <3>2, CredentialsAreUser DEF IInv, UserInv, Preparing
    <3>. QED
      BY <3>1, <3>2
  <2>. HIDE DEF uid
  <2>. QED
    BY <1>2, <2>1, <2>2, <2>3 DEF machine, files, image, IInv, ProotInv, UserInv, GroupInv,
              Preparing, RunsAsUser
<1>. QED
  BY <1>1, <1>2 DEF startCommand

(***************************************************************************)
(* What processes do, and the end of a RUN.                                *)
(***************************************************************************)
LEMMA RunningIInv ==
    ASSUME IInv, work \/ fork \/ waitCommand \/ killGroup
    PROVE  IInv'
<1>1. CASE work
  <2>1. users' = users \/ DOMAIN users' = DOMAIN users \cup {"app"}
    BY <1>1 DEF work
  <2>2. DOMAIN users' \cap DOMAIN Number = {}
    BY <2>1, RunAssumption DEF IInv, UserInv
  <2>3. UNCHANGED <<sandbox, proot, tmpFile, prootFile, user, home, pc, via, proc, group>>
    BY <1>1 DEF work, machine, files
  <2>4. Preparing' => (sandbox => LookupUser(user)' = LookupUser(user))
    BY <2>3 DEF LookupUser, passwd, uidIn
  <2>5. RunsAsUser => RunsAsUser'
    BY <2>3 DEF RunsAsUser, HostAgrees, uidIn
  <2>. QED
    BY <2>2, <2>3, <2>4, <2>5 DEF IInv, ProotInv, UserInv, GroupInv, Preparing
<1>2. CASE fork
  BY <1>2 DEF fork, machine, files, image, IInv, ProotInv, UserInv, GroupInv,
              Preparing, RunsAsUser
<1>3. CASE waitCommand
  BY <1>3 DEF waitCommand, machine, files, image, IInv, ProotInv, UserInv, GroupInv,
              Preparing, RunsAsUser
<1>4. CASE killGroup
  BY <1>4 DEF killGroup, machine, files, image, IInv, ProotInv, UserInv, GroupInv,
              Preparing, RunsAsUser
<1>. QED
  BY <1>1, <1>2, <1>3, <1>4

(***************************************************************************)
(* The invariant is inductive.                                             *)
(***************************************************************************)
LEMMA NextIInv == IInv /\ [Next]_vars => IInv'
<1>. SUFFICES ASSUME IInv, [Next]_vars PROVE IInv'
  OBVIOUS
<1>1. CASE UNCHANGED vars
  BY <1>1 DEF vars, LookupUser, passwd, IInv, ProotInv, UserInv, GroupInv, Preparing, RunsAsUser
<1>. QED
  BY <1>1, ExecutorIInv, PrepareIInv, StartIInv, RunningIInv DEF Next

(***************************************************************************)
(* Wherever executors are killed while they extract proot, none runs a     *)
(* command through a part of it, or through one that was tried and does    *)
(* not run here (provisionProot, writeProot).                              *)
(***************************************************************************)
THEOREM ProotStaysWhole == Spec => []ProotIsWhole
<1>1. IInv => ProotIsWhole
  BY DEF IInv, ProotInv, ProotIsWhole
<1>. QED
  BY InitIInv, NextIInv, <1>1, PTL DEF Spec

(***************************************************************************)
(* A command runs as the user that USER names, with the uid the image's    *)
(* passwd file has for it: under / in any case, in a chroot if the passwd  *)
(* file kaniko itself sees has no other entry for the user (HostAgrees),   *)
(* and through proot where ENV does not set HOME, so that addDefaultHOME   *)
(* has looked the user up (prootUserSpec takes one that it does not find   *)
(* for root).                                                              *)
(***************************************************************************)
THEOREM CommandsRunAsUser == Spec => [](~home \/ via = None => RunsAsUser)
<1>1. IInv => (~home \/ via = None => RunsAsUser)
  BY DEF IInv, UserInv
<1>. QED
  BY InitIInv, NextIInv, <1>1, PTL DEF Spec

(***************************************************************************)
(* After a RUN that succeeded, and until the next begins, nothing writes   *)
(* to the image but processes that left their group: the group of the RUN  *)
(* has been killed (runCommandInExec, syscall.Kill).                       *)
(***************************************************************************)
THEOREM NothingWritesAfterRun == Spec => QuietAfterRun
<1>1. IInv /\ [Next]_vars =>
         [(pc = "idle" /\ ~stray => names' = names /\ users' = users)]_vars
  <2>. SUFFICES ASSUME IInv, [Next]_vars, pc = "idle", ~stray
                PROVE  names' = names /\ users' = users
    OBVIOUS
  <2>1. ~work
    BY DEF work, Alive, IInv, GroupInv
  <2>2. CASE endExecutor \/ (\E u \in User : setUser(u)) \/ \E c \in Script : runCommandInExec(c)
    BY <2>2 DEF endExecutor, setUser, runCommandInExec, image
  <2>3. CASE UNCHANGED vars
    BY <2>3 DEF vars
  <2>4. /\ ~mountSandboxKernelFilesystems /\ ~sandboxProotPath /\ ~provisionProot
        /\ ~startCommand /\ ~fork /\ ~waitCommand /\ ~killGroup
    BY DEF mountSandboxKernelFilesystems, sandboxProotPath, provisionProot, writeProot,
           startCommand, fork, waitCommand, killGroup
  <2>. QED
    BY <2>1, <2>2, <2>3, <2>4 DEF Next
<1>. QED
  BY InitIInv, NextIInv, <1>1, PTL DEF Spec, QuietAfterRun

-----------------------------------------------------------------------------
(***************************************************************************)
(* What /proc/self/exe is made to be.                                      *)
(***************************************************************************)

(***************************************************************************)
(* A set of numbers has a least one.                                       *)
(***************************************************************************)
LEMMA LeastNumber ==
    ASSUME NEW T \in SUBSET Nat, T # {}
    PROVE  \E m \in T : \A n \in T : m <= n
<1>1. PICK m \in T : \A n \in T : ~(<<n, m>> \in OpToRel(<, Nat))
  BY NatLessThanWellFounded, WFMin
<1>2. ASSUME NEW n \in T PROVE m <= n
  <2>1. ~(n < m)
    BY <1>1 DEF OpToRel
  <2> QED
    BY <2>1
<1> QED
  BY <1>2

(***************************************************************************)
(* The score of an executable: that of a tool is its priority, and above   *)
(* that of any other.                                                      *)
(***************************************************************************)
LEMMA ScoreOfName ==
    ASSUME NEW n \in Name
    PROVE  /\ Score(n) \in 10 .. 100 /\ Score(n) \in Nat /\ Priority[n] \in Nat
           /\ Priority[n] > 0 <=> Score(n) > procSelfExeGenericScore
           /\ Priority[n] > 0 => Score(n) = Priority[n]
           /\ Priority[n] = 0 <=> Score(n) = procSelfExeGenericScore
<1>1. Priority[n] = 0 \/ Priority[n] \in 30 .. 100
  BY RunAssumption
<1> QED
  BY <1>1 DEF Score, procSelfExeGenericScore

(***************************************************************************)
(* Among some names there is a first of the best, and FirstBest is it.     *)
(***************************************************************************)
LEMMA FirstBestIsBest ==
    ASSUME NEW s, NEW I \in SUBSET Nat, I # {}, \A i \in I : s[i] \in Name
    PROVE  \E i \in I : /\ FirstBest(s, I) = s[i]
                        /\ \A k \in I : /\ Score(s[k]) <= Score(s[i])
                                        /\ Score(s[k]) = Score(s[i]) => i <= k
<1> DEFINE Lacks(i) == 100 - Score(s[i])
           V == {Lacks(i) : i \in I}
           Is(i) == \A k \in I : Score(s[k]) < Score(s[i]) \/ (Score(s[k]) = Score(s[i]) /\ i <= k)
<1>1. \A i \in I : Score(s[i]) \in 10 .. 100
  BY ScoreOfName
<1>2. \A i \in I : Lacks(i) \in Nat
  BY <1>1
<1>3. V \in SUBSET Nat /\ V # {}
  BY <1>2
<1>4. PICK v \in V : \A u \in V : v <= u
  <2> HIDE DEF V
  <2> QED
    BY <1>3, LeastNumber
<1> DEFINE J == {i \in I : Lacks(i) = v}
<1>5. J \in SUBSET Nat /\ J # {}
  OBVIOUS
<1>6. PICK i \in J : \A k \in J : i <= k
  <2> HIDE DEF J
  <2> QED
    BY <1>5, LeastNumber
<1>7. ASSUME NEW k \in I
      PROVE  Score(s[k]) < Score(s[i]) \/ (Score(s[k]) = Score(s[i]) /\ i <= k)
  <2>1. Lacks(i) <= Lacks(k)
    BY <1>4, <1>6
  <2>2. Score(s[k]) \in 10 .. 100 /\ Score(s[i]) \in 10 .. 100
    BY <1>1
  <2>3. Score(s[k]) = Score(s[i]) => k \in J
    BY <1>6
  <2> QED
    BY <1>6, <2>1, <2>2, <2>3
<1>8. i \in I /\ Is(i)
  BY <1>7
<1> DEFINE x == CHOOSE y \in I : Is(y)
<1>9. x \in I /\ Is(x)
  <2> HIDE DEF Is
  <2> QED
    BY <1>8
<1>10. FirstBest(s, I) = s[x]
  BY DEF FirstBest
<1>11. \A k \in I : Score(s[k]) <= Score(s[x]) /\ (Score(s[k]) = Score(s[x]) => x <= k)
  <2> HIDE DEF x
  <2> SUFFICES ASSUME NEW k \in I
               PROVE  Score(s[k]) <= Score(s[x]) /\ (Score(s[k]) = Score(s[x]) => x <= k)
    OBVIOUS
  <2>1. Score(s[k]) \in 10 .. 100 /\ Score(s[x]) \in 10 .. 100
    BY <1>1, <1>9
  <2>2. Score(s[k]) < Score(s[x]) \/ (Score(s[k]) = Score(s[x]) /\ x <= k)
    BY <1>9
  <2> QED
    BY <2>1, <2>2
<1> HIDE DEF x
<1> QED
  BY <1>9, <1>10, <1>11

(***************************************************************************)
(* firstShellCommandWord finds the command of a segment that it reads as   *)
(* the shell does.                                                         *)
(***************************************************************************)
LEMMA FirstWordIsCommand ==
    ASSUME NEW s, IsList(s), Readable(s), Name \cap (Assignment \cup Prefix \cup Builtin) = {},
           NEW n \in Name
    PROVE  n = firstShellCommandWord(s) <=>
             \E k \in DOMAIN s : s[k] = n /\ \A m \in 1 .. k - 1 : s[m] \in Assignment \cup Prefix
<1> DEFINE Is(i) == /\ i <= Len(s) => s[i] \notin Assignment
                    /\ \A k \in 1 .. i - 1 : s[k] \in Assignment
           first == CHOOSE i \in 1 .. Len(s) + 1 : Is(i)
           W == {i \in first .. Len(s) : s[i] \notin Prefix \cup Builtin}
           w == CHOOSE i \in W : \A k \in W : i <= k
<1>0. Len(s) \in Nat /\ DOMAIN s = 1 .. Len(s)
  BY DEF IsList
<1>1. first \in 1 .. Len(s) + 1 /\ Is(first)
  <2> DEFINE T == {i \in 1 .. Len(s) + 1 : i <= Len(s) => s[i] \notin Assignment}
  <2>1. T \in SUBSET Nat /\ T # {}
    <3>1. Len(s) + 1 \in T
      BY <1>0
    <3> QED
      BY <3>1
  <2>2. PICK i \in T : \A k \in T : i <= k
    <3> HIDE DEF T
    <3> QED
      BY <2>1, LeastNumber
  <2>3. i \in 1 .. Len(s) + 1 /\ Is(i)
    <3>1. ASSUME NEW k \in 1 .. i - 1 PROVE s[k] \in Assignment
      <4>1. k \in 1 .. Len(s) + 1 /\ k \notin T
        BY <1>0, <2>2
      <4> QED
        BY <4>1
    <3> QED
      BY <2>2, <3>1
  <2> HIDE DEF Is
  <2> QED
    BY <2>3
<1>2. W # {} => w \in W /\ \A k \in W : w <= k
  <2>1. W \in SUBSET Nat
    BY <1>0, <1>1
  <2> HIDE DEF W
  <2> QED
    BY <2>1, LeastNumber
<1>3. firstShellCommandWord(s) = IF W = {} THEN None ELSE s[w]
  BY DEF firstShellCommandWord
<1> HIDE DEF first, w
<1>4. ASSUME n = firstShellCommandWord(s)
      PROVE  \E k \in DOMAIN s : s[k] = n /\ \A m \in 1 .. k - 1 : s[m] \in Assignment \cup Prefix
  <2>1. W # {} /\ n = s[w]
    BY <1>3, <1>4, RunAssumption
  <2>2. w \in first .. Len(s) /\ \A k \in W : w <= k
    BY <1>2, <2>1
  <2>3. w \in DOMAIN s
    BY <1>0, <1>1, <2>2
  <2>4. ASSUME NEW m \in 1 .. w - 1 PROVE s[m] \in Assignment \/ s[m] \in Prefix \cup Builtin
    <3>1. CASE m < first
      BY <1>0, <1>1, <2>2, <3>1
    <3>2. CASE m >= first
      <4>1. m \in first .. Len(s) /\ ~(w <= m)
        BY <1>0, <1>1, <2>2, <3>2
      <4> QED
        BY <2>2, <4>1
    <3> QED
      BY <1>0, <1>1, <2>2, <3>1, <3>2
  <2>5. ASSUME NEW m \in 1 .. w - 1 PROVE s[m] \notin Builtin
    BY <2>1, <2>3, <2>4 DEF Readable
  <2> QED
    BY <2>1, <2>3, <2>4, <2>5
<1>5. ASSUME NEW k \in DOMAIN s, s[k] = n, \A m \in 1 .. k - 1 : s[m] \in Assignment \cup Prefix
      PROVE  n = firstShellCommandWord(s)
  <2>1. first <= k
    <3>1. s[k] \notin Assignment
      BY <1>5
    <3> QED
      BY <1>0, <1>1, <3>1
  <2>2. k \in W
    BY <1>0, <1>1, <1>5, <2>1
  <2>3. ASSUME NEW m \in W, m < k PROVE FALSE
    <3>1. m \in 1 .. k - 1 /\ m \in DOMAIN s /\ first \in 1 .. Len(s) /\ first <= m
      BY <1>0, <1>1, <2>3
    <3>2. s[m] \in Assignment /\ s[m] \notin Prefix
      BY <1>5, <2>3, <3>1
    <3>3. first < m
      BY <1>0, <1>1, <3>1, <3>2
    <3>4. first \in 1 .. m - 1 /\ first \in 1 .. k - 1 /\ s[first] \notin Assignment
      BY <1>0, <1>1, <3>1, <3>3
    <3>5. s[first] \in Prefix
      BY <1>5, <3>4
    <3>6. \A h \in 1 .. m - 1 : s[h] \in Assignment \cup Prefix \cup Builtin
      BY <1>0, <1>5, <3>1
    <3> QED
      BY <3>1, <3>2, <3>4, <3>5, <3>6 DEF Readable
  <2>4. w \in W /\ w <= k
    BY <1>2, <2>2
  <2>5. w = k
    BY <1>0, <1>1, <2>3, <2>4
  <2> QED
    BY <1>3, <1>5, <2>2, <2>5
<1> QED
  BY <1>4, <1>5

(***************************************************************************)
(* So the commands that firstShellCommandWord finds are those of the       *)
(* script.                                                                 *)
(***************************************************************************)
LEMMA WordsAreCalls ==
    ASSUME NEW c \in Script, \A i \in DOMAIN c.segments : Readable(c.segments[i]),
           Name \cap (Assignment \cup Prefix \cup Builtin) = {}, NEW n \in Name
    PROVE  n \in Calls(c) <=> \E i \in DOMAIN c.segments : n = firstShellCommandWord(c.segments[i])
<1>1. \A i \in DOMAIN c.segments : IsList(c.segments[i])
  BY RunAssumption
<1>2. ASSUME NEW i \in DOMAIN c.segments
      PROVE  n = firstShellCommandWord(c.segments[i]) <=>
               \E k \in DOMAIN c.segments[i] :
                  /\ c.segments[i][k] = n
                  /\ \A m \in 1 .. k - 1 : c.segments[i][m] \in Assignment \cup Prefix
  BY <1>1, FirstWordIsCommand
<1> QED
  BY <1>2, Zenon DEF Calls

(***************************************************************************)
(* What bestProcSelfExeForWord tries.                                      *)
(***************************************************************************)
Tries(word) == {word} \cup Range(Alias[word])

(***************************************************************************)
(* The best of the word and its aliases that are found, the word itself if *)
(* there is no tool among them.                                            *)
(***************************************************************************)
LEMMA BestIsBest ==
    ASSUME NEW word, NEW found \in SUBSET Name, Name \cap Builtin = {}, NEW b,
           b = bestProcSelfExeForWord(word, found)
    PROVE  /\ b # None => word \in Name /\ b \in found /\ b \in Tries(word)
           /\ word \in Name => \A n \in Tries(word) \cap found : b # None /\ Score(n) <= Score(b)
           /\ word \in found /\ (\A n \in Tries(word) \cap found : Priority[n] = 0) => b = word
<1> DEFINE tries == <<word>> \o Alias[word]
           R == {i \in DOMAIN tries : tries[i] \in found \ Builtin}
<1>0. b = IF word \notin Name \/ R = {} THEN None ELSE FirstBest(tries, R)
  BY DEF bestProcSelfExeForWord
<1>1. CASE word \notin Name
  BY <1>0, <1>1
<1>2. CASE word \in Name
  <2>1. Alias[word] \in Seq(Name)
    BY <1>2, RunAssumption
  <2>2. /\ Len(Alias[word]) \in Nat /\ DOMAIN Alias[word] = 1 .. Len(Alias[word])
        /\ DOMAIN tries = 1 .. 1 + Len(Alias[word])
        /\ tries[1] = word
        /\ \A i \in 1 .. Len(Alias[word]) : tries[i + 1] = Alias[word][i]
    BY <1>2, <2>1
  <2>3. \A n : n \in Tries(word) <=> \E i \in DOMAIN tries : tries[i] = n
    <3>1. ASSUME NEW i \in DOMAIN tries PROVE tries[i] \in Tries(word)
      <4>1. i = 1 \/ (i - 1 \in 1 .. Len(Alias[word]) /\ i = (i - 1) + 1)
        BY <2>2
      <4> QED
        BY <2>2, <4>1 DEF Tries, Range
    <3>2. ASSUME NEW n \in Tries(word) PROVE \E i \in DOMAIN tries : tries[i] = n
      <4>1. CASE n = word
        BY <2>2, <4>1
      <4>2. CASE n # word
        <5>1. PICK i \in 1 .. Len(Alias[word]) : n = Alias[word][i]
          BY <2>2, <4>2 DEF Tries, Range
        <5>2. i + 1 \in DOMAIN tries
          BY <2>2
        <5> QED
          BY <2>2, <5>1, <5>2
      <4> QED
        BY <4>1, <4>2
    <3> HIDE DEF tries
    <3> QED
      BY <3>1, <3>2
  <2> HIDE DEF tries
  <2>4. R \in SUBSET Nat /\ \A i \in R : tries[i] \in Name
    BY <2>2
  <2>5. \A i \in DOMAIN tries : tries[i] \in found => i \in R
    OBVIOUS
  <2>6. CASE R = {}
    <3>1. \A n \in Tries(word) : n \notin found
      BY <2>3, <2>5, <2>6
    <3>2. word \in Tries(word)
      BY DEF Tries
    <3> QED
      BY <1>0, <2>6, <3>1, <3>2
  <2>7. CASE R # {}
    <3>1. PICK i \in R : /\ FirstBest(tries, R) = tries[i]
                         /\ \A k \in R : /\ Score(tries[k]) <= Score(tries[i])
                                         /\ Score(tries[k]) = Score(tries[i]) => i <= k
      BY <2>4, <2>7, FirstBestIsBest
    <3>2. b = tries[i] /\ i \in DOMAIN tries /\ b \in found /\ b \in Tries(word) /\ b # None
      BY <1>0, <1>2, <2>3, <2>7, <3>1, RunAssumption, ZenonT(30)
    <3>3. ASSUME NEW n \in Tries(word) \cap found PROVE Score(n) <= Score(b)
      <4>1. PICK k \in DOMAIN tries : tries[k] = n
        BY <2>3
      <4> QED
        BY <2>5, <3>1, <3>2, <4>1
    <3>4. ASSUME word \in found, \A n \in Tries(word) \cap found : Priority[n] = 0 PROVE b = word
      <4>1. 1 \in R /\ tries[1] = word /\ word \in Tries(word)
        BY <2>2, <2>5, <3>4 DEF Tries
      <4>2. Score(word) = procSelfExeGenericScore /\ Score(b) = procSelfExeGenericScore
        BY <3>2, <3>4, <4>1, ScoreOfName
      <4>3. i <= 1
        BY <3>1, <3>2, <4>1, <4>2
      <4>4. i = 1
        BY <2>2, <3>2, <4>3
      <4> QED
        BY <3>2, <4>1, <4>4
    <3> QED
      BY <1>2, <3>2, <3>3, <3>4
  <2> QED
    BY <2>6, <2>7
<1> QED
  BY <1>1, <1>2

(***************************************************************************)
(* What a script reaches are the tries of its commands.                    *)
(***************************************************************************)
LEMMA ReachesAreTries ==
    ASSUME NEW c, NEW n
    PROVE  n \in Reaches(c) <=> n \in Name /\ \E m \in Calls(c) : n \in Tries(m)
<1>1. \A m \in Calls(c) : m \in Name
  BY DEF Calls
<1>2. ASSUME NEW m \in Name PROVE Range(Alias[m]) \subseteq Name
  <2>1. Alias[m] \in Seq(Name)
    BY RunAssumption
  <2>2. \A i \in DOMAIN Alias[m] : Alias[m][i] \in Name
    BY <2>1
  <2> QED
    BY <2>2, Zenon DEF Range
<1> QED
  BY <1>1, <1>2, Zenon DEF Reaches, Tries

(***************************************************************************)
(* The segments of a script are numbered.                                  *)
(***************************************************************************)
LEMMA SegmentsAreNumbered ==
    ASSUME NEW c \in Script
    PROVE  DOMAIN c.segments \subseteq Nat
<1>1. IsList(c.segments)
  BY RunAssumption
<1> QED
  BY <1>1 DEF IsList

(***************************************************************************)
(* kaniko reads the script as the shell does.                              *)
(***************************************************************************)
IsRead(c) ==
    /\ Name \cap (Assignment \cup Prefix \cup Builtin) = {}
    /\ \A i \in DOMAIN c.segments : Readable(c.segments[i])

(***************************************************************************)
(* What is found for a segment is something that the script reaches.       *)
(***************************************************************************)
LEMMA SegmentIsServed ==
    ASSUME NEW c \in Script, IsRead(c), NEW found \in SUBSET Name,
           NEW i \in DOMAIN c.segments, NEW b, b = bestForSegments(c, found)[i]
    PROVE  b # None => b \in found /\ b \in Reaches(c)
<1> DEFINE word == firstShellCommandWord(c.segments[i])
<1>1. b = bestProcSelfExeForWord(word, found)
  BY DEF bestForSegments
<1>2. Name \cap Builtin = {}
  BY DEF IsRead
<1>3. word \in Name => word \in Calls(c)
  BY WordsAreCalls DEF IsRead
<1> HIDE DEF word
<1>4. b # None => word \in Name /\ b \in found /\ b \in Tries(word)
  BY <1>1, <1>2, BestIsBest
<1> QED
  BY <1>3, <1>4, ReachesAreTries

(***************************************************************************)
(* For each command of a script there is a segment that serves it.         *)
(***************************************************************************)
LEMMA CommandIsServed ==
    ASSUME NEW c \in Script, IsRead(c), NEW found \in SUBSET Name, NEW m \in Calls(c)
    PROVE  \E i \in DOMAIN c.segments :
             LET b == bestForSegments(c, found)[i]
             IN  /\ \A n \in Tries(m) \cap found : b # None /\ Score(n) <= Score(b)
                 /\ m \in found /\ (\A n \in Tries(m) \cap found : Priority[n] = 0) => b = m
<1>1. m \in Name
  BY DEF Calls
<1>2. Name \cap Builtin = {}
  BY DEF IsRead
<1>3. PICK i \in DOMAIN c.segments : m = firstShellCommandWord(c.segments[i])
  BY <1>1, WordsAreCalls DEF IsRead
<1> DEFINE b == bestForSegments(c, found)[i]
<1>4. b = bestProcSelfExeForWord(m, found)
  BY <1>3 DEF bestForSegments
<1> HIDE DEF b
<1>5. /\ \A n \in Tries(m) \cap found : b # None /\ Score(n) <= Score(b)
      /\ m \in found /\ (\A n \in Tries(m) \cap found : Priority[n] = 0) => b = m
  BY <1>1, <1>2, <1>4, BestIsBest
<1> QED
  BY <1>5 DEF b

(***************************************************************************)
(* The best for the segments, of which the tools are recognized.           *)
(***************************************************************************)
Resolved(c, found) == {i \in DOMAIN c.segments : bestForSegments(c, found)[i] # None}

Recognized(c, found) ==
    {i \in Resolved(c, found) :
        Score(bestForSegments(c, found)[i]) > procSelfExeGenericScore}

Generic(c, found) ==
    {bestForSegments(c, found)[i] : i \in Resolved(c, found) \ Recognized(c, found)}

(***************************************************************************)
(* ResolveSandboxProcSelfExeTarget in these terms.                         *)
(***************************************************************************)
LEMMA TargetIs ==
    ASSUME NEW c, NEW found, c.form = "sh -c"
    PROVE  ResolveSandboxProcSelfExeTarget(c, found) =
             IF Recognized(c, found) # {}
             THEN FirstBest(bestForSegments(c, found), Recognized(c, found))
             ELSE IF \E n \in Generic(c, found) : Generic(c, found) = {n}
             THEN CHOOSE n \in Generic(c, found) : TRUE
             ELSE lookPath(Shell, found)
<1>1. DOMAIN bestForSegments(c, found) = DOMAIN c.segments
  BY DEF bestForSegments
<1> QED
  BY <1>1 DEF ResolveSandboxProcSelfExeTarget, Resolved, Recognized, Generic

(***************************************************************************)
(* The tools of the script that are installed are those recognized, or     *)
(* worse than one of them.                                                 *)
(***************************************************************************)
LEMMA ToolIsRecognized ==
    ASSUME NEW c \in Script, IsRead(c), NEW found \in SUBSET Name, NEW n \in Toolchain(c) \cap found
    PROVE  \E i \in Recognized(c, found) : Priority[n] <= Score(bestForSegments(c, found)[i])
<1> DEFINE best == bestForSegments(c, found)
<1>1. n \in Reaches(c) /\ n \in Name /\ Priority[n] > 0
  BY DEF Toolchain
<1>2. PICK m \in Calls(c) : n \in Tries(m)
  BY <1>1, ReachesAreTries
<1>3. PICK i \in DOMAIN c.segments :
        \A t \in Tries(m) \cap found : best[i] # None /\ Score(t) <= Score(best[i])
  BY CommandIsServed
<1>4. best[i] # None /\ Score(n) <= Score(best[i])
  BY <1>2, <1>3
<1>5. best[i] \in Name
  BY <1>4, SegmentIsServed
<1> HIDE DEF best
<1>6. /\ Score(n) = Priority[n] /\ Score(n) > procSelfExeGenericScore
      /\ Score(n) \in Nat /\ Score(best[i]) \in Nat
  BY <1>1, <1>5, ScoreOfName
<1>7. Score(best[i]) > procSelfExeGenericScore /\ Priority[n] <= Score(best[i])
  BY <1>4, <1>6 DEF procSelfExeGenericScore
<1> QED
  BY <1>4, <1>7 DEF Recognized, Resolved, best

(***************************************************************************)
(* And what is recognized is a tool of the script that is installed.       *)
(***************************************************************************)
LEMMA RecognizedIsTool ==
    ASSUME NEW c \in Script, IsRead(c), NEW found \in SUBSET Name, NEW i \in Recognized(c, found),
           NEW b, b = bestForSegments(c, found)[i]
    PROVE  b \in Toolchain(c) \cap found /\ b \in Name /\ Score(b) = Priority[b]
<1>1. b # None /\ i \in DOMAIN c.segments /\ Score(b) > procSelfExeGenericScore
  BY DEF Recognized, Resolved
<1>2. b \in found /\ b \in Reaches(c) /\ b \in Name
  BY <1>1, SegmentIsServed
<1>3. Priority[b] > 0 /\ Score(b) = Priority[b]
  BY <1>1, <1>2, ScoreOfName
<1> QED
  BY <1>2, <1>3 DEF Toolchain

(***************************************************************************)
(* The best tool that is installed is chosen.                              *)
(***************************************************************************)
LEMMA BestToolServes ==
    ASSUME NEW c \in Script, IsRead(c), NEW found \in SUBSET Name, Toolchain(c) \cap found # {},
           NEW r, r = FirstBest(bestForSegments(c, found), Recognized(c, found))
    PROVE  /\ Recognized(c, found) # {}
           /\ r \in Toolchain(c) \cap found
           /\ \A n \in Toolchain(c) \cap found : Priority[n] <= Priority[r]
<1> DEFINE best == bestForSegments(c, found)
           I == Recognized(c, found)
<1>1. I # {}
  BY ToolIsRecognized
<1>2. I \in SUBSET Nat
  BY SegmentsAreNumbered DEF Recognized, Resolved
<1>3. \A i \in I : /\ best[i] \in Name /\ best[i] \in Toolchain(c) \cap found
                   /\ Score(best[i]) = Priority[best[i]]
  BY RecognizedIsTool
<1>4. \A n \in Toolchain(c) \cap found : \E i \in I : Priority[n] <= Score(best[i])
  BY ToolIsRecognized
<1>5. \A n \in Name : Score(n) \in Nat /\ Priority[n] \in Nat
  BY ScoreOfName
<1>6. r = FirstBest(best, I)
  OBVIOUS
<1> HIDE DEF best, I
<1>7. PICK x \in I : FirstBest(best, I) = best[x] /\ \A k \in I : Score(best[k]) <= Score(best[x])
  BY <1>1, <1>2, <1>3, FirstBestIsBest
<1>8. r = best[x] /\ r \in Toolchain(c) \cap found /\ Score(best[x]) = Priority[r] /\ r \in Name
  BY <1>3, <1>6, <1>7
<1>9. ASSUME NEW n \in Toolchain(c) \cap found PROVE Priority[n] <= Priority[r]
  <2>1. PICK i \in I : Priority[n] <= Score(best[i])
    BY <1>4
  <2>2. Score(best[i]) <= Priority[r]
    BY <1>7, <1>8
  <2>3. Score(best[i]) \in Nat /\ Priority[r] \in Nat /\ Priority[n] \in Nat
    BY <1>3, <1>5, <1>8
  <2> QED
    BY <2>1, <2>2, <2>3
<1> QED
  BY <1>1, <1>8, <1>9 DEF I

(***************************************************************************)
(* If no tool is installed nothing is recognized, and what is found are    *)
(* other commands: none, or two.                                           *)
(***************************************************************************)
LEMMA BystandersDoNotServe ==
    ASSUME NEW c \in Script, IsRead(c), NEW found \in SUBSET Name, BaseNames \subseteq found,
           Toolchain(c) \cap found = {},
           \/ Bystanders(c) = {}
           \/ \E m, n \in Calls(c) \cap Bystanders(c) \cap BaseNames : m # n
    PROVE  Recognized(c, found) = {} /\ ~ \E n \in Generic(c, found) : Generic(c, found) = {n}
<1> DEFINE best == bestForSegments(c, found)
           G == Generic(c, found)
<1>1. Recognized(c, found) = {}
  BY RecognizedIsTool
<1>2. ASSUME NEW n \in Reaches(c) \cap found PROVE Priority[n] = 0 /\ n \in Bystanders(c)
  <2>1. ~(Priority[n] > 0)
    BY DEF Toolchain
  <2>2. Priority[n] \in Nat
    BY ScoreOfName
  <2>3. Priority[n] = 0
    BY <2>1, <2>2
  <2> QED
    BY <2>3 DEF Bystanders
<1>3. ASSUME NEW n \in Calls(c) \cap BaseNames PROVE n \in G
  <2>1. n \in Name /\ n \in found /\ n # None
    BY RunAssumption
  <2>2. \A t \in Tries(n) \cap found : Priority[t] = 0
    BY <1>2, ReachesAreTries
  <2>3. PICK i \in DOMAIN c.segments : best[i] = n
    BY <2>1, <2>2, CommandIsServed
  <2> QED
    BY <1>1, <2>1, <2>3 DEF Generic, Resolved
<1>4. ASSUME NEW n \in G PROVE n \in Bystanders(c)
  <2>1. PICK i \in DOMAIN c.segments : best[i] = n /\ best[i] # None
    BY DEF Generic, Resolved
  <2>2. n \in found /\ n \in Reaches(c)
    BY <2>1, SegmentIsServed
  <2> QED
    BY <1>2, <2>2
<1> HIDE DEF G
<1>5. CASE Bystanders(c) = {}
  BY <1>1, <1>4, <1>5 DEF G
<1>6. CASE \E m, n \in Calls(c) \cap Bystanders(c) \cap BaseNames : m # n
  <2>1. PICK m, n \in G : m # n
    BY <1>3, <1>6
  <2>2. ~ \E x \in G : G = {x}
    BY <2>1
  <2> QED
    BY <1>1, <2>2 DEF G
<1> QED
  BY <1>5, <1>6

(***************************************************************************)
(* ResolveSandboxProcSelfExeTarget: the best tool of the script that is    *)
(* installed, and the shell if there is none.                              *)
(***************************************************************************)
LEMMA TargetServes ==
    ASSUME ServedScripts(Script), NEW c \in Script, c.form = "sh -c", Toolchain(c) # {},
           NEW found \in SUBSET Name, BaseNames \subseteq found,
           NEW r, r = ResolveSandboxProcSelfExeTarget(c, found)
    PROVE  /\ r # None
           /\ Toolchain(c) \cap found = {} => r = Shell
           /\ Toolchain(c) \cap found # {} =>
                /\ r \in Toolchain(c) \cap found
                /\ \A n \in Toolchain(c) \cap found : Priority[n] <= Priority[r]
<1>1. IsRead(c) /\ (\/ Bystanders(c) = {}
                    \/ \E m, n \in Calls(c) \cap Bystanders(c) \cap BaseNames : m # n)
  BY DEF ServedScripts, IsRead
<1>2. CASE Toolchain(c) \cap found = {}
  <2>1. Recognized(c, found) = {} /\ ~ \E n \in Generic(c, found) : Generic(c, found) = {n}
    BY <1>1, <1>2, BystandersDoNotServe
  <2>2. r = lookPath(Shell, found)
    BY <2>1, TargetIs
  <2>3. r = Shell /\ Shell # None
    BY <2>2, RunAssumption DEF lookPath
  <2> QED
    BY <1>2, <2>3
<1>3. CASE Toolchain(c) \cap found # {}
  <2> DEFINE f == FirstBest(bestForSegments(c, found), Recognized(c, found))
  <2>1. /\ Recognized(c, found) # {} /\ f \in Toolchain(c) \cap found
        /\ \A n \in Toolchain(c) \cap found : Priority[n] <= Priority[f]
    BY <1>1, <1>3, BestToolServes
  <2>2. r = f
    BY <2>1, TargetIs
  <2>3. None \notin found
    BY RunAssumption
  <2> HIDE DEF f
  <2> QED
    BY <1>3, <2>1, <2>2, <2>3
<1> QED
  BY <1>2, <1>3

-----------------------------------------------------------------------------
(***************************************************************************)
(* The link /proc/self/exe while a command runs over the stub: it was made *)
(* for this command, from what was installed when it started.              *)
(***************************************************************************)
SelfInv ==
    /\ BaseNames \subseteq names /\ names \subseteq Name
    /\ Preparing \/ pc = "running" => cmd \in Script
    /\ OnStub =>
         /\ BaseNames \subseteq proc.names /\ proc.names \subseteq Name
         /\ LET exe == ResolveSandboxProcSelfExeTarget(cmd, proc.names)
            IN  exe # None => procSelfExe = exe

(***************************************************************************)
(* SelfInv holds at the start.                                             *)
(***************************************************************************)
LEMMA InitSelfInv == Init => SelfInv
BY RunAssumption DEF Init, SelfInv, Preparing, OnStub

(***************************************************************************)
(* SelfInv is inductive: only startCommand changes the link, and nothing   *)
(* else of what it is about changes while a command runs.                  *)
(***************************************************************************)
LEMMA NextSelfInv == SelfInv /\ [Next]_vars => SelfInv'
<1> SUFFICES ASSUME SelfInv, [Next]_vars PROVE SelfInv'
  OBVIOUS
<1> USE DEF SelfInv, Preparing, OnStub
<1>1. CASE mountSandboxKernelFilesystems
  BY <1>1, RunAssumption DEF mountSandboxKernelFilesystems
<1>2. CASE endExecutor
  BY <1>2 DEF endExecutor, image
<1>3. ASSUME NEW u \in User, setUser(u) PROVE SelfInv'
  BY <1>3 DEF setUser
<1>4. ASSUME NEW c \in Script, runCommandInExec(c) PROVE SelfInv'
  BY <1>4 DEF runCommandInExec, image
<1>5. CASE sandboxProotPath
  BY <1>5 DEF sandboxProotPath, image
<1>6. CASE provisionProot
  <2>1. pc \in {"extract", "write", "verify"} /\ pc' # "running"
        /\ UNCHANGED <<names, cmd>>
    BY <1>6 DEF provisionProot, writeProot, image
  <2> QED
    BY <2>1
<1>7. CASE startCommand
  <2>1. /\ pc = "start" /\ UNCHANGED <<names, cmd, sandbox, via, SandboxProcSelfStub>>
        /\ pc' \in {"running", "failed"}
    BY <1>7 DEF startCommand, image, machine
  <2>2. CASE pc' = "failed"
    BY <2>1, <2>2
  <2>3. CASE pc' = "running"
    <3>1. proc'.names = names
      BY <1>7, <2>3 DEF startCommand
    <3>2. sandbox /\ via = None /\ SandboxProcSelfStub /\ proc'.updated =>
            LET exe == ResolveSandboxProcSelfExeTarget(cmd, names)
            IN  exe # None => procSelfExe' = exe
      BY <1>7, <2>3 DEF startCommand, UpdateSandboxProcSelfStub
    <3> QED
      BY <2>1, <2>3, <3>1, <3>2
  <2> QED
    BY <2>1, <2>2, <2>3
<1>8. CASE work
  <2>1. names \subseteq names' /\ names' \subseteq Name
    BY <1>8 DEF work
  <2> QED
    BY <1>8, <2>1 DEF work, machine
<1>9. CASE fork
  BY <1>9 DEF fork, machine, image
<1>10. CASE waitCommand \/ killGroup
  BY <1>10 DEF waitCommand, killGroup, image
<1>11. CASE UNCHANGED vars
  BY <1>11 DEF vars
<1> QED
  BY <1>1, <1>2, <1>3, <1>4, <1>5, <1>6, <1>7, <1>8, <1>9, <1>10, <1>11 DEF Next

(***************************************************************************)
(* While a command runs over the stub, /proc/self/exe leads to the best    *)
(* tool of its script that was installed, or to the shell, whatever the    *)
(* RUNs before it needed (UpdateSandboxProcSelfStub,                       *)
(* ResolveSandboxProcSelfExeTarget).                                       *)
(***************************************************************************)
THEOREM StubServesToolchain ==
    ASSUME ServedScripts(Script) PROVE Spec => []SelfExeServesToolchain
<1>1. SelfInv => SelfExeServesToolchain
  <2> SUFFICES ASSUME SelfInv, OnStub, cmd.form = "sh -c", Toolchain(cmd) # {}
               PROVE  LET there == Toolchain(cmd) \cap proc.names
                      IN IF there = {} THEN procSelfExe = Shell
                         ELSE /\ procSelfExe \in there
                              /\ \A n \in there : Priority[n] <= Priority[procSelfExe]
    BY DEF SelfExeServesToolchain
  <2> DEFINE exe == ResolveSandboxProcSelfExeTarget(cmd, proc.names)
             there == Toolchain(cmd) \cap proc.names
  <2>1. /\ cmd \in Script /\ proc.names \in SUBSET Name /\ BaseNames \subseteq proc.names
        /\ exe # None => procSelfExe = exe
    BY DEF SelfInv, OnStub
  <2>2. /\ exe # None
        /\ there = {} => exe = Shell
        /\ there # {} => exe \in there /\ \A n \in there : Priority[n] <= Priority[exe]
    BY <2>1, TargetServes
  <2> HIDE DEF exe
  <2> QED
    BY <2>1, <2>2
<1> QED
  BY InitSelfInv, NextSelfInv, <1>1, PTL DEF Spec

=============================================================================
