---------------------------- MODULE MCRunCommand ----------------------------
(***************************************************************************)
(* Small instances of RunCommand: a shell, a downloader and a copier, a    *)
(* build tool, and a compiler with the tool that calls it.                 *)
(***************************************************************************)
EXTENDS RunCommand, TLC

MCBase == {"sh", "curl", "make"}

MCName == MCBase \cup {"cargo", "rustc"}

MCPriority == [n \in MCName |->
    CASE n = "rustc" -> 100 [] n = "cargo" -> 60 [] n = "make" -> 40 [] OTHER -> 0]

MCAlias == [n \in MCName |-> IF n = "cargo" THEN <<"rustc">> ELSE << >>]

Sh(segments) == [form |-> "sh -c", segments |-> segments]

(***************************************************************************)
(* "cargo" alone, after an assignment, after make, after an installation   *)
(* by "curl | sh", in exec form, and with a shell that has more options;   *)
(* "cd" is a builtin.                                                      *)
(***************************************************************************)
MCScripts ==
    {Sh(<<<<"cargo">>>>),
     Sh(<<<<"A=1", "exec", "cargo">>, <<"cd", "dir">>>>),
     Sh(<<<<"make">>, <<"cargo">>>>),
     Sh(<<<<"curl">>, <<"sh">>, <<"cargo">>>>),
     Sh(<<<<"curl">>>>),
     [form |-> "exec", segments |-> <<<<"cargo">>>>],
     [form |-> "sh -e -c", segments |-> <<<<"cargo">>>>]}

(***************************************************************************)
(* kaniko's container and the base image are of two distributions: their   *)
(* users www-data differ.                                                  *)
(***************************************************************************)
MCNumber == "1000" :> 1000
MCHostPasswd == "root" :> 0 @@ "www-data" :> 33
MCBasePasswd == "root" :> 0 @@ "www-data" :> 82

ASSUME MCScriptsAreServed == ServedScripts(MCScripts)

-----------------------------------------------------------------------------
(***************************************************************************)
(* Scripts outside those for which SelfExeServesToolchain holds: a tool    *)
(* that an installer in the same script brings, whose downloader is the    *)
(* only command found beforehand; and a tool after "env" and an            *)
(* assignment.                                                             *)
(***************************************************************************)
InstallerScripts == {Sh(<<<<"curl">>, <<"installer">>, <<"cargo">>>>)}
EnvScripts == {Sh(<<<<"env", "A=1", "make">>>>)}

=============================================================================
