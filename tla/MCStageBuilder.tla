--------------------------- MODULE MCStageBuilder ---------------------------
(***************************************************************************)
(* Small instances of StageBuilder.                                        *)
(***************************************************************************)
EXTENDS StageBuilder, TLC

CONSTANTS b1, b2, base1, m1, m2, f1, f2, t1, t2, t3, t4, t5, t6, t7, t8, arg1, arg2

MCPath == {<< >>, <<"a">>, <<"a", "x">>, <<"y">>}

MCNode(k, m, x) == [kind |-> k, perm |-> m, mtime |-> 0, data |-> x]

(***************************************************************************)
(* A base image with a directory that is not owned by root.                *)
(***************************************************************************)
MCBaseTree ==
    base1 :> [p \in MCPath |->
        CASE p = << >> -> MCNode("dir", m1, << >>)
          [] p = <<"a">> -> MCNode("dir", m2, << >>)
          [] p = <<"a", "x">> -> MCNode("file", m1, <<f1>>)
          [] p = <<"y">> -> Absent]

Anywhere(p) == [v \in {arg1, arg2} |-> p]

Cmd(op, text) == [op |-> op, text |-> text, dst |-> Anywhere(None), reads |-> << >>,
                  removes |-> {}, src |-> "f"]

RunWrite(t, p, q) == [Cmd("RUN", t) EXCEPT !.dst = Anywhere(p), !.reads = q]
RunRemove(t, p) == [Cmd("RUN", t) EXCEPT !.removes = {p}]
Copy(t, p) == [Cmd("COPY", t) EXCEPT !.dst = Anywhere(p)]
CopyToArg(t, p, q) == [Copy(t, p) EXCEPT !.dst = arg1 :> p @@ arg2 :> q]
Workdir(t, p) == [Cmd("WORKDIR", t) EXCEPT !.dst = Anywhere(p)]
Env(t) == Cmd("ENV", t)

X == <<"a", "x">>
Y == <<"y">>

MCJob(cmds, f, v) ==
    [base |-> base1, cmds |-> cmds, ctx |-> [f |-> <<f>>, none |-> None], arg |-> v,
     Cache |-> TRUE, CacheCopyLayers |-> TRUE, CacheRunLayers |-> TRUE,
     SingleSnapshot |-> FALSE, RunV2 |-> FALSE, NoPushCache |-> FALSE,
     ForceBuildMetadata |-> FALSE, crossStageDeps |-> FALSE]

(***************************************************************************)
(* Two Dockerfiles.  The first is built with two versions of a file and    *)
(* two values of a build argument, with and without caching of COPY.       *)
(***************************************************************************)
D1 == <<Env(t1), Copy(t2, Y), RunRemove(t3, X), RunWrite(t4, X, Y)>>
D2 == <<Workdir(t5, Y), RunWrite(t6, X, << >>), RunRemove(t7, <<"a">>)>>

CachedJobs ==
    {MCJob(D1, f1, arg1), MCJob(D1, f2, arg1), MCJob(D1, f1, arg2),
     [MCJob(D1, f1, arg1) EXCEPT !.CacheCopyLayers = FALSE, !.crossStageDeps = TRUE],
     [MCJob(D2, f1, arg1) EXCEPT !.NoPushCache = TRUE],
     MCJob(D2, f1, arg1)}

(***************************************************************************)
(* Without a cache, in one snapshot, and with --use-new-run.               *)
(***************************************************************************)
UncachedJobs ==
    {[MCJob(D1, f1, arg1) EXCEPT !.Cache = FALSE, !.ForceBuildMetadata = TRUE],
     [MCJob(D2, f1, arg1) EXCEPT !.Cache = FALSE, !.SingleSnapshot = TRUE],
     [MCJob(<<Copy(t2, Y), RunWrite(t4, X, Y), RunRemove(t8, Y)>>, f1, arg1)
        EXCEPT !.Cache = FALSE, !.RunV2 = TRUE]}

(***************************************************************************)
(* In one snapshot and with a cache: the layer of the last command has     *)
(* what all commands changed, and is found by the next such build.         *)
(***************************************************************************)
OneLayerJobs ==
    {[MCJob(<<Copy(t2, Y), RunWrite(t4, X, Y)>>, f1, arg1)
        EXCEPT !.SingleSnapshot = TRUE, !.CacheCopyLayers = FALSE]}

MCJobs == CachedJobs \cup UncachedJobs \cup OneLayerJobs

ASSUME PlainJobs ==
    LET jobs == (CachedJobs \cup UncachedJobs) \cap Job
    IN TextsTell(jobs) /\ \A j \in jobs : Plain(j) /\ CopiesFiles(j)

-----------------------------------------------------------------------------
(***************************************************************************)
(* Jobs outside those for which the properties hold.                       *)
(***************************************************************************)

\* COPY f $ARG, built with two values of the argument.
ArgJobs == {MCJob(<<CopyToArg(t1, X, Y)>>, f1, v) : v \in {arg1, arg2}}

=============================================================================
