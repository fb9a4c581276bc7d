---------------------------- MODULE MCMultiStage ----------------------------
(***************************************************************************)
(* All Dockerfiles of three stages with the names, bases and COPYs below.  *)
(***************************************************************************)
EXTENDS MultiStage

MCToLower(s) == IF s = "A" THEN "a" ELSE s

MCImageFS ==
    [img0 |-> [f |-> None, g |-> None],
     img1 |-> [f |-> <<"1">>, g |-> None],
     img2 |-> [f |-> <<"2">>, g |-> None]]

RunCmd(t) == [op |-> "RUN", text |-> t, From |-> ""]
CopyFrom(x) == [op |-> "COPY", text |-> "COPY", From |-> x]

Stage(name, base, cmds) == [Name |-> name, BaseName |-> base, cmds |-> cmds]

MCBuild(ss, target, skip) ==
    [stages |-> ss, target |-> target, SkipUnusedStages |-> skip, Cache |-> TRUE]

(***************************************************************************)
(* Stages may be unnamed; a COPY may name a stage, in either case, number  *)
(* it, or name an image.                                                   *)
(***************************************************************************)
Stage1 == {Stage(n, "img1", c) : n \in {"", "a"}, c \in {<<RunCmd("r1")>>, <<CopyFrom("img2")>>}}

Stage2(froms) ==
    {Stage(n, b, <<RunCmd("r2")>> \o c) :
        n \in {"", "b"}, b \in {"img1", "a", "A"},
        c \in {<< >>} \cup {<<CopyFrom(x)>> : x \in froms}}

Stage3(froms) ==
    {Stage("", b, <<RunCmd("r2"), CopyFrom(x)>>) : b \in {"img0", "a", "b"}, x \in froms}

AllBuilds ==
    {MCBuild(<<s1, s2, s3>>, t, FALSE) :
        s1 \in Stage1, s2 \in Stage2({"a", "A", "0"}), s3 \in Stage3({"a", "A", "0", "1", "img1"}),
        t \in {"", "b"}}

(***************************************************************************)
(* --skip-unused-stages with stages referred to by their names, as they    *)
(* are written.                                                            *)
(***************************************************************************)
SkippingBuilds ==
    {MCBuild(<<s1, s2, s3>>, t, TRUE) :
        s1 \in Stage1, s2 \in {s \in Stage2({"a"}) : s.BaseName # "A"},
        s3 \in Stage3({"a", "b", "img1"}), t \in {"", "b"}}

MCBuilds == AllBuilds \cup SkippingBuilds

=============================================================================
