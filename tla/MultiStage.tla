----------------------------- MODULE MultiStage -----------------------------
(***************************************************************************)
(* pkg/executor/build.go, DoBuild, with the planning of stages of          *)
(* pkg/dockerfile/dockerfile.go: building the stages of a Dockerfile one   *)
(* after the other on one file system, and what is kept between stages:    *)
(* images that later stages are built from, files they copy, cache keys.   *)
(*                                                                         *)
(* A stage is a record [Name, BaseName, cmds]; a command is a RUN, or a    *)
(* COPY of the file "f" to the file "g" from the stage or image From.      *)
(* Stages are numbered from 1 here and from 0 in the code and in           *)
(* --from=<number>.  How a stage is built is the module StageBuilder; here *)
(* it is one step.  Build arguments, ONBUILD, wildcards and links among    *)
(* the copied files are left out.                                          *)
(***************************************************************************)
EXTENDS Naturals, Sequences, FiniteSets, TLC

CONSTANTS
    Build,       \* [stages, target, SkipUnusedStages, Cache]: what may be built
    ImageFS,     \* the file system of each image in the registry, by name
    ToLower(_),  \* strings.ToLower on the names that occur
    None         \* no file, no image

File == {"f", "g"}

ASSUME BuildAssumption ==
    \A b \in Build :
        /\ Len(b.stages) > 0
        /\ \A i \in DOMAIN b.stages :
             \* the parser lowers the names of stages
             b.stages[i].Name = ToLower(b.stages[i].Name)

VARIABLES
    build,       \* what is built
    pc,          \* "plan", "fetch", "stage", "done" or "failed"
    stages,      \* kanikoStages
    index,       \* the stage being built
    fs,          \* the file system under config.RootDir
    tarballs,    \* images under KanikoIntermediateStagesDir, by file name
    saved,       \* files under KanikoDir, by index of a stage or name of an image
    digestToCacheKey,
    began,       \* history: the first cache key and the base of each stage built
    out          \* the image DoBuild returns

vars == <<build, pc, stages, index, fs, tarballs, saved, digestToCacheKey, began, out>>

-----------------------------------------------------------------------------
Digits == <<"0", "1", "2", "3", "4">>

Itoa(i) == Digits[i]

IsNumber(s) == \E i \in DOMAIN Digits : Digits[i] = s

Atoi(s) == CHOOSE i \in DOMAIN Digits : Digits[i] = s

Copies(s) == {k \in DOMAIN s.cmds : s.cmds[k].op = "COPY"}

(***************************************************************************)
(* Planning: MakeKanikoStages and what it calls.                           *)
(***************************************************************************)
baseImageIndex(i, ss) ==
    LET same == {k \in 1 .. i - 1 : ss[k].Name = ToLower(ss[i].BaseName)}
    IN IF same = {} THEN None ELSE CHOOSE k \in same : \A n \in same : k <= n

targetStage(ss, target) ==
    IF target = "" THEN Len(ss)
    ELSE LET same == {k \in DOMAIN ss : ss[k].Name = ToLower(target)}
         IN IF same = {} THEN None ELSE CHOOSE k \in same : \A n \in same : k <= n

\* Mutant: only the next stage is looked at.
saveStageForNext(i, ss) == i < Len(ss) /\ ToLower(ss[i + 1].BaseName) = ss[i].Name

saveStage(i, ss) == \E k \in i + 1 .. Len(ss) : ToLower(ss[k].BaseName) = ss[i].Name

(***************************************************************************)
(* The names skipUnusedStages collects, from stage idx up to the first: a  *)
(* stage that is used uses the stages its COPYs name, and its base.        *)
(***************************************************************************)
stagesDependencies(ss, idx) ==
    LET from(cmd) == IF IsNumber(cmd.From) THEN ss[Atoi(cmd.From)].Name ELSE cmd.From
        used(i, names) == \/ ss[i].Name # "" /\ ss[i].Name \in names
                          \/ ss[i].Name = ss[idx].BaseName
                          \/ i = idx
        deps[i \in 1 .. idx + 1] ==
            IF i = idx + 1 THEN {}
            ELSE LET names == deps[i + 1]
                 IN IF ~used(i, names) THEN names
                    ELSE names \cup {from(ss[i].cmds[k]) : k \in Copies(ss[i])}
                               \cup (IF i # idx THEN {ss[i].BaseName} ELSE {})
    IN deps[1]

skipUnusedStages(ss, idx, target) ==
    LET names == stagesDependencies(ss, idx)
        kept(s) == s.Name # "" /\ (s.Name \in names \/ s.Name = ss[idx].BaseName)
    IN IF target = "" /\ names = {} THEN ss
       ELSE Append(IF names = {} THEN << >> ELSE SelectSeq(SubSeq(ss, 1, idx - 1), kept), ss[idx])

(***************************************************************************)
(* The stages up to the target, with what the builder wants to know.       *)
(***************************************************************************)
MakeKanikoStages(b) ==
    LET idx == targetStage(b.stages, b.target)
        ss == IF b.SkipUnusedStages THEN skipUnusedStages(b.stages, idx, b.target) ELSE b.stages
        last == IF b.SkipUnusedStages /\ idx > Len(ss) THEN Len(ss) ELSE idx
    IN [i \in 1 .. last |->
          [Name |-> ss[i].Name, BaseName |-> ss[i].BaseName, cmds |-> ss[i].cmds,
           BaseImageIndex |-> baseImageIndex(i, ss), SaveStage |-> saveStage(i, ss),
           Final |-> i = last]]

(***************************************************************************)
(* ResolveCrossStageCommands: COPY --from=<name> becomes --from=<number>   *)
(* where the name is known.                                                *)
(***************************************************************************)
ResolveCrossStageCommands(cmds, stageNameToIdx) ==
    LET resolves(cmd) == cmd.op = "COPY" /\ ToLower(cmd.From) \in DOMAIN stageNameToIdx
    IN [k \in DOMAIN cmds |->
          IF resolves(cmds[k]) THEN [cmds[k] EXCEPT !.From = stageNameToIdx[ToLower(@)]]
          ELSE cmds[k]]

(***************************************************************************)
(* ResolveCrossStageInstructions: a stage knows itself and the stages      *)
(* before it, the latest of those with one name.                           *)
(***************************************************************************)
ResolveCrossStageInstructions(ss) ==
    LET named(i, name) == {k \in 1 .. i : ss[k].Name = name}
        idx(i) == [name \in {ss[k].Name : k \in 1 .. i} \ {""} |->
                     Itoa(CHOOSE k \in named(i, name) : \A n \in named(i, name) : n <= k)]
    IN [i \in DOMAIN ss |-> [ss[i] EXCEPT !.cmds = ResolveCrossStageCommands(@, idx(i))]]

(***************************************************************************)
(* fetchExtraStages: a From that is not the number of an earlier stage is  *)
(* the name of an image.                                                   *)
(***************************************************************************)
ExtraImages(ss) ==
    LET extra(i, from) ==
            /\ from # ""
            /\ ~(IsNumber(from) /\ Atoi(from) < i)
            /\ \A n \in 1 .. i - 1 : ss[n].Name # from
    IN UNION {{ss[i].cmds[k].From : k \in {n \in Copies(ss[i]) : extra(i, ss[i].cmds[n].From)}} :
                i \in DOMAIN ss}

(***************************************************************************)
(* CalculateDependencies: the files of stage i that other stages copy.     *)
(***************************************************************************)
crossStageDependencies(ss, i) ==
    {"f" : k \in {n \in DOMAIN ss : \E c \in Copies(ss[n]) : ss[n].cmds[c].From = Itoa(i)}}

-----------------------------------------------------------------------------
(***************************************************************************)
(* Commands, on a file system and the files kept from other stages.        *)
(***************************************************************************)
Empty == [x \in File |-> None]

Failed == [x \in File |-> "failed"]

Run(cmd, d) == [d EXCEPT !["f"] = <<cmd.text, @>>]

Copy(d, from) == IF from["f"] = None THEN Failed ELSE [d EXCEPT !["g"] = from["f"]]

\* The file that COPY finds below KanikoDir/<From>.
FromDir(kept, cmd) == IF cmd.From \in DOMAIN kept THEN kept[cmd.From] ELSE Empty

Execute(cmd, d, kept) == IF cmd.op = "RUN" THEN Run(cmd, d) ELSE Copy(d, FromDir(kept, cmd))

ExecuteAll(cmds, d, kept) ==
    LET after[n \in 0 .. Len(cmds)] ==
            IF n = 0 THEN d
            ELSE IF after[n - 1] = Failed THEN Failed
            ELSE Execute(cmds[n], after[n - 1], kept)
    IN after[Len(cmds)]

(***************************************************************************)
(* The cache key after the commands of a stage: RUN adds its text, COPY    *)
(* its text (with the stage already as a number) and the contents copied.  *)
(***************************************************************************)
KeyItem(cmd, kept) ==
    IF cmd.op = "RUN" THEN <<cmd.text>> ELSE <<cmd.From, FromDir(kept, cmd)["f"]>>

KeyOf(cmds, key, kept) ==
    LET after[n \in 0 .. Len(cmds)] ==
            IF n = 0 THEN key ELSE Append(after[n - 1], KeyItem(cmds[n], kept))
    IN after[Len(cmds)]

(***************************************************************************)
(* The image a stage is built from.                                        *)
(***************************************************************************)
BaseOf(s) ==
    IF s.BaseImageIndex # None
    THEN IF Itoa(s.BaseImageIndex) \in DOMAIN tarballs THEN tarballs[Itoa(s.BaseImageIndex)]
         ELSE None
    ELSE IF s.BaseName \in DOMAIN ImageFS THEN [fs |-> ImageFS[s.BaseName], by |-> "registry"]
    ELSE None

\* Mutant: the key says whether the image is one of ours, and not which.
initialKeyOfKind(img) == <<"digest", img.by>>

(***************************************************************************)
(* The first part of the key: for the image of a stage, the key of that    *)
(* stage.                                                                  *)
(***************************************************************************)
initialKey(img) ==
    IF img \in DOMAIN digestToCacheKey THEN <<"hash", digestToCacheKey[img]>> ELSE <<"digest", img>>

(***************************************************************************)
(* finalCacheKey is set by optimize, command by command; it stays empty    *)
(* when there is no command, or no --cache.                                *)
(***************************************************************************)
finalCacheKey(s, img) ==
    IF build.Cache /\ s.cmds # << >> THEN KeyOf(s.cmds, initialKey(img), saved) ELSE << >>

-----------------------------------------------------------------------------
Init ==
    /\ build \in Build
    /\ pc = "plan"
    /\ stages = << >>
    /\ index = 1
    /\ fs = Empty
    /\ tarballs = << >>
    /\ saved = << >>
    /\ digestToCacheKey = << >>
    /\ began = {}
    /\ out = None

Fail ==
    /\ pc' = "failed"
    /\ UNCHANGED <<build, stages, index, fs, tarballs, saved, digestToCacheKey, began, out>>

\* Mutant: the files of a stage stay.
KeepFilesystem(d) == d

\* Between stages everything but the ignored directories is deleted.
DeleteFilesystem(d) == [x \in DOMAIN d |-> None]

(***************************************************************************)
(* DoBuild up to the stages.                                               *)
(***************************************************************************)
plan ==
    /\ pc = "plan"
    /\ IF targetStage(build.stages, build.target) = None THEN Fail
       ELSE /\ stages' = ResolveCrossStageInstructions(MakeKanikoStages(build))
            /\ pc' = "fetch"
            /\ UNCHANGED <<build, index, fs, tarballs, saved, digestToCacheKey, began, out>>

(***************************************************************************)
(* fetchExtraStages: images that are copied from are extracted to KanikoDir*)
(* under their name, and saved as tarballs.                                *)
(***************************************************************************)
fetchExtraStages ==
    /\ pc = "fetch"
    /\ IF ~(ExtraImages(stages) \subseteq DOMAIN ImageFS) THEN Fail
       ELSE /\ saved' = [x \in ExtraImages(stages) |-> ImageFS[x]]
            /\ pc' = "stage"
            /\ tarballs' = [x \in ExtraImages(stages) |-> [fs |-> ImageFS[x], by |-> "registry"]]
            /\ UNCHANGED <<build, stages, index, fs, digestToCacheKey, began, out>>

\* The image of a stage, kept under the stage's number.
saveStageAsTarball(path, image) == (path :> image) @@ tarballs

(***************************************************************************)
(* The files of a stage that are kept: those that match what later stages  *)
(* copy, if they are there.                                                *)
(***************************************************************************)
filesToSave(deps, d) == [x \in File |-> IF x \in deps THEN d[x] ELSE None]

(***************************************************************************)
(* The loop body of DoBuild.  The commands of a stage work on its base,    *)
(* which is unpacked over what the file system holds if there are commands *)
(* or files to keep; the image has their changes on top of the base.       *)
(***************************************************************************)
buildStage ==
    LET s == stages[index]
        img == BaseOf(s)
        deps == crossStageDependencies(stages, index)
        base == IF s.cmds = << >> /\ deps = {} THEN fs
                ELSE [x \in File |-> IF img.fs[x] # None THEN img.fs[x] ELSE fs[x]]
        d == ExecuteAll(s.cmds, base, saved)
        result == [fs |-> [x \in File |-> IF d[x] # base[x] THEN d[x] ELSE img.fs[x]],
                   by |-> "kaniko"]
    IN /\ pc = "stage"
       /\ IF img = None \/ d = Failed THEN Fail
          ELSE /\ began' = began \cup {[key |-> initialKey(img), base |-> img.fs]}
               /\ digestToCacheKey' = (result :> finalCacheKey(s, img)) @@ digestToCacheKey
               /\ IF s.Final
                  THEN /\ out' = result.fs
                       /\ pc' = "done"
                       /\ fs' = d
                       /\ UNCHANGED <<index, tarballs, saved>>
                  ELSE /\ tarballs' = IF s.SaveStage THEN saveStageAsTarball(Itoa(index), result)
                                      ELSE tarballs
                       /\ saved' = (Itoa(index) :> filesToSave(deps, d)) @@ saved
                       /\ fs' = DeleteFilesystem(d)
                       /\ index' = index + 1
                       /\ UNCHANGED <<pc, out>>
               /\ UNCHANGED <<build, stages>>

Next == plan \/ fetchExtraStages \/ buildStage

Spec == Init /\ [][Next]_vars

-----------------------------------------------------------------------------
(***************************************************************************)
(* Properties.                                                             *)
(***************************************************************************)

(***************************************************************************)
(* What the stages of a Dockerfile mean: each on the base and with the     *)
(* files its text names, all stages in mind and nothing skipped.           *)
(***************************************************************************)
MeantStages(ss) ==
    LET
        named(i, n) == {k \in 1 .. i - 1 : ss[k].Name # "" /\ ss[k].Name = ToLower(n)}
        m[i \in 1 .. Len(ss)] ==
            LET what(n) ==
                    IF named(i, n) # {} THEN m[CHOOSE k \in named(i, n) : TRUE]
                    ELSE IF IsNumber(n) /\ Atoi(n) < i THEN m[Atoi(n)]
                    ELSE IF n \in DOMAIN ImageFS THEN ImageFS[n] ELSE Failed
                step[k \in 0 .. Len(ss[i].cmds)] ==
                    IF k = 0 THEN what(ss[i].BaseName)
                    ELSE LET d == step[k - 1]
                             cmd == ss[i].cmds[k]
                         IN IF d = Failed \/ (cmd.op = "COPY" /\ what(cmd.From) = Failed)
                            THEN Failed
                            ELSE IF cmd.op = "RUN" THEN Run(cmd, d)
                            ELSE Copy(d, what(cmd.From))
            IN step[Len(ss[i].cmds)]
    IN m

Target == targetStage(build.stages, build.target)

(***************************************************************************)
(* The state has its types; a stage is built only while there is one.      *)
(***************************************************************************)
TypeOK ==
    /\ build \in Build
    /\ pc \in {"plan", "fetch", "stage", "done", "failed"}
    /\ pc = "stage" => index \in DOMAIN stages
    /\ DOMAIN tarballs \subseteq {Itoa(i) : i \in 1 .. index} \cup ExtraImages(stages)
    /\ DOMAIN fs = File

(***************************************************************************)
(* The image is the one the Dockerfile means: planning, the renaming of    *)
(* stages to numbers, what is saved between stages and the deletion of the *)
(* file system between them neither lose nor mix up anything.              *)
(***************************************************************************)
TargetIsMeant == pc = "done" => out = MeantStages(build.stages)[Target]

(***************************************************************************)
(* A build of a Dockerfile whose stages all have a meaning does not fail:  *)
(* a base that is a stage has been saved, and files of a stage were kept   *)
(* for those that copy them.                                               *)
(***************************************************************************)
NothingIsMissing ==
    pc = "failed" /\ Target # None =>
        \E i \in 1 .. Target : MeantStages(build.stages)[i] = Failed

(***************************************************************************)
(* build.go: the initial cache key is "the base image digest", or stands   *)
(* for it: stages that start with the same key start from the same files,  *)
(* or the layers of one would be found in the cache by the other.          *)
(***************************************************************************)
KeysTellBasesApart ==
    build.Cache => \A x, y \in began : x.key = y.key => x.base = y.base

=============================================================================
