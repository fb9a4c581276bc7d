----------------------------- MODULE StageBuild -----------------------------
(***************************************************************************)
(* What building a stage promises, without the file system, the            *)
(* snapshotter, the cache and its keys, which are the means: the image of  *)
(* a builder begins as the base image and takes in the commands of the     *)
(* Dockerfile one after the other, each as one layer, or all in one with   *)
(* --single-snapshot; and a build that is done has taken in all.           *)
(*                                                                         *)
(* README.md: kaniko "extracts the filesystem of the base image", then     *)
(* executes the commands, and "after each command, we append a layer of    *)
(* changed files to the base image".                                       *)
(***************************************************************************)
EXTENDS Naturals

CONSTANTS
    Builder,     \* builds that run at the same time
    Job,         \* what a build may be asked to do
    Commands(_), \* the number of commands of a job
    Tree(_, _),  \* Tree(j, n): the file system that the first n commands make
    OneLayer(_)  \* is the image of a job to have one layer?

VARIABLES
    job,         \* what each builder builds
    taken,       \* the commands that the image has taken in
    image,       \* the file system of the image so far
    status       \* "building", "done" or "failed"

vars == <<job, taken, image, status>>

Init ==
    /\ job \in [Builder -> Job]
    /\ taken = [b \in Builder |-> 0]
    /\ image = [b \in Builder |-> Tree(job[b], 0)]
    /\ status = [b \in Builder |-> "building"]

(***************************************************************************)
(* A layer is appended: it takes in one command, and only commands that    *)
(* change nothing are passed over.                                         *)
(***************************************************************************)
appendLayer(b) ==
    LET j == job[b]
    IN \E n \in taken[b] + 1 .. Commands(j) :
         /\ status[b] = "building"
         /\ IF OneLayer(j) THEN n = Commands(j)
            ELSE \A i \in taken[b] + 1 .. n - 1 : Tree(j, i) = Tree(j, taken[b])
         /\ taken' = [taken EXCEPT ![b] = n]
         /\ image' = [image EXCEPT ![b] = Tree(j, n)]
         /\ UNCHANGED <<job, status>>

(***************************************************************************)
(* The build ends with an image that needs no further layer.               *)
(***************************************************************************)
finish(b) ==
    /\ status[b] = "building"
    /\ image[b] = Tree(job[b], Commands(job[b]))
    /\ taken' = [taken EXCEPT ![b] = Commands(job[b])]
    /\ status' = [status EXCEPT ![b] = "done"]
    /\ UNCHANGED <<job, image>>

fail(b) ==
    /\ status[b] = "building"
    /\ status' = [status EXCEPT ![b] = "failed"]
    /\ UNCHANGED <<job, taken, image>>

Next == \E b \in Builder : appendLayer(b) \/ finish(b) \/ fail(b)

Spec == Init /\ [][Next]_vars

=============================================================================
