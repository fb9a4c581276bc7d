---------------------------- MODULE MCSnapshotter ----------------------------
(***************************************************************************)
(* Small instances of Snapshotter: a directory with an entry, a second     *)
(* top-level path that may be a file, a directory or a link, and an        *)
(* ignored directory with an entry.                                        *)
(***************************************************************************)
EXTENDS Snapshotter

CONSTANTS d1, d2, m1, m2

MCPath == {<< >>, <<"a">>, <<"a", "x">>, <<"b">>, <<"k">>}

MCIgnored == {<<"k">>}

MCDir == [kind |-> "dir", perm |-> m1, mtime |-> 0, data |-> << >>]
MCFile == [MCDir EXCEPT !.kind = "file", !.data = d1]

BaseTree(dirs, files) ==
    [p \in Path |-> IF p \in dirs THEN MCDir ELSE IF p \in files THEN MCFile ELSE Absent]

(***************************************************************************)
(* Unpacked base images: /a with an entry, and /b a file or missing.       *)
(***************************************************************************)
MCBaseTrees ==
    {BaseTree({<< >>, <<"a">>} \cup Ignored, f) : f \in {{<<"a", "x">>}, {<<"a", "x">>, <<"b">>}}}

=============================================================================
