------------------------------ MODULE MCExtract ------------------------------
(***************************************************************************)
(* Images with a directory /a, a second path /b that is anything, and a    *)
(* directory /c in which something is mounted at /c/k.                     *)
(***************************************************************************)
EXTENDS Extract

CONSTANTS d1, d2, m1, m2

A == <<"a">>
AX == <<"a", "x">>
AXY == <<"a", "x", "y">>
B == <<"b">>
BX == <<"b", "x">>
C == <<"c">>
CK == <<"c", "k">>
CX == <<"c", "x">>

MCPath == {Root, A, AX, AXY, B, BX, C, CK, CX}
MCIgnored == {CK}

Dir1 == [kind |-> "dir", perm |-> m1, mtime |-> 0, data |-> << >>]
Dir2 == [Dir1 EXCEPT !.perm = m2]
File(d) == [Dir1 EXCEPT !.kind = "file", !.data = d]
Link(p) == [Dir1 EXCEPT !.kind = "link", !.data = p]

MCMounted ==
    [p \in MCPath |-> IF p \in {Root, C} THEN Dir1 ELSE IF p = CK THEN File(d1) ELSE Absent]

Tree(ax, b, c) ==
    [p \in MCPath |->
        CASE p = Root -> Dir1
          [] p = A -> ax[1] [] p = AX -> ax[2] [] p = AXY -> ax[3]
          [] p = B -> b [] p = BX -> Absent
          [] p = C -> c[1] [] p = CK -> c[2] [] p = CX -> c[3]]

MCTrees ==
    {Tree(ax, b, c) :
        ax \in {<<Absent, Absent, Absent>>, <<Dir1, Dir1, File(d1)>>, <<Dir2, Absent, Absent>>,
                <<File(d2), Absent, Absent>>, <<Link(B), Absent, Absent>>},
        b \in {Absent, Dir2, File(d1), Link(AX)},
        c \in {<<Absent, Absent, Absent>>, <<Dir2, File(d2), File(d1)>>}}

(***************************************************************************)
(* Layers that do not swap a directory and a link and, as the root may be  *)
(* a sandbox, do not remove a link.                                        *)
(***************************************************************************)
Swaps(d, t) ==
    \E p \in Path : {d[p].kind, t[p].kind} = {"dir", "link"}

RemovesLink(d, t) == \E p \in Path : d[p].kind = "link" /\ t[p].kind = "none"

MCFollows(d, t) == ~Swaps(d, t) /\ ~RemovesLink(d, t)

\* These images keep clear of what is mounted and never put a directory and a
\* link in each other's place: the hypotheses of the theorems.
ASSUME Apart /\ Steady

\* Layers that remove links.
LinksRemoved(d, t) == ~Swaps(d, t)

\* Layers that put links in the place of directories.
LinksForDirs(d, t) == ~RemovesLink(d, t) /\ ~\E p \in Path : d[p].kind = "link" /\ t[p].kind = "dir"

=============================================================================
