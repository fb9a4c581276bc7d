------------------------------- MODULE MCCopy -------------------------------
(***************************************************************************)
(* Three builds on images with and without links at the destination, with  *)
(* contexts that differ in contents, modes and what .dockerignore names.   *)
(***************************************************************************)
EXTENDS Copy

\* The paths in lexical order: /d, /e, /n are of the image, /k of an earlier
\* stage, /p is the passwd file, /w the context.
MCWalk ==
    << <<>>, <<"d">>, <<"d","f">>, <<"d","g">>, <<"d","l">>, <<"d","l","f">>, <<"d","s">>, <<"d","s","f">>,
       <<"e">>, <<"e","f">>, <<"e","g">>, <<"e","l">>, <<"e","l","f">>, <<"e","s">>, <<"e","s","f">>,
       <<"k">>, <<"k","f">>, <<"n">>, <<"n","f">>, <<"p">>,
       <<"w">>, <<"w","f">>, <<"w","g">>, <<"w","l">>, <<"w","s">>, <<"w","s","f">> >>

MCPath == ToSet(MCWalk)
MCContextRoot == <<"w">>
MCStageRoot == <<"k">>
MCIgnored == {<<"w">>, <<"k">>}
MCPasswdFile == <<"p">>

MCData == {<<"1">>, <<"2">>, <<"3">>, <<"app7">>, <<"tar">>}
MCPerm == [mode : {"600", "644", "755", "777"}, own : {"0", "7"} \X {"0", "7"}]
MCPasswd == <<"app7">> :> ("app" :> "7")

D(m) == NewNode("dir", m, root, Root)
F(m, x) == NewNode("file", m, root, x)
L(t) == NewNode("link", "777", root, t)

Tree(nodes) == [p \in MCPath |-> IF p \in DOMAIN nodes THEN nodes[p] ELSE
                                 IF p = Root THEN D("755") ELSE Absent]

MCArchives == <<"tar">> :> << [path |-> <<"f">>, node |-> F("600", <<"2">>)],
                              [path |-> <<"s">>, node |-> D("755")] >>
\* An archive with a link.
LinkArchives == <<"tar">> :> << [path |-> <<"l">>, node |-> L(<<"e">>)] >>
MCRemote == {<<"3">>}

\* Images: with a directory and files; with a link to a directory, to a file,
\* to nothing; with files where directories will go.
Plain == (<<"p">> :> F("644", <<"app7">>)) @@ (<<"d">> :> D("755"))
              @@ (<<"d","f">> :> NewNode("file", "644", <<"7","7">>, <<"1">>)) @@ (<<"d","l">> :> D("755")) @@ (<<"d","l","f">> :> F("600", <<"2">>))
DirLink == (<<"d">> :> L(<<"e">>)) @@ (<<"e">> :> D("755")) @@ (<<"e","g">> :> F("600", <<"2">>))
FileLink == (<<"d">> :> D("755")) @@ (<<"d","f">> :> L(<<"e","f">>)) @@ (<<"d","s">> :> F("644", <<"1">>))
                @@ (<<"e">> :> D("755"))
InnerLink == (<<"d">> :> D("755")) @@ (<<"d","s">> :> L(<<"e">>)) @@ (<<"d","f">> :> L(<<"n">>)) @@ (<<"e">> :> D("777"))
MCBases == {Tree(Plain), Tree(DirLink), Tree(FileLink), Tree(InnerLink)}

Context(nodes, out, back) ==
    [tree |-> Tree((<<"w">> :> D("755")) @@ (<<"k">> :> D("755")) @@ (<<"k","f">> :> F("644", <<"3">>)) @@ nodes),
     out |-> out, back |-> back]

Files(x, m, y) == (<<"w","f">> :> F("644", x)) @@ (<<"w","l">> :> L(<<"e">>)) @@ (<<"w","s">> :> D(m)) @@ (<<"w","s","f">> :> F("600", y))

MCContexts ==
    { Context(Files(<<"1">>, "755", <<"2">>), {}, {}),
      Context(Files(<<"1">>, "755", <<"3">>), {}, {}),
      Context(Files(<<"1">>, "777", <<"2">>), {<<"s">>}, {}),
      Context(Files(<<"2">>, "755", <<"2">>), {<<"s">>}, {<<"s","f">>}),
      Context(Files(<<"tar">>, "755", <<"2">>), {<<"f">>}, {}),
      Context(<<"w","s">> :> D("755"), {}, {}) }

\* A file gets another name.
RenamedContexts == {Context(<<"w","f">> :> F("644", <<"1">>), {}, {}),
                    Context(<<"w","g">> :> F("644", <<"1">>), {}, {})}

Path1(p) == <<[type |-> "path", path |-> p]>>
Wild(p) == <<[type |-> "wild", path |-> p]>>
URL(f) == <<[type |-> "url", path |-> <<f>>]>>
To(p) == [abs |-> TRUE, path |-> p, slash |-> FALSE]
Into(p) == [abs |-> TRUE, path |-> p, slash |-> TRUE]
Here == [abs |-> FALSE, path |-> <<>>, slash |-> TRUE]
App == [user |-> [id |-> None, name |-> "app"], group |-> None]

Cmd(op, text, s, dest) ==
    [op |-> op, text |-> text, from |-> FALSE, srcs |-> s, dest |-> dest, cwd |-> Root,
     chown |-> None, chmod |-> None]

MCCommands ==
    { Cmd("COPY", "COPY . /d", Path1(<<>>), To(<<"d">>)),
      Cmd("COPY", "COPY s /e", Path1(<<"s">>), To(<<"e">>)),
      Cmd("COPY", "COPY f /d/", Path1(<<"f">>), Into(<<"d">>)),
      Cmd("COPY", "COPY f /n/f", Path1(<<"f">>), To(<<"n","f">>)),
      Cmd("COPY", "COPY s/f f /d/", Path1(<<"s","f">>) \o Path1(<<"f">>), Into(<<"d">>)),
      Cmd("COPY", "COPY s/* /e/", Wild(<<"s">>), Into(<<"e">>)),
      [Cmd("COPY", "COPY . .", Path1(<<>>), Here) EXCEPT !.cwd = <<"w">>],
      [Cmd("COPY", "COPY --from=0 f /d/", Path1(<<"f">>), Into(<<"d">>)) EXCEPT !.from = TRUE],
      [Cmd("COPY", "COPY --chown=app --chmod=600 s /n", Path1(<<"s">>), To(<<"n">>))
          EXCEPT !.chown = App, !.chmod = "600"],
      Cmd("ADD", "ADD f http://g /d/", Path1(<<"f">>) \o URL("g"), Into(<<"d">>)),
      Cmd("ADD", "ADD http://f s /d/", URL("f") \o Path1(<<"s">>), Into(<<"d">>)),
      Cmd("ADD", "ADD f /d", Path1(<<"f">>), To(<<"d">>)) }

=============================================================================
