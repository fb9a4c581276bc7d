------------------------------ MODULE MCConfig ------------------------------
(***************************************************************************)
(* Small instances of Config: two variables and a proxy variable, options  *)
(* that set one of them, set it to nothing or set the proxy, and commands  *)
(* that define variables followed by one that uses them, or that set       *)
(* shells and command lines.                                               *)
(***************************************************************************)
EXTENDS Config

Esc(k) == [type |-> "esc", key |-> k]
No == [k \in Key |-> Unset]

MCKey == {"A", "B", "P"}
MCValue == {"", "1", "2", "3", "img"}
MCOptions == {No, [No EXCEPT !["A"] = Lit("2")], [No EXCEPT !["A"] = Lit(""), !["P"] = Lit("2")]}
MCMetaArgs ==
    {<< >>, <<[key |-> "A", val |-> Lit("1")], [key |-> "B", val |-> Var("A")]>>}

MCScratchEnv == [No EXCEPT !["P"] = Lit("3")]
MCSignals == {Lit("1"), Lit("2"), Lit("3")}

BaseConfig == [EmptyConfig EXCEPT
    !.env = [No EXCEPT !["B"] = Lit("3")],
    !.labels = [x \in LabelName |-> IF x = "x" THEN Lit("3") ELSE Unset],
    !.ports = {<<Lit("3"), "tcp">>},
    !.workdir = <<Lit("3")>>,
    !.cmd = [shell |-> Nil, at |-> Nil, line |-> "base"],
    !.onbuild = <<[op |-> "ENV", pairs |-> <<[key |-> "A", val |-> Lit("3")]>>]>>]

MCImages == [v \in {Lit("img"), Lit("1"), Lit("2")} |->
                IF v = Lit("img") THEN BaseConfig ELSE EmptyConfig]

MCOptLabels == [x \in LabelName |-> IF x = "y" THEN Lit("2") ELSE Unset]

Arg(k, v) == [op |-> "ARG", key |-> k, val |-> v]
Pairs(op, p) == [op |-> op, pairs |-> p]
Line(op, shell, l) == [op |-> op, prependShell |-> shell, line |-> l]
Of1(op, w) == [op |-> op, word |-> w]

Definers ==
    {Arg("A", Nil), Arg("A", Lit("1")), Arg("B", Var("A")),
     Pairs("ENV", <<[key |-> "A", val |-> Lit("3")]>>),
     Pairs("ENV", <<[key |-> "A", val |-> Var("B")], [key |-> "B", val |-> Var("A")]>>)}

Users ==
    {Pairs("LABEL", <<[key |-> "x", val |-> Var("A")], [key |-> "y", val |-> Var("P")]>>),
     [op |-> "EXPOSE", word |-> Var("A"), proto |-> Nil],
     [op |-> "EXPOSE", word |-> Lit("1"), proto |-> "icmp"],
     [op |-> "USER", words |-> <<Var("A"), Esc("B")>>],
     [op |-> "WORKDIR", word |-> Var("A"), abs |-> FALSE],
     Of1("STOPSIGNAL", Var("A")), Of1("VOLUME", Var("B")),
     [op |-> "HEALTHCHECK", test |-> "t"],
     [op |-> "ONBUILD", trigger |-> Pairs("LABEL", <<[key |-> "x", val |-> Var("B")]>>)]}

Lines ==
    {[op |-> "SHELL", shell |-> "bash"], Line("CMD", TRUE, "serve"), Line("CMD", FALSE, "list"),
     Line("ENTRYPOINT", TRUE, "enter"), Line("RUN", TRUE, "run")}

EscapedLists == {<<Pairs("LABEL", <<[key |-> "x", val |-> Esc("B")]>>)>>}
EscLists == <<EscapedLists, {<< >>}>>
OnBuildLines == Lines \cup {[op |-> "ONBUILD", trigger |-> Line("CMD", FALSE, "list")]}
Upto(S, n) == UNION {[1 .. m -> S] : m \in 0 .. n}

VariableLists(n) == {Append(d, u) : d \in Upto(Definers, n), u \in Users}

MCLists == <<VariableLists(2) \cup Upto(Lines, 2), VariableLists(1) \cup Upto(Lines, 2)>>

MCFroms == <<{[word |-> Lit("img")], [word |-> Var("A")]}, {[stage |-> 1], [word |-> Lit("img")]}>>

OnBuildLists == <<Upto(OnBuildLines, 2), Upto(OnBuildLines, 2)>>
MCShellLen == [s \in {"bash"} |-> 4]
RoomyShellLen == [s \in {"bash"} |-> 3]

=============================================================================
