------------------------------- MODULE MCGrammar -------------------------------
(* Inputs for TLC: every short string over the symbols in the field where its *)
(* shape matters, a few in the others.                                        *)
EXTENDS Grammar, TLC

Strings(chars, max) == UNION {[1 .. n -> chars] : n \in 0 .. max}
Shapes == Strings({"a", ".", "+", ":", "/", "\n"}, 3)
Few == {<<"a">>, <<"a", "\n">>, <<>>, <<"a", ".", "a">>}

Fields(eco, names, versions, art) ==
    [object : {TRUE}, extra : {FALSE}, verb : {"fetch"},
     ecosystem : eco, name : names, version : versions, artifact : art]

AllRequests ==
    Fields(Ecosystems, Shapes, Few, {<<"wheel">>})
    \cup Fields({<<"pypi">>}, Few, Shapes, Artifacts)
    \cup [object : BOOLEAN, extra : BOOLEAN, verb : {"fetch", "push"},
          ecosystem : {<<"pypi">>, <<"a">>, <<"pypi", "\n">>, NotAString},
          name : {<<"a">>, <<"/">>, NotAString}, version : {<<"a">>, <<"/">>, NotAString},
          artifact : {<<"wheel">>, <<"a">>, NotAString}]

\* Keys of three to five parts, each a short string or a word.
Parts == Strings({"a", "/", "\n"}, 2) \cup {<<"wheel">>, <<"pypi">>, <<"wheel", "\n">>}
Tails == {<<>>, <<":", "a", ":", "wheel">>, <<":", "wheel", ":", "a">>} \cup {<<":">> \o p : p \in Parts}
AllKeys == {<<"pypi", ":">> \o b \o <<":">> \o c \o d : b \in Parts, c \in Parts, d \in Tails}
           \cup {<<"a", ":">> \o b \o <<":", "a", ":", "wheel">> : b \in Parts}

Halves == Strings({"a", ".", "+", "="}, 3)
AllSpecs == {s \o n \o <<"=", "=">> \o v \o t : s \in {<<>>, <<" ">>}, n \in Halves, v \in Halves, t \in {<<>>, <<"\n">>}}
            \cup Strings({"a", "=", " ", "/"}, 5)
=============================================================================
