------------------------------- MODULE MCSuite ------------------------------
(***************************************************************************)
(* Suite on a directory of two files.  The asserts compare a variable, or  *)
(* an element of one, with literals of the same and of another type.       *)
(***************************************************************************)
EXTENDS Suite

MCFiles == <<"a", "b">>

Lit(v) == [member |-> "", lit |-> v, index |-> <<>>]
Self(k, ix) == [member |-> k, lit |-> Null, index |-> ix]
Script(declared, left, op, right) ==
    [status |-> "clean", vars |-> declared,
     assert |-> [left |-> left, op |-> op, right |-> Lit(right)]]
Broken(status) ==
    [status |-> status, vars |-> <<>>,
     assert |-> [left |-> Lit(Bool(1)), op |-> "bare", right |-> Lit(Null)]]

X == 13
Port(default, op, right) == Script([port |-> default], Self("port", <<>>), op, right)
Row == Array(<<Num(0), Num(2), Str(<<X>>)>>)
Cell(c, i, op, right) == Script([row |-> c], Self("row", <<i>>), op, right)

Pairs == Dict(<<<<X>>, <<8>>>>, <<Num(1), Num(2)>>)

MCLiterals ==
    {Num(n) : n \in {0, 1, 2, 3, 8}} \cup {Bool(0), Bool(1), Null, Atom(<<X>>), Row, Pairs}
    \cup {Str(s) : s \in {<<8>>, <<X>>, <<8, 0>>, <<8, X>>}}

Scripts ==
    {Broken("unreadable"), Broken("unparsable"), Broken("invalid"), Broken("warned"),
     Port(Num(8), "==", Num(8)), Port(Num(8), ">=", Num(8)), Port(Num(8), "!=", Str(<<8>>)),
     Port(NoDefault, "==", Num(8)), Port(NoDefault, "<", Str(<<8, 0>>)),
     Port(Bool(0), "bare", Null), Port(Atom(<<X>>), "==", Atom(<<X>>)),
     Port(Str(<<8, X>>), "contains", Str(<<X>>)), Port(Row, "contains", Num(2)),
     Port(Num(8), "<", Str(<<8>>)),
     Cell(Row, Num(0), "==", Num(0)), Cell(Row, Num(2), "!=", Num(2)), Cell(Row, Num(3), "==", Str(<<X>>)),
     Cell(Pairs, Num(1), "==", Num(2)),
     Cell(Pairs, Str(<<X>>), "<=", Num(1))}

\* One file is any of them, the other is plain or broken.
Plain == Port(Num(8), "==", Num(8))
Others == {Plain, Broken("unreadable"), Broken("invalid"), Broken("warned")}
MCDisks == {[a |-> x, b |-> y] : x \in Scripts, y \in Others}
MCSaved == {Plain, Broken("invalid")}

MCSelections ==
    {<<>>, <<"a">>, <<"b", "a">>, <<"dir", "a">>, <<"other">>, <<"dark", "b">>, <<"a", "other">>}

Arg(key, text) == [key |-> key, text |-> text, eq |-> TRUE]

MCRawArgs ==
    {<<>>, <<[key |-> "", text |-> <<>>, eq |-> FALSE]>>, <<Arg("", <<8>>)>>,
     <<Arg("port", <<8>>), Arg("port", <<8>>)>>, <<Arg("port", <<8>>)>>,
     <<Arg("port", <<8, 0>>)>>, <<Arg("port", <<9, 9, 9>>)>>, <<Arg("port", <<True>>)>>,
     <<Arg("port", <<Colon, X>>)>>, <<Arg("port", <<X>>)>>, <<Arg("prot", <<8>>)>>}
=============================================================================
