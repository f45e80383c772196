--------------------------- MODULE MCMarkerEdits ---------------------------
(* Functions of one statement, nested up to three deep.                    *)
EXTENDS StatementTrees

Leaves == {Tree("x", <<>>), Tree("y", <<>>)}

Block(s) == Tree("block", s)

(* Statements with a part from S, and the other part, if any, from T.      *)
Around(S, T) ==
    {Tree(k, <<s>>) : k \in {"block", "if", "while", "do", "switch"}, s \in S}
        \cup {Tree("if", <<s, t>>) : s \in {r \in S : ~OpenIf(r)}, t \in T}
        \cup {Tree("if", <<t, s>>) : s \in S, t \in {r \in T : ~OpenIf(r)}}

Pairs(S) == {Tree(k, <<s, t>>) : k \in {"block", "switch"}, s \in S, t \in S}

X == {Tree("x", <<>>)}
Depth1 == Around(Leaves, X) \cup Pairs(Leaves)
Depth2 == Around(Depth1, X \cup {Block(<<Tree("x", <<>>)>>)})
Depth3 == Around(Depth2, X) \cup Pairs(Around(X, X))

MCSources ==
    {SourceOf(mode, Block(<<t>>)) : mode \in {"dce", "vr"}, t \in Depth1 \cup Depth2 \cup Depth3}
=============================================================================
