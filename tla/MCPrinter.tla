------------------------------ MODULE MCPrinter ------------------------------
(***************************************************************************)
(* Instances of Printer: trees of every kind, up to three levels.          *)
(***************************************************************************)
EXTENDS PrinterText

Leaf(kind, n, name) == [kind |-> kind, size |-> n, name |-> name, kids |-> <<>>]
List(kind, name, kids) == [kind |-> kind, size |-> 0, name |-> name, kids |-> kids]

Leaves ==
    {Leaf("null", 4, 0), Leaf("false", 5, 0), Leaf("number", 1, 0), Leaf("number", 3, 0),
     Leaf("string", 0, 0), Leaf("string", 2, 0), Leaf("raw", 0, 0), Leaf("raw", 2, 0),
     Leaf("invalid", 0, 0)}

Named(i, n) == [i EXCEPT !.name = n]

Small == Leaves \cup {List("array", 0, <<>>), List("object", 0, <<>>)}

Pairs(kinds, kids) ==
    {List(k, 0, <<Named(a, 0), Named(b, 1)>>) : k \in kinds, a \in kids, b \in kids}
Singles(kinds, kids) == {List(k, 0, <<Named(a, 1)>>) : k \in kinds, a \in kids}

Lists == {"array", "object"}

Trees ==
    Small \cup Pairs(Lists, Small) \cup Singles(Lists, Singles(Lists, Small))

RawNulls == {Leaf("rawNull", 0, 0), List("array", 0, <<Leaf("rawNull", 0, 0)>>)}

AllTrees == Trees \cup RawNulls

WithKids(S) == S \cup UNION {{i.kids[k] : k \in DOMAIN i.kids} : i \in S}

AllItems == WithKids(WithKids(AllTrees))
=============================================================================
