----------------------------- MODULE MCCopySort -----------------------------
(***************************************************************************)
(* Structures of up to six items: lists of up to five members, members     *)
(* that have members, and references.                                      *)
(***************************************************************************)
EXTENDS CopySort, TLC

Letters == {65, 66, 97, 98}     \* A B a b
Folding == [k \in Letters |-> S!ToLower(k)]

(* Names that are not in order, some of them the same but for their case. *)
Letter(x) == <<97, 98, 66, 97, 65>>[x]

Structure(items, kids, reference, named, texts) ==
    [items |-> items,
     kids |-> [x \in Item |-> IF x \in DOMAIN kids THEN kids[x] ELSE <<>>],
     reference |-> reference, string |-> named, texts |-> texts,
     roots |-> {x \in items : named[x] = NULL}]

Names(items, letters) == {s \in [items -> {NULL} \cup {Copy(k) : k \in letters}] :
                            s[1] = NULL}

(* Item 1 and its members 2 ... n + 1; a list of up to three may have one   *)
(* that has no name, or names that are literals.                            *)
Flat(n, named) ==
    [Structure(1..n + 1, <<[i \in 1..n |-> i + 1]>>, <<>>, named, {2})
     EXCEPT !.roots = {1}]

AllNamed(named) == \A x \in DOMAIN named \ {1} : named[x] # NULL

FlatLists ==
    {Flat(3, named) : named \in Names(1..4, {65, 66, 97})}
    \cup {Flat(4, named) : named \in {s \in Names(1..5, Letters) : AllNamed(s)}}
    \cup {Flat(5, named) : named \in {s \in Names(1..6, {65, 66, 97}) : AllNamed(s)}}
    \cup {Flat(n, [x \in 1..n + 1 |-> IF x = 1 THEN NULL ELSE Literal(Letter(x))])
            : n \in 0..3}

(* 1 has 2 and 3, and one of these has 4, or 4 and 5. *)
Nested(p, n, named) ==
    [Structure(1..3 + n, 1 :> <<2, 3>> @@ p :> [i \in 1..n |-> i + 3], <<>>, named, {4})
     EXCEPT !.roots = {1}]

NestedLists ==
    {Nested(p, n, [x \in 1..3 + n |->
                      IF x = 1 THEN NULL
                      ELSE IF x \in consts THEN Literal(Letter(x)) ELSE Copy(Letter(x))])
       : p \in {2, 3}, n \in {1, 2}, consts \in SUBSET (2..4)}

(* 1 has 2, a reference to 3, which the program holds; 3 has 4 and 5. *)
References ==
    {Structure(1..5, 1 :> <<2>> @@ 3 :> <<4, 5>>, 2 :> 3, named, {4})
       : named \in {[x \in 1..5 |-> IF x \in {1, 3} THEN NULL
                                     ELSE IF x \in consts THEN Literal(Letter(x))
                                     ELSE Copy(Letter(x))] : consts \in SUBSET {2, 4, 5}}}

NoItems == Structure({}, <<>>, <<>>, <<>>, {})

SmallSources == {NoItems} \cup FlatLists \cup NestedLists \cup References
=============================================================================
