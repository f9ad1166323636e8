---------------------------- MODULE MCJsonPatch ----------------------------
(***************************************************************************)
(* Pairs of documents with up to two kids each, some with kids of their    *)
(* own, and every operation with pointers that lead somewhere, past the    *)
(* end, nowhere, or are malformed.                                         *)
(***************************************************************************)
EXTENDS JsonPatchRFC

a == <<97>>     b == <<98>>     upperA == <<65>>    upperB == <<66>>
odd == <<126, 47>>              \* ~/

one == Scalar("number", 1)      two == Scalar("number", 2)
null == Scalar("null", 0)       text == Scalar("string", 1)

Lists(items) == {<<>>} \cup {<<x>> : x \in items} \cup {<<x, y>> : x, y \in items}
Arrays(items) == {Array(l) : l \in Lists(items)}
Objects(names, items) ==
    {Object(<<>>)} \cup {Object(<<Member(n, x)>>) : n \in names, x \in items}
    \cup {Object(<<Member(n, x), Member(m, y)>>) : n, m \in names, x, y \in items}

Shallow == {one, two, null, text} \cup Arrays({one, two})
            \cup Objects({a, b, upperB}, {one, null})

(* What stands inside the deeper ones. *)
Inner == {one, null, Array(<<one>>), Array(<<one, two, one>>), Object(<<>>),
          Object(<<Member(b, one)>>), Object(<<Member(b, two), Member(a, one)>>)}

Deep == {Object(<<Member(b, x), Member(m, y)>>)
            : m \in {a, upperA}, x \in Inner, y \in {one, Object(<<Member(a, one)>>)}}
        \cup {Array(<<x, two, y>>) : x \in Inner, y \in {one, Object(<<Member(a, one)>>)}}
        \cup {Object(<<Member(odd, x)>>) : x \in {one, two}}
        \cup {Object(<<Member(n, one), Member(m, two), Member(k, one)>>)
                : n \in {b, upperB}, m \in {a, <<67>>}, k \in {<<99>>, upperA}}

Patched == {one, Array(<<one, two>>), Object(<<Member(b, one), Member(a, two)>>),
            Object(<<Member(odd, two), Member(b, Array(<<one, Object(<<Member(a, two)>>)>>))>>),
            Object(<<Member(b, Object(<<Member(upperA, null), Member(a, one)>>)),
                     Member(upperA, Array(<<two>>))>>),
            Object(<<Member(b, Object(<<Member(b, two), Member(a, one)>>)),
                     Member(a, Array(<<two>>))>>)}

Pointer(tokens) == RootPointer \o tokens
zero == <<48>>      first == <<49>>     second == <<50>>
ten == <<49, 48>>   dash == <<45>>

Pointers ==
    {Pointer(tokens) : tokens \in
        {<<>>, <<a>>, <<b>>, <<upperA>>, <<zero>>, <<first>>, <<second>>, <<dash>>,
         <<b, a>>, <<b, zero>>, <<b, dash>>, <<a, first>>, <<b, first, a>>, <<ten>>,
         << <<126, 48, 126, 49>> >>, << <<48, 49>> >>, << <<>> >>, << <<49, 97>> >>,
         <<b, <<126>> >>}}
    \cup {<<a>>, <<a, b>>}

Values == {NULL, one, Object(<<Member(a, one), Member(b, two)>>)}

SinglePatches ==
    {Patch(op, p, NULL, v) : op \in {"add", "replace", "test"}, p \in Pointers, v \in Values}
    \cup {Patch("remove", p, NULL, NULL) : p \in Pointers}
    \cup {Patch(op, p, f, NULL) : op \in {"move", "copy"}, p \in Pointers, f \in Pointers \cup {NULL}}
    \cup {Patch("add", NULL, NULL, one), Patch("invalid", Pointer(<<a>>), NULL, one)}

(* A test sorts, what comes after it finds the sorted document. *)
TwoPatches ==
    {<<Patch("test", Pointer(<<>>), NULL, Object(<<Member(a, two), Member(b, one)>>)), p>>
        : p \in {q \in SinglePatches : q.op = "remove"}}
    \cup {<<Patch("move", Pointer(<<b>>), Pointer(<<a>>), NULL), p>>
        : p \in {q \in SinglePatches : q.op = "copy" /\ q.from # NULL}}

SomePatchLists == {<<p>> : p \in SinglePatches} \cup TwoPatches

SomePairs == {<<x, y>> : x, y \in Shallow} \cup {<<x, y>> : x, y \in Deep}
             \cup {<<x, NULL>> : x \in Patched}
=============================================================================
