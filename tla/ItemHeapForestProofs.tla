------------------------ MODULE ItemHeapForestProofs ------------------------
(***************************************************************************)
(* The linked items implement the forest, whatever the program does with   *)
(* them, as long as names can be copied.  Each call is a step of Forest:   *)
(* the proof reads lists as the items that come behind one another, says   *)
(* what taking an item out of a list or exchanging it does to them, and    *)
(* gets the way back, putting an item in, from the same lemma.             *)
(***************************************************************************)
EXTENDS ItemHeapForest, ItemHeapProofs

Links == [Item -> Item \cup {NULL}]

(* What a walk along n meets, x included, and without x.                    *)
From(n, x) ==
    LET Closed == {T \in SUBSET Item : x \in T /\ \A y \in T : n[y] # NULL => n[y] \in T}
    IN  {y \in Item : \A T \in Closed : y \in T}
Behind(n, x) == IF n[x] = NULL THEN {} ELSE From(n, n[x])

(* m are the links n without x, which n does not link to itself.            *)
IsWithout(n, m, x) ==
    /\ m[x] = NULL /\ n[x] # x
    /\ \A z \in Item \ {x} : m[z] = IF n[z] = x THEN n[x] ELSE n[z]

(* m are the links n with y, which is in no list of n, in the place of x.   *)
IsExchanged(n, m, x, y) ==
    /\ x # y /\ m[x] = NULL /\ n[y] = NULL /\ m[y] = n[x] /\ n[x] # x
    /\ \A z \in Item : n[z] # y
    /\ \A z \in Item \ {x, y} : m[z] = IF n[z] = x THEN y ELSE n[z]

(* d are the children c with y in the place of x, where that is p's.        *)
HeadExchanged(c, d, R, p, x, y) ==
    \A q \in Item \ R : c[q] # y /\ d[q] = IF q = p /\ c[p] = x THEN y ELSE c[q]

(* m and d are the links n and c without what is in G, which nothing else   *)
(* leads to.                                                                *)
AreCleared(n, c, R, G, m, d) ==
    /\ \A z \in Item \ G : n[z] \notin G
    /\ \A z \in (Item \ R) \ G : c[z] \notin G
    /\ \A z \in Item : m[z] = IF z \in G THEN NULL ELSE n[z]
    /\ \A z \in Item : d[z] = IF z \in G THEN NULL ELSE c[z]

-----------------------------------------------------------------------------
(* Lists as sets.                                                           *)

LEMMA FromClosed ==
    ASSUME NEW n \in Links, NEW x \in Item
    PROVE  /\ x \in From(n, x) /\ From(n, x) \in SUBSET Item
           /\ \A y \in From(n, x) : n[y] # NULL => n[y] \in From(n, x)
  <1>1. x \in From(n, x) /\ From(n, x) \in SUBSET Item
    BY DEF From
  <1>2. ASSUME NEW y \in From(n, x), n[y] # NULL PROVE n[y] \in From(n, x)
    <2>1. y \in Item /\ n[y] \in Item
      BY <1>2 DEF From, Links
    <2>2. ASSUME NEW T \in SUBSET Item, x \in T, \A z \in T : n[z] # NULL => n[z] \in T
          PROVE  n[y] \in T
      BY <1>2, <2>2 DEF From
    <2>3. QED BY <2>1, <2>2 DEF From
  <1>3. QED BY <1>1, <1>2

LEMMA FromLeast ==
    ASSUME NEW n, NEW x \in Item, NEW T \in SUBSET Item, x \in T,
           \A y \in T : n[y] # NULL => n[y] \in T
    PROVE  From(n, x) \subseteq T
  BY DEF From

LEMMA FromInside ==
    ASSUME NEW n \in Links, NEW x \in Item, NEW y \in From(n, x)
    PROVE  y \in Item /\ From(n, y) \subseteq From(n, x)
  <1>1. y \in Item
    BY FromClosed
  <1>2. QED BY <1>1, FromClosed, FromLeast

LEMMA FromUnfolded ==
    ASSUME NEW n \in Links, NEW x \in Item
    PROVE  From(n, x) = {x} \cup Behind(n, x) /\ Behind(n, x) \in SUBSET Item
  <1>1. n[x] \in Item \cup {NULL}
    BY DEF Links
  <1>2. CASE n[x] = NULL
    <2> DEFINE T == {x}
    <2>1. T \in SUBSET Item /\ x \in T /\ \A y \in T : n[y] # NULL => n[y] \in T
      BY <1>2
    <2>2. From(n, x) \subseteq {x}
      <3> HIDE DEF T
      <3>1. From(n, x) \subseteq T
        BY <2>1, FromLeast
      <3>2. QED BY <3>1 DEF T
    <2>3. {x} \subseteq From(n, x) /\ Behind(n, x) = {}
      BY <1>2, FromClosed DEF Behind
    <2>4. QED BY <2>2, <2>3
  <1>3. CASE n[x] # NULL
    <2>1. n[x] \in Item /\ Behind(n, x) = From(n, n[x]) /\ n[x] \in From(n, x)
      BY <1>1, <1>3, FromClosed DEF Behind
    <2>2. From(n, n[x]) \subseteq From(n, x) /\ x \in From(n, x)
      BY <2>1, FromInside, FromClosed
    <2> DEFINE T == {x} \cup From(n, n[x])
    <2>3. T \in SUBSET Item /\ x \in T /\ \A y \in T : n[y] # NULL => n[y] \in T
      BY <2>1, FromClosed
    <2>4. From(n, x) \subseteq T
      <3> HIDE DEF T
      <3>1. QED BY <2>3, FromLeast
    <2>5. QED BY <2>1, <2>2, <2>4, FromClosed
  <1>4. QED BY <1>2, <1>3

(* Every item of a list but the first has one before it.                    *)
LEMMA FromBefore ==
    ASSUME NEW n \in Links, NEW x \in Item, NEW y \in From(n, x), y # x
    PROVE  \E w \in From(n, x) : n[w] = y
  <1> SUFFICES ASSUME \A w \in From(n, x) : n[w] # y PROVE FALSE
    OBVIOUS
  <1> DEFINE T == From(n, x) \ {y}
  <1>1. T \in SUBSET Item /\ x \in T /\ \A z \in T : n[z] # NULL => n[z] \in T
    BY FromClosed
  <1> HIDE DEF T
  <1>2. From(n, x) \subseteq T
    BY <1>1, FromLeast
  <1>3. QED BY <1>2 DEF T

(* Of two items of a list one is behind the other.                          *)
LEMMA FromLinear ==
    ASSUME NEW n \in Links, NEW x \in Item, NEW y \in From(n, x), NEW z \in From(n, x)
    PROVE  y \in From(n, z) \/ z \in From(n, y)
  <1> DEFINE T == {w \in From(n, x) : y \in From(n, w) \/ w \in From(n, y)}
  <1>1. y \in Item
    BY FromClosed
  <1>2. T \in SUBSET Item /\ x \in T
    BY FromClosed
  <1>3. ASSUME NEW w \in T, n[w] # NULL PROVE n[w] \in T
    <2>1. w \in Item /\ w \in From(n, x) /\ n[w] \in From(n, x) /\ n[w] \in Item
      BY <1>3, FromClosed DEF Links
    <2>2. CASE w \in From(n, y)
      BY <1>1, <1>3, <2>1, <2>2, FromClosed
    <2>3. CASE y \in From(n, w) /\ y # w
      <3>1. y \in Behind(n, w)
        BY <2>1, <2>3, FromUnfolded
      <3>2. QED BY <1>3, <2>1, <3>1 DEF Behind
    <2>4. CASE y = w
      BY <1>1, <1>3, <2>1, <2>4, FromClosed
    <2>5. QED BY <2>2, <2>3, <2>4
  <1> HIDE DEF T
  <1>4. From(n, x) \subseteq T
    BY <1>2, <1>3, FromLeast
  <1>5. QED BY <1>4 DEF T

(* A walk that meets a whole list began in it.                              *)
LEMMA FromApart ==
    ASSUME NEW n \in Links, NEW h \in Item, \A z \in Item : n[z] # h,
           \A w, z \in Item : n[w] = n[z] /\ n[w] # NULL => w = z,
           NEW y \in Item, NEW x \in From(n, y), x \in From(n, h)
    PROVE  y \in From(n, h)
  <1> SUFFICES ASSUME y \notin From(n, h) PROVE FALSE
    OBVIOUS
  <1> DEFINE T == Item \ From(n, h)
  <1>1. ASSUME NEW z \in T, n[z] # NULL PROVE n[z] \in T
    <2>1. z \in Item /\ n[z] \in Item /\ z \notin From(n, h)
      BY <1>1 DEF Links
    <2>2. ASSUME n[z] \in From(n, h) PROVE FALSE
      <3>1. n[z] # h
        BY <2>1
      <3>2. PICK w \in From(n, h) : n[w] = n[z]
        BY <2>2, <3>1, FromBefore
      <3>3. w \in Item
        BY FromClosed
      <3>4. w = z
        BY <1>1, <2>1, <3>2, <3>3
      <3>5. QED BY <2>1, <3>4
    <2>3. QED BY <2>1, <2>2
  <1>2. T \in SUBSET Item /\ y \in T
    OBVIOUS
  <1> HIDE DEF T
  <1>3. From(n, y) \subseteq T
    BY <1>1, <1>2, FromLeast
  <1>4. QED BY <1>3 DEF T

(* Links that agree on a list have the same list.                           *)
LEMMA FromSame ==
    ASSUME NEW n \in Links, NEW m \in Links, NEW x \in Item,
           \A y \in From(n, x) : m[y] = n[y]
    PROVE  From(m, x) = From(n, x) /\ Behind(m, x) = Behind(n, x)
  <1>1. From(m, x) \subseteq From(n, x)
    BY FromClosed, FromLeast
  <1>2. \A y \in From(m, x) : n[y] # NULL => n[y] \in From(m, x)
    BY <1>1, FromClosed
  <1>3. From(n, x) \subseteq From(m, x)
    BY <1>2, FromClosed, FromLeast
  <1>4. m[x] = n[x]
    BY FromClosed
  <1>5. CASE n[x] = NULL
    BY <1>1, <1>3, <1>4, <1>5 DEF Behind
  <1>6. CASE n[x] # NULL
    <2>1. n[x] \in Item /\ n[x] \in From(n, x)
      BY <1>6, FromClosed DEF Links
    <2> DEFINE y == n[x]
    <2>2. From(n, y) \subseteq From(n, x) /\ y \in Item
      BY <2>1, FromInside
    <2>3. \A z \in From(n, y) : m[z] = n[z]
      BY <2>2
    <2> HIDE DEF y
    <2>4. From(m, y) \subseteq From(n, y)
      BY <2>2, <2>3, FromClosed, FromLeast
    <2>5. \A z \in From(m, y) : n[z] # NULL => n[z] \in From(m, y)
      BY <2>2, <2>3, <2>4, FromClosed
    <2>6. From(n, y) \subseteq From(m, y)
      BY <2>2, <2>5, FromClosed, FromLeast
    <2>7. QED BY <1>1, <1>3, <1>4, <1>6, <2>4, <2>6 DEF Behind, y
  <1>7. QED BY <1>5, <1>6

(* Taking x out takes it out of every list and leaves the rest in order.    *)
LEMMA WithoutLists ==
    ASSUME NEW n \in Links, NEW m \in Links, NEW x \in Item, IsWithout(n, m, x),
           NEW y \in Item, y # x
    PROVE  From(m, y) = From(n, y) \ {x} /\ Behind(m, y) = Behind(n, y) \ {x}
  <1>1. ASSUME NEW w \in Item, w # x PROVE From(m, w) = From(n, w) \ {x}
    <2>1. From(m, w) \subseteq From(n, w) \ {x}
      <3> DEFINE T == From(n, w) \ {x}
      <3>1. T \in SUBSET Item /\ w \in T
        BY <1>1, FromClosed
      <3>2. ASSUME NEW z \in T, m[z] # NULL PROVE m[z] \in T
        <4>1. z \in Item \ {x} /\ z \in From(n, w)
          BY FromClosed
        <4>2. n[z] # NULL => n[z] \in From(n, w)
          BY <1>1, <4>1, FromClosed
        <4>3. m[z] = IF n[z] = x THEN n[x] ELSE n[z]
          BY <4>1 DEF IsWithout
        <4>4. CASE n[z] = x
          <5>1. x \in From(n, w) /\ n[x] # NULL /\ m[z] = n[x]
            BY <3>2, <4>2, <4>3, <4>4, NullIsNoItem
          <5>2. n[x] \in From(n, w) /\ n[x] # x
            BY <1>1, <5>1, FromClosed DEF IsWithout
          <5>3. QED BY <5>1, <5>2
        <4>5. CASE n[z] # x
          BY <3>2, <4>2, <4>3, <4>5
        <4>6. QED BY <4>4, <4>5
      <3> HIDE DEF T
      <3>3. From(m, w) \subseteq T
        BY <3>1, <3>2, <1>1, FromLeast
      <3>4. QED BY <3>3 DEF T
    <2>2. From(n, w) \subseteq From(m, w) \cup {x}
      <3> DEFINE T == From(m, w) \cup {z \in {x} : \E v \in From(m, w) : n[v] = x}
      <3>1. T \in SUBSET Item /\ w \in T
        BY <1>1, FromClosed
      <3>2. ASSUME NEW z \in T, n[z] # NULL PROVE n[z] \in T
        <4>1. CASE z \in From(m, w)
          <5>1. z # x /\ z \in Item
            BY <2>1, <4>1, <3>1
          <5>2. CASE n[z] = x
            BY <4>1, <5>2
          <5>3. CASE n[z] # x
            <6>1. m[z] = n[z]
              BY <5>1, <5>3 DEF IsWithout
            <6>2. QED BY <1>1, <3>2, <4>1, <6>1, FromClosed
          <5>4. QED BY <5>2, <5>3
        <4>2. CASE z \notin From(m, w)
          <5>1. z = x
            BY <4>2
          <5>2. PICK v \in From(m, w) : n[v] = x
            BY <4>2
          <5>3. v \in Item \ {x}
            BY <2>1, <3>1, <5>2
          <5>4. m[v] = n[x]
            BY <5>2, <5>3 DEF IsWithout
          <5>5. QED BY <1>1, <3>2, <5>1, <5>2, <5>4, FromClosed
        <4>3. QED BY <4>1, <4>2
      <3> HIDE DEF T
      <3>3. From(n, w) \subseteq T
        BY <3>1, <3>2, <1>1, FromLeast
      <3>4. QED BY <3>3 DEF T
    <2>3. QED BY <2>1, <2>2
  <1>2. m[y] = IF n[y] = x THEN n[x] ELSE n[y]
    BY DEF IsWithout
  <1>3. n[x] # x /\ n[x] \in Item \cup {NULL} /\ n[y] \in Item \cup {NULL}
    BY DEF IsWithout, Links
  <1> DEFINE Goal == Behind(m, y) = Behind(n, y) \ {x}
  <1>4. ASSUME n[y] = NULL PROVE Goal
    BY <1>2, <1>3, <1>4, NullIsNoItem DEF Behind
  <1>5. ASSUME n[y] # NULL, n[y] # x PROVE Goal
    <2>1. m[y] = n[y] /\ Behind(n, y) = From(n, n[y]) /\ Behind(m, y) = From(m, n[y])
      BY <1>2, <1>5 DEF Behind
    <2>2. QED BY <1>1, <1>3, <1>5, <2>1
  <1>6. ASSUME n[y] = x PROVE Goal
    <2>1. Behind(n, y) = {x} \cup Behind(n, x)
      BY <1>6, FromUnfolded, NullIsNoItem DEF Behind
    <2>2. CASE n[x] = NULL
      BY <1>2, <1>6, <2>1, <2>2 DEF Behind
    <2>3. CASE n[x] # NULL
      <3>1. Behind(n, x) = From(n, n[x]) /\ Behind(m, y) = From(m, n[x])
        BY <1>2, <1>6, <2>3 DEF Behind
      <3>2. From(m, n[x]) = From(n, n[x]) \ {x}
        BY <1>1, <1>3, <2>3
      <3>3. QED BY <2>1, <3>1, <3>2
    <2>4. QED BY <2>2, <2>3
  <1>7. QED BY <1>1, <1>4, <1>5, <1>6

(* Exchanging x for y exchanges it in every list and keeps the order: y is  *)
(* put in before x, and x is taken out.                                     *)
LEMMA ExchangedLists ==
    ASSUME NEW n \in Links, NEW m \in Links, NEW x \in Item, NEW y \in Item,
           IsExchanged(n, m, x, y), x \notin Behind(n, x)
    PROVE  /\ Behind(m, y) = Behind(n, x)
           /\ \A z \in Item \ {x, y} :
                 /\ x \in From(n, z) => From(m, z) = (From(n, z) \ {x}) \cup {y}
                 /\ x \notin From(n, z) => From(m, z) = From(n, z)
                 /\ x \in Behind(n, z) => Behind(m, z) = (Behind(n, z) \ {x}) \cup {y}
                 /\ x \notin Behind(n, z) => Behind(m, z) = Behind(n, z)
  <1> DEFINE b == [z \in Item |-> IF z = y THEN x ELSE IF n[z] = x THEN y ELSE n[z]]
  <1>1. b \in Links
    BY DEF Links
  <1>2. /\ b[y] = x /\ b[x] = n[x] /\ x # y /\ n[x] # x
        /\ \A z \in Item : b[z] = x => z = y
    BY DEF IsExchanged
  <1>3. IsWithout(b, n, y)
    BY NullIsNoItem DEF IsExchanged, IsWithout
  <1>4. IsWithout(b, m, x)
    BY NullIsNoItem DEF IsExchanged, IsWithout
  <1> HIDE DEF b
  <1>5. \A z \in Item \ {y} : From(n, z) = From(b, z) \ {y} /\ Behind(n, z) = Behind(b, z) \ {y}
    BY <1>1, <1>3, WithoutLists
  <1>6. \A z \in Item \ {x} : From(m, z) = From(b, z) \ {x} /\ Behind(m, z) = Behind(b, z) \ {x}
    BY <1>1, <1>4, WithoutLists
  <1>7. Behind(m, y) = Behind(n, x)
    <2>1. Behind(b, y) = {x} \cup Behind(b, x)
      BY <1>1, <1>2, FromUnfolded, NullIsNoItem DEF Behind
    <2>2. x \notin Behind(b, x)
      BY <1>2, <1>5
    <2>3. y \notin Behind(b, x)
      <3> SUFFICES ASSUME y \in Behind(b, x) PROVE FALSE
        OBVIOUS
      <3>1. b[x] # NULL /\ b[x] \in Item /\ y \in From(b, b[x])
        BY <1>1 DEF Behind, Links
      <3>2. x \in From(b, b[x])
        BY <1>1, <1>2, <3>1, FromClosed, NullIsNoItem
      <3>3. QED BY <2>2, <3>1, <3>2 DEF Behind
    <2>4. QED BY <1>2, <1>5, <1>6, <2>1, <2>2, <2>3
  <1>8. ASSUME NEW z \in Item \ {x, y}
        PROVE  /\ x \in From(b, z) <=> y \in From(b, z)
               /\ x \in Behind(b, z) <=> y \in Behind(b, z)
    <2>1. From(b, z) = {z} \cup Behind(b, z)
      BY <1>1, FromUnfolded
    <2>2. y \in From(b, z) => x \in From(b, z)
      BY <1>1, <1>2, FromClosed, NullIsNoItem
    <2>3. ASSUME x \in From(b, z) PROVE y \in From(b, z)
      <3>1. PICK w \in From(b, z) : b[w] = x
        BY <1>1, <2>3, FromBefore
      <3>2. w \in Item
        BY <1>1, FromClosed
      <3>3. QED BY <1>2, <3>1, <3>2
    <2>4. QED BY <2>1, <2>2, <2>3
  <1>9. ASSUME NEW z \in Item \ {x, y}
        PROVE  /\ x \in From(n, z) => From(m, z) = (From(n, z) \ {x}) \cup {y}
               /\ x \notin From(n, z) => From(m, z) = From(n, z)
               /\ x \in Behind(n, z) => Behind(m, z) = (Behind(n, z) \ {x}) \cup {y}
               /\ x \notin Behind(n, z) => Behind(m, z) = Behind(n, z)
    <2>1. From(n, z) = From(b, z) \ {y} /\ Behind(n, z) = Behind(b, z) \ {y}
      BY <1>5
    <2>2. From(m, z) = From(b, z) \ {x} /\ Behind(m, z) = Behind(b, z) \ {x}
      BY <1>6
    <2>3. QED BY <1>2, <1>8, <2>1, <2>2
  <1>10. QED BY <1>7, <1>9
-----------------------------------------------------------------------------
(* The kids and the siblings after an item, for any links.                  *)

KidsBy(n, c, R) == [p \in Item |-> IF p \in R \/ c[p] = NULL THEN {} ELSE From(n, c[p])]
AfterBy(n) == [x \in Item |-> Behind(n, x)]

(* What sound links are: lists end, share nothing, and begin at a child.    *)
Proper(n, c, R) ==
    /\ n \in Links /\ c \in Links
    /\ \A w, z \in Item : n[w] = n[z] /\ n[w] # NULL => w = z
    /\ \A q \in Item \ R, z \in Item : c[q] # NULL => n[z] # c[q]
    /\ \A q1, q2 \in Item \ R : c[q1] = c[q2] /\ c[q1] # NULL => q1 = q2
    /\ \A T \in SUBSET Item : T # {} => \E z \in T : \A y \in T : n[y] # z

LEMMA NotBehindItself ==
    ASSUME NEW n, NEW c, NEW R, Proper(n, c, R), NEW x \in Item
    PROVE  x \notin Behind(n, x)
  <1> SUFFICES ASSUME x \in Behind(n, x) PROVE FALSE
    OBVIOUS
  <1>1. n \in Links /\ n[x] # NULL /\ n[x] \in Item /\ x \in From(n, n[x])
    BY DEF Behind, Links, Proper
  <1> DEFINE h == n[x]
             T == {z \in From(n, h) : x \in From(n, z)}
  <1>2. T \in SUBSET Item /\ h \in T
    BY <1>1, FromClosed
  <1>3. x \in T
    BY <1>1, FromClosed
  <1>4. \E z \in T : \A y \in T : n[y] # z
    <2> HIDE DEF T
    <2>1. QED BY <1>2 DEF Proper
  <1>5. PICK z \in T : \A y \in T : n[y] # z
    BY <1>4
  <1>6. z # h
    BY <1>3, <1>5
  <1>7. PICK w \in From(n, h) : n[w] = z
    <2>1. z \in From(n, h)
      OBVIOUS
    <2> HIDE DEF T, h
    <2>2. h \in Item
      BY <1>1 DEF h
    <2>3. QED BY <1>1, <1>6, <2>1, <2>2, FromBefore
  <1>8. w \in Item /\ z \in Item
    BY <1>1, <1>2, FromClosed
  <1>9. x \in From(n, z)
    OBVIOUS
  <1>10. z \in From(n, w)
    BY <1>1, <1>7, <1>8, FromClosed, NullIsNoItem
  <1>11. x \in From(n, w)
    BY <1>1, <1>8, <1>9, <1>10, FromInside
  <1>12. QED BY <1>5, <1>7, <1>11

LEMMA ListsShareNothing ==
    ASSUME NEW n, NEW c, NEW R, Proper(n, c, R), NEW p \in Item, NEW q \in Item, p # q,
           NEW x \in KidsBy(n, c, R)[p]
    PROVE  x \notin KidsBy(n, c, R)[q]
  <1> SUFFICES ASSUME x \in KidsBy(n, c, R)[q] PROVE FALSE
    OBVIOUS
  <1>1. /\ p \notin R /\ c[p] # NULL /\ x \in From(n, c[p])
        /\ q \notin R /\ c[q] # NULL /\ x \in From(n, c[q])
    BY DEF KidsBy
  <1>2. /\ n \in Links /\ c[p] \in Item /\ c[q] \in Item
        /\ c[p] # c[q]
        /\ \A z \in Item : n[z] # c[p]
        /\ \A z \in Item : n[z] # c[q]
        /\ \A w, z \in Item : n[w] = n[z] /\ n[w] # NULL => w = z
    BY <1>1 DEF Proper, Links
  <1> DEFINE h == c[p]
             g == c[q]
  <1> HIDE DEF h, g
  <1>3. g \in From(n, h)
    <2>1. h \in Item /\ g \in Item /\ x \in From(n, h) /\ x \in From(n, g) /\ \A z \in Item : n[z] # h
      BY <1>1, <1>2 DEF h, g
    <2>2. QED BY <1>2, <2>1, FromApart
  <1>4. PICK w \in From(n, h) : n[w] = g
    BY <1>2, <1>3, FromBefore DEF h, g
  <1>5. w \in Item
    BY <1>2, FromClosed DEF h
  <1>6. QED BY <1>2, <1>4, <1>5 DEF g

(* Taking kid x of p out of its list.                                       *)
LEMMA Taken ==
    ASSUME NEW n, NEW c, NEW R, Proper(n, c, R), NEW p \in Item, NEW x \in KidsBy(n, c, R)[p],
           NEW m \in Links, IsWithout(n, m, x), NEW d,
           \A q \in Item \ R : d[q] = IF q = p /\ c[p] = x THEN n[x] ELSE c[q]
    PROVE  /\ KidsBy(m, d, R) = [KidsBy(n, c, R) EXCEPT ![p] = @ \ {x}]
           /\ AfterBy(m) = [y \in Item |-> IF y = x THEN {} ELSE AfterBy(n)[y] \ {x}]
  <1>1. n \in Links /\ c \in Links /\ p \notin R /\ c[p] # NULL /\ c[p] \in Item
    BY DEF Proper, KidsBy, Links
  <1>2. x \in Item /\ x \in From(n, c[p]) /\ x \notin Behind(n, x) /\ m[x] = NULL
    BY <1>1, FromClosed, NotBehindItself DEF KidsBy, IsWithout
  <1>3. \A y \in Item \ {x} : From(m, y) = From(n, y) \ {x} /\ Behind(m, y) = Behind(n, y) \ {x}
    BY <1>1, <1>2, WithoutLists
  <1>4. Behind(m, x) = {}
    BY <1>2 DEF Behind
  <1>5. AfterBy(m) = [y \in Item |-> IF y = x THEN {} ELSE AfterBy(n)[y] \ {x}]
    BY <1>3, <1>4 DEF AfterBy
  <1>6. KidsBy(m, d, R)[p] = KidsBy(n, c, R)[p] \ {x}
    <2>1. CASE c[p] = x
      <3>1. d[p] = n[x] /\ n[x] \in Item \cup {NULL}
        BY <1>1, <1>2, <2>1 DEF Links
      <3>2. From(n, x) = {x} \cup Behind(n, x)
        BY <1>1, <1>2, FromUnfolded
      <3>3. CASE n[x] = NULL
        <4>1. From(n, x) = {x}
          BY <3>2, <3>3 DEF Behind
        <4>2. KidsBy(n, c, R)[p] = {x} /\ KidsBy(m, d, R)[p] = {}
          BY <1>1, <2>1, <3>1, <3>3, <4>1 DEF KidsBy
        <4>3. QED BY <4>2
      <3>4. CASE n[x] # NULL
        <4>1. Behind(n, x) = From(n, n[x]) /\ n[x] # x
          BY <3>4, <1>2 DEF Behind, IsWithout
        <4>2. From(m, n[x]) = From(n, n[x]) \ {x}
          BY <1>3, <3>1, <3>4, <4>1
        <4>3. KidsBy(n, c, R)[p] = From(n, x) /\ KidsBy(m, d, R)[p] = From(m, n[x])
          BY <1>1, <2>1, <3>1, <3>4 DEF KidsBy
        <4>4. QED BY <3>2, <4>1, <4>2, <4>3
      <3>5. QED BY <3>3, <3>4
    <2>2. CASE c[p] # x
      <3>1. d[p] = c[p]
        BY <1>1, <2>2
      <3>2. From(m, c[p]) = From(n, c[p]) \ {x}
        BY <1>1, <1>3, <2>2
      <3>3. KidsBy(n, c, R)[p] = From(n, c[p]) /\ KidsBy(m, d, R)[p] = From(m, c[p])
        BY <1>1, <3>1 DEF KidsBy
      <3>4. QED BY <3>2, <3>3
    <2>3. QED BY <2>1, <2>2
  <1>7. ASSUME NEW q \in Item, q # p PROVE KidsBy(m, d, R)[q] = KidsBy(n, c, R)[q]
    <2>1. CASE q \in R \/ c[q] = NULL
      BY <1>7, <2>1 DEF KidsBy
    <2>2. CASE q \notin R /\ c[q] # NULL
      <3>1. d[q] = c[q] /\ c[q] \in Item
        BY <1>1, <1>7, <2>2 DEF Links
      <3>2. x \notin From(n, c[q])
        <4>1. x \notin KidsBy(n, c, R)[q]
          BY <1>7, ListsShareNothing
        <4>2. QED BY <2>2, <4>1 DEF KidsBy
      <3>3. c[q] # x
        BY <1>1, <3>1, <3>2, FromClosed
      <3>4. From(m, c[q]) = From(n, c[q]) \ {x}
        BY <1>3, <3>1, <3>3
      <3>5. From(m, c[q]) = From(n, c[q])
        BY <3>2, <3>4
      <3>6. QED BY <2>2, <3>1, <3>5 DEF KidsBy
    <2>3. QED BY <2>1, <2>2
  <1>8. KidsBy(m, d, R) = [KidsBy(n, c, R) EXCEPT ![p] = @ \ {x}]
    <2>1. /\ KidsBy(m, d, R) = [q \in Item |-> KidsBy(m, d, R)[q]]
          /\ KidsBy(n, c, R) = [q \in Item |-> KidsBy(n, c, R)[q]]
      BY DEF KidsBy
    <2> DEFINE K == KidsBy(n, c, R)
               M == KidsBy(m, d, R)
    <2> HIDE DEF K, M
    <2>2. /\ M[p] = K[p] \ {x} /\ \A q \in Item : q # p => M[q] = K[q]
          /\ M = [q \in Item |-> M[q]] /\ K = [q \in Item |-> K[q]]
      BY <1>6, <1>7, <2>1 DEF K, M
    <2>3. M = [K EXCEPT ![p] = @ \ {x}]
      BY <2>2
    <2>4. QED BY <2>3 DEF K, M
  <1>9. QED BY <1>5, <1>8
(* Putting x in the list of p, seen from the list it is in afterwards.      *)
LEMMA Joined ==
    ASSUME NEW n, NEW c, NEW R, Proper(n, c, R), NEW p \in Item, NEW x \in KidsBy(n, c, R)[p],
           NEW m \in Links, IsWithout(n, m, x), NEW d,
           \A q \in Item \ R : d[q] = IF q = p /\ c[p] = x THEN n[x] ELSE c[q],
           NEW K, K = KidsBy(m, d, R), NEW A, A = AfterBy(m),
           NEW later, later = Behind(n, x)
    PROVE  /\ KidsBy(n, c, R) = [K EXCEPT ![p] = @ \cup {x}]
           /\ AfterBy(n) = [y \in Item |-> IF y = x THEN later
                                           ELSE IF y \in K[p] \ later THEN A[y] \cup {x}
                                           ELSE A[y]]
           /\ later = {} \/ \E y \in K[p] : later = {y} \cup A[y]
  <1> DEFINE L == KidsBy(n, c, R)
             B == AfterBy(n)
  <1>1. /\ K = [L EXCEPT ![p] = @ \ {x}]
        /\ A = [y \in Item |-> IF y = x THEN {} ELSE B[y] \ {x}]
    BY Taken
  <1>2. L = [q \in Item |-> L[q]] /\ B = [y \in Item |-> Behind(n, y)]
    BY DEF KidsBy, AfterBy
  <1>3. x \in L[p]
    OBVIOUS
  <1>4. /\ n \in Links /\ c[p] \in Item /\ L[p] = From(n, c[p])
        /\ \A z \in Item : n[z] # c[p]
        /\ \A w, z \in Item : n[w] = n[z] /\ n[w] # NULL => w = z
    BY DEF Proper, KidsBy, Links
  <1>5. x \in Item /\ x \notin later /\ later \in SUBSET Item
    <2>1. x \in Item
      BY <1>3, <1>4, FromClosed
    <2>2. QED BY <1>4, <2>1, FromUnfolded, NotBehindItself
  <1>6. \A y \in Item : From(n, y) = {y} \cup B[y]
    <2>1. \A y \in Item : B[y] = Behind(n, y)
      BY <1>2
    <2> HIDE DEF B
    <2>2. QED BY <1>4, <2>1, FromUnfolded
  <1>7. ASSUME NEW y \in Item, y # x PROVE x \in B[y] <=> y \in K[p] \ later
    <2>1. K[p] = L[p] \ {x}
      BY <1>1, <1>2
    <2> DEFINE h == c[p]
    <2> HIDE DEF B, L, h
    <2>2. h \in Item /\ L[p] = From(n, h)
      BY <1>4 DEF h
    <2>3. ASSUME x \in B[y] PROVE y \in K[p] \ later
      <3>1. x \in From(n, y)
        BY <1>6, <2>3
      <3>2. y \in From(n, h)
        <4>1. x \in From(n, h) /\ \A z \in Item : n[z] # h
          BY <1>3, <1>4 DEF h
        <4>2. QED BY <1>4, <2>2, <3>1, <4>1, FromApart
      <3>3. y \notin later
        <4> SUFFICES ASSUME y \in later PROVE FALSE
          OBVIOUS
        <4>1. n[x] \in Item /\ later = From(n, n[x])
          BY <1>4, <1>5 DEF Behind, Links
        <4>2. From(n, y) \subseteq later
          BY <1>4, <4>1, FromInside
        <4>3. QED BY <1>5, <3>1, <4>2
      <3>4. QED BY <1>7, <2>1, <2>2, <3>2, <3>3
    <2>4. ASSUME y \in K[p] \ later PROVE x \in B[y]
      <3>1. x \in From(n, h) /\ y \in From(n, h)
        BY <1>3, <2>1, <2>2, <2>4
      <3>2. y \in From(n, x) \/ x \in From(n, y)
        BY <1>4, <2>2, <3>1, FromLinear
      <3>3. y \notin From(n, x)
        BY <1>4, <1>5, <1>7, <2>4, FromUnfolded
      <3>4. QED BY <1>6, <1>7, <3>2, <3>3
    <2>5. QED BY <2>3, <2>4
  <1>8. \A y \in Item : B[y] = IF y = x THEN later
                               ELSE IF y \in K[p] \ later THEN A[y] \cup {x}
                               ELSE A[y]
    <2>1. B[x] = later
      BY <1>2, <1>5
    <2>2. ASSUME NEW y \in Item, y # x
          PROVE  B[y] = IF y \in K[p] \ later THEN A[y] \cup {x} ELSE A[y]
      <3>1. A[y] = B[y] \ {x}
        BY <1>1, <2>2
      <3> HIDE DEF B, L
      <3>2. QED BY <1>7, <2>2, <3>1
    <2> HIDE DEF B
    <2>3. QED BY <2>1, <2>2
  <1>9. B = [y \in Item |-> IF y = x THEN later
                            ELSE IF y \in K[p] \ later THEN A[y] \cup {x}
                            ELSE A[y]]
    <2>1. B = [y \in Item |-> B[y]]
      BY <1>2
    <2> HIDE DEF B
    <2>2. QED BY <1>8, <2>1
  <1>10. L = [K EXCEPT ![p] = @ \cup {x}]
    <2> HIDE DEF L
    <2>1. QED BY <1>1, <1>2, <1>3
  <1>11. later = {} \/ \E y \in K[p] : later = {y} \cup A[y]
    <2>1. CASE n[x] = NULL
      BY <2>1 DEF Behind
    <2>2. CASE n[x] # NULL
      <3> DEFINE y == n[x]
      <3>1. y \in Item /\ later = From(n, y)
        BY <1>4, <1>5, <2>2 DEF Links, Behind
      <3>2. y \in L[p]
        <4>1. x \in From(n, c[p])
          BY <1>3, <1>4
        <4>2. y \in From(n, c[p])
          BY <1>4, <2>2, <4>1, FromClosed
        <4>3. QED BY <1>4, <4>2
      <3>3. y \in later
        BY <1>4, <3>1, FromClosed
      <3>4. y # x
        BY <1>5, <3>3
      <3> HIDE DEF y, L, B
      <3>5. y \in K[p]
        BY <1>1, <1>2, <3>2, <3>4
      <3>6. later = {y} \cup B[y]
        BY <1>6, <3>1
      <3>7. A[y] = B[y]
        BY <1>1, <1>5, <3>1, <3>4, <3>6
      <3>8. QED BY <3>5, <3>6, <3>7
    <2>3. QED BY <2>1, <2>2
  <1>12. QED BY <1>9, <1>10, <1>11

(* Putting y, which has no siblings, in the place of kid x of p.            *)
LEMMA Swapped ==
    ASSUME NEW n, NEW c, NEW R, Proper(n, c, R), NEW p \in Item, NEW x \in KidsBy(n, c, R)[p],
           NEW y \in Item, NEW m \in Links, IsExchanged(n, m, x, y),
           NEW d, HeadExchanged(c, d, R, p, x, y),
           NEW K, K = KidsBy(n, c, R), NEW A, A = AfterBy(n)
    PROVE  /\ KidsBy(m, d, R) = [K EXCEPT ![p] = (@ \ {x}) \cup {y}]
           /\ \A z \in Item \ {x} :
                 AfterBy(m)[z] = IF z = y THEN A[x]
                                 ELSE IF x \in A[z] THEN (A[z] \ {x}) \cup {y} ELSE A[z]
  <1>1. n \in Links /\ c \in Links /\ p \notin R /\ c[p] # NULL /\ c[p] \in Item /\ c[p] # y
    BY DEF Proper, KidsBy, Links, HeadExchanged
  <1>2. x \in Item /\ x \in From(n, c[p]) /\ x \notin Behind(n, x) /\ x # y
    BY <1>1, FromClosed, NotBehindItself DEF KidsBy, IsExchanged
  <1>3. /\ Behind(m, y) = Behind(n, x)
        /\ \A z \in Item \ {x, y} :
              /\ x \in From(n, z) => From(m, z) = (From(n, z) \ {x}) \cup {y}
              /\ x \notin From(n, z) => From(m, z) = From(n, z)
              /\ x \in Behind(n, z) => Behind(m, z) = (Behind(n, z) \ {x}) \cup {y}
              /\ x \notin Behind(n, z) => Behind(m, z) = Behind(n, z)
    BY <1>1, <1>2, ExchangedLists
  <1>4. \A z \in Item \ {x} :
           AfterBy(m)[z] = IF z = y THEN A[x]
                           ELSE IF x \in A[z] THEN (A[z] \ {x}) \cup {y} ELSE A[z]
    <2>1. \A z \in Item : AfterBy(m)[z] = Behind(m, z) /\ A[z] = Behind(n, z)
      BY DEF AfterBy
    <2>2. AfterBy(m)[y] = A[x]
      BY <1>2, <1>3, <2>1
    <2>3. ASSUME NEW z \in Item \ {x, y}
          PROVE  AfterBy(m)[z] = IF x \in A[z] THEN (A[z] \ {x}) \cup {y} ELSE A[z]
      <3>1. AfterBy(m)[z] = Behind(m, z) /\ A[z] = Behind(n, z)
        BY <2>1
      <3>2. /\ x \in Behind(n, z) => Behind(m, z) = (Behind(n, z) \ {x}) \cup {y}
            /\ x \notin Behind(n, z) => Behind(m, z) = Behind(n, z)
        BY <1>3
      <3>3. QED BY <3>1, <3>2
    <2>4. QED BY <2>2, <2>3
  <1>5. KidsBy(m, d, R)[p] = (K[p] \ {x}) \cup {y}
    <2>1. CASE c[p] = x
      <3>1. From(n, x) = {x} \cup Behind(n, x) /\ From(m, y) = {y} \cup Behind(m, y)
        BY <1>2, <1>1, FromUnfolded
      <3>2. d[p] = y /\ y # NULL
        BY <1>1, <2>1, NullIsNoItem DEF HeadExchanged
      <3>3. K[p] = From(n, x) /\ KidsBy(m, d, R)[p] = From(m, y)
        BY <1>1, <2>1, <3>2 DEF KidsBy
      <3>4. QED BY <1>2, <1>3, <3>1, <3>3
    <2>2. CASE c[p] # x
      <3>1. d[p] = c[p]
        BY <1>1, <2>2 DEF HeadExchanged
      <3>2. K[p] = From(n, c[p]) /\ KidsBy(m, d, R)[p] = From(m, c[p])
        BY <1>1, <3>1 DEF KidsBy
      <3>3. From(m, c[p]) = (From(n, c[p]) \ {x}) \cup {y}
        BY <1>1, <1>2, <1>3, <2>2
      <3>4. QED BY <3>2, <3>3
    <2>3. QED BY <2>1, <2>2
  <1>6. ASSUME NEW q \in Item, q # p PROVE KidsBy(m, d, R)[q] = K[q]
    <2>1. CASE q \in R \/ c[q] = NULL
      BY <1>6, <2>1 DEF KidsBy, HeadExchanged
    <2>2. CASE q \notin R /\ c[q] # NULL
      <3>1. d[q] = c[q] /\ c[q] \in Item /\ c[q] # y
        BY <1>1, <1>6, <2>2 DEF Links, HeadExchanged
      <3>2. x \notin From(n, c[q])
        <4>1. x \notin KidsBy(n, c, R)[q]
          BY <1>6, ListsShareNothing
        <4>2. QED BY <2>2, <4>1 DEF KidsBy
      <3>3. c[q] # x
        BY <1>1, <3>1, <3>2, FromClosed
      <3>4. From(m, c[q]) = From(n, c[q])
        BY <1>3, <3>1, <3>2, <3>3
      <3>5. QED BY <2>2, <3>1, <3>4 DEF KidsBy
    <2>3. QED BY <2>1, <2>2
  <1>7. KidsBy(m, d, R) = [K EXCEPT ![p] = (@ \ {x}) \cup {y}]
    <2> DEFINE M == KidsBy(m, d, R)
    <2>1. M = [q \in Item |-> M[q]] /\ K = [q \in Item |-> K[q]]
      BY DEF KidsBy
    <2>2. M[p] = (K[p] \ {x}) \cup {y} /\ \A q \in Item : q # p => M[q] = K[q]
      BY <1>5, <1>6
    <2> HIDE DEF M
    <2>3. M = [K EXCEPT ![p] = (@ \ {x}) \cup {y}]
      BY <2>1, <2>2
    <2>4. QED BY <2>3 DEF M
  <1>8. QED BY <1>4, <1>7

(* Clearing items that nothing left over leads to.                          *)
ListsCleared(n, c, R, G, m, d) ==
    \A z \in Item :
       /\ AfterBy(m)[z] = IF z \in G THEN {} ELSE AfterBy(n)[z]
       /\ KidsBy(m, d, R \ G)[z] = IF z \in G THEN {} ELSE KidsBy(n, c, R)[z]

LEMMA Pruned ==
    ASSUME NEW n \in Links, NEW c \in Links, NEW R, NEW G \in SUBSET Item,
           NEW m \in Links, NEW d \in Links, AreCleared(n, c, R, G, m, d)
    PROVE  ListsCleared(n, c, R, G, m, d)
  <1>1. ASSUME NEW z \in Item \ G PROVE From(m, z) = From(n, z) /\ Behind(m, z) = Behind(n, z)
    <2> DEFINE T == Item \ G
    <2>1. T \in SUBSET Item /\ z \in T
      OBVIOUS
    <2>2. ASSUME NEW y \in T, n[y] # NULL PROVE n[y] \in T
      BY <2>2 DEF Links, AreCleared
    <2> HIDE DEF T
    <2>3. From(n, z) \subseteq T
      BY <2>1, <2>2, FromLeast
    <2>4. \A y \in From(n, z) : m[y] = n[y]
      BY <2>3 DEF T, AreCleared
    <2>5. QED BY <2>4, FromSame
  <1>2. \A z \in G : Behind(m, z) = {}
    BY DEF Behind, AreCleared
  <1>3. \A z \in Item : AfterBy(m)[z] = IF z \in G THEN {} ELSE AfterBy(n)[z]
    BY <1>1, <1>2 DEF AfterBy
  <1>4. ASSUME NEW z \in Item
        PROVE  KidsBy(m, d, R \ G)[z] = IF z \in G THEN {} ELSE KidsBy(n, c, R)[z]
    <2>1. CASE z \in G
      BY <2>1 DEF KidsBy, AreCleared
    <2>2. CASE z \notin G /\ (z \in R \/ c[z] = NULL)
      BY <2>2 DEF KidsBy, AreCleared
    <2>3. CASE z \notin G /\ z \notin R /\ c[z] # NULL
      <3>1. c[z] \in Item \ G /\ d[z] = c[z]
        BY <2>3 DEF Links, AreCleared
      <3>2. From(m, c[z]) = From(n, c[z])
        BY <1>1, <3>1
      <3>3. QED BY <2>3, <3>1, <3>2 DEF KidsBy
    <2>4. QED BY <2>1, <2>2, <2>3
  <1>5. QED BY <1>3, <1>4 DEF ListsCleared
-----------------------------------------------------------------------------
(* The links of a state are sound, and the forest is what they say.         *)

LEMMA ProperNow == LinkInv => Proper(next, child, isReference)
  <1> SUFFICES ASSUME LinkInv PROVE Proper(next, child, isReference)
    OBVIOUS
  <1>1. next \in Links /\ child \in Links /\ live \subseteq Item
    BY DEF LinkInv, TypeOK, Links
  <1>2. \A w, z \in Item : next[w] = next[z] /\ next[w] # NULL => w = z
    BY <1>1 DEF LinkInv, DoublyLinked, Links
  <1>3. \A q \in Item : child[q] # NULL => q \in live
    BY DEF LinkInv, NoDangling
  <1>4. \A q \in Item \ isReference, z \in Item : child[q] # NULL => next[z] # child[q]
    BY <1>1, <1>3, NullIsNoItem DEF LinkInv, DoublyLinked, Links
  <1>5. \A q1, q2 \in Item \ isReference : child[q1] = child[q2] /\ child[q1] # NULL => q1 = q2
    BY <1>3 DEF LinkInv, OwnedOnce
  <1>6. ASSUME NEW T \in SUBSET Item, T # {}
        PROVE  \E z \in T : \A y \in T : next[y] # z
    <2>1. \A z \in Item : next[z] # NULL => z \in live /\ next[z] \in live
      BY DEF LinkInv, NoDangling
    <2>2. CASE T \cap live = {}
      <3>1. PICK z \in T : TRUE
        BY <1>6
      <3>2. \A y \in T : next[y] = NULL
        BY <2>1, <2>2
      <3>3. QED BY <3>1, <3>2, NullIsNoItem
    <2>3. CASE T \cap live # {}
      <3>1. PICK z \in T \cap live : \A y \in T \cap live : ~Leads(y, z)
        BY <2>3 DEF LinkInv, Acyclic
      <3>2. ASSUME NEW y \in T PROVE next[y] # z
        BY <2>1, <3>1, NullIsNoItem DEF Leads
      <3>3. QED BY <3>1, <3>2
    <2>4. QED BY <2>2, <2>3
  <1>7. QED BY <1>1, <1>2, <1>4, <1>5, <1>6 DEF Proper

LEMMA ProperThen == LinkInv' => Proper(next', child', isReference')
  <1> SUFFICES ASSUME LinkInv' PROVE Proper(next', child', isReference')
    OBVIOUS
  <1>1. next' \in Links /\ child' \in Links /\ live' \subseteq Item
    BY DEF LinkInv, TypeOK, Links
  <1>2. \A w, z \in Item : next'[w] = next'[z] /\ next'[w] # NULL => w = z
    BY <1>1 DEF LinkInv, DoublyLinked, Links
  <1>3. \A q \in Item : child'[q] # NULL => q \in live'
    BY DEF LinkInv, NoDangling
  <1>4. \A q \in Item \ isReference', z \in Item : child'[q] # NULL => next'[z] # child'[q]
    BY <1>1, <1>3, NullIsNoItem DEF LinkInv, DoublyLinked, Links
  <1>5. \A q1, q2 \in Item \ isReference' :
           child'[q1] = child'[q2] /\ child'[q1] # NULL => q1 = q2
    BY <1>3 DEF LinkInv, OwnedOnce
  <1>6. ASSUME NEW T \in SUBSET Item, T # {}
        PROVE  \E z \in T : \A y \in T : next'[y] # z
    <2>1. \A z \in Item : next'[z] # NULL => z \in live' /\ next'[z] \in live'
      BY DEF LinkInv, NoDangling
    <2>2. CASE T \cap live' = {}
      <3>1. PICK z \in T : TRUE
        BY <1>6
      <3>2. \A y \in T : next'[y] = NULL
        BY <2>1, <2>2
      <3>3. QED BY <3>1, <3>2, NullIsNoItem
    <2>3. CASE T \cap live' # {}
      <3>1. PICK z \in T \cap live' : \A y \in T \cap live' : ~Leads(y, z)'
        BY <2>3 DEF LinkInv, Acyclic
      <3>2. ASSUME NEW y \in T PROVE next'[y] # z
        BY <2>1, <3>1, NullIsNoItem DEF Leads
      <3>3. QED BY <3>1, <3>2
    <2>4. QED BY <2>2, <2>3
  <1>7. QED BY <1>1, <1>2, <1>4, <1>5, <1>6 DEF Proper

LEMMA ForestNow ==
    /\ KidsOf = KidsBy(next, child, isReference)
    /\ AfterOf = AfterBy(next)
    /\ \A p \in Item \ isReference : Kids(p) = KidsOf[p]
    /\ \A x \in Item : x \in isReference => KidsOf[x] = {}
  <1>1. \A x : Chain(x) = From(next, x)
    BY DEF Chain, From, NextClosed
  <1>2. KidsOf = KidsBy(next, child, isReference)
    BY <1>1 DEF KidsOf, Kids, KidsBy
  <1>3. AfterOf = AfterBy(next)
    BY <1>1 DEF AfterOf, AfterBy, Behind
  <1>4. QED BY <1>2, <1>3 DEF KidsOf

LEMMA ForestThen ==
    /\ KidsOf' = KidsBy(next', child', isReference')
    /\ AfterOf' = AfterBy(next')
  <1>1. \A x : Chain(x)' = From(next', x)
    BY DEF Chain, From, NextClosed
  <1>2. KidsOf' = KidsBy(next', child', isReference')
    BY <1>1 DEF KidsOf, Kids, KidsBy
  <1>3. AfterOf' = AfterBy(next')
    BY <1>1 DEF AfterOf, AfterBy, Behind
  <1>4. QED BY <1>2, <1>3

(* What lies under a node is what cJSON_Delete frees.                       *)
LEMMA UnderIsSubtree ==
    ASSUME LinkInv, NEW x \in live
    PROVE  F!Under(x) = Subtree(x)
  <1>1. TypeOK /\ x \in Item /\ next \in Links /\ child \in Links
    BY DEF LinkInv, TypeOK, Links
  <1>2. ASSUME x \notin isReference, child[x] # NULL
        PROVE  /\ child[x] \in Item /\ child[x] \in Reach(child[x])
               /\ OwnClosed(Reach(child[x])) /\ Reach(child[x]) \in SUBSET Item
    BY <1>1, <1>2, ReachClosed DEF Links
  <1>3. ASSUME NEW y \in Item \ isReference, child[y] # NULL
        PROVE  /\ child[y] \in KidsOf[y] /\ KidsOf[y] \in SUBSET Item
               /\ \A z \in KidsOf[y] : next[z] # NULL => next[z] \in KidsOf[y]
    <2>1. KidsOf[y] = From(next, child[y]) /\ child[y] \in Item
      BY <1>1, <1>3, ForestNow DEF KidsBy, Links
    <2>2. QED BY <1>1, <2>1, FromClosed
  <1>4. ASSUME NEW T \in SUBSET Item, x \in T, \A y \in T : KidsOf[y] \subseteq T
        PROVE  Subtree(x) \subseteq T
    <2>1. CASE x \in isReference \/ child[x] = NULL
      BY <1>4, <2>1 DEF Subtree
    <2>2. CASE x \notin isReference /\ child[x] # NULL
      <3> DEFINE c == child[x]
                 S == {y \in Reach(c) : \E w \in T : y \in KidsOf[w]}
      <3>1. S \in SUBSET Item /\ c \in S
        BY <1>1, <1>2, <1>3, <1>4, <2>2
      <3>2. S \subseteq T
        BY <1>4
      <3>3. ASSUME NEW y \in S, next[y] # NULL PROVE next[y] \in S
        <4>1. PICK w \in T : y \in KidsOf[w]
          OBVIOUS
        <4>2. w \in Item \ isReference /\ child[w] # NULL
          BY <4>1, ForestNow DEF KidsBy
        <4>3. next[y] \in KidsOf[w]
          BY <1>3, <3>3, <4>1, <4>2
        <4>4. next[y] \in Reach(c)
          BY <1>2, <2>2, <3>3 DEF OwnClosed, NextClosed
        <4>5. QED BY <4>3, <4>4
      <3>4. ASSUME NEW y \in S \ isReference, child[y] # NULL PROVE child[y] \in S
        <4>1. y \in Item /\ y \in T /\ y \in Reach(c)
          BY <3>1, <3>2
        <4>2. child[y] \in KidsOf[y]
          BY <1>3, <3>4, <4>1
        <4>3. child[y] \in Reach(c)
          BY <1>2, <2>2, <3>4, <4>1 DEF OwnClosed
        <4>4. QED BY <4>1, <4>2, <4>3
      <3>5. c \in Item
        BY <1>2, <2>2
      <3>6. Reach(c) \subseteq S
        <4> HIDE DEF S, c
        <4>1. OwnClosed(S)
          BY <3>3, <3>4 DEF OwnClosed, NextClosed
        <4>2. QED BY <3>1, <3>5, <4>1, ReachLeast
      <3>7. Subtree(x) = {x} \cup Reach(c)
        BY <2>2 DEF Subtree
      <3> HIDE DEF S, c
      <3>8. QED BY <1>4, <3>2, <3>6, <3>7
    <2>3. QED BY <2>1, <2>2
  <1>5. ASSUME NEW y \in Subtree(x) PROVE KidsOf[y] \subseteq Subtree(x)
    <2>1. y \in Item
      BY <1>1, SubtreeIsolated DEF LinkInv, TypeOK
    <2>2. CASE y \in isReference \/ child[y] = NULL
      BY <2>1, <2>2, ForestNow DEF KidsBy
    <2>3. CASE y \notin isReference /\ child[y] # NULL
      <3>1. x \notin isReference /\ child[x] # NULL
        BY <1>5, <2>3 DEF Subtree
      <3>2. Subtree(x) = {x} \cup Reach(child[x])
        BY <3>1 DEF Subtree
      <3>3. child[y] \in Reach(child[x])
        BY <1>2, <1>5, <2>3, <3>1, <3>2 DEF OwnClosed
      <3>4. KidsOf[y] = From(next, child[y])
        BY <2>1, <2>3, ForestNow DEF KidsBy
      <3>5. From(next, child[y]) \subseteq Reach(child[x])
        <4>1. \A z \in Reach(child[x]) : next[z] # NULL => next[z] \in Reach(child[x])
          BY <1>2, <3>1 DEF OwnClosed, NextClosed
        <4>2. QED BY <1>2, <3>1, <3>3, <4>1, FromLeast
      <3>6. QED BY <3>2, <3>4, <3>5
    <2>4. QED BY <2>2, <2>3
  <1>6. x \in Subtree(x) /\ Subtree(x) \in SUBSET Item
    BY <1>1, SubtreeIsolated DEF LinkInv, TypeOK
  <1>7. QED BY <1>4, <1>5, <1>6 DEF F!Under

(* An item without siblings frees what it owns and nothing else.            *)
LEMMA ReachAlone ==
    ASSUME LinkInv, NEW x \in live, next[x] = NULL
    PROVE  Reach(x) = Subtree(x)
  <1>1. TypeOK /\ x \in Item /\ child \in Links
    BY DEF LinkInv, TypeOK, Links
  <1>2. x \in Reach(x) /\ OwnClosed(Reach(x)) /\ Reach(x) \in SUBSET Item
    BY <1>1, ReachClosed
  <1>3. CASE x \in isReference \/ child[x] = NULL
    <2>1. Subtree(x) = {x}
      BY <1>3 DEF Subtree
    <2> DEFINE T == {x}
    <2>2. T \in SUBSET Item /\ x \in T /\ OwnClosed(T)
      BY <1>1, <1>3 DEF OwnClosed, NextClosed
    <2>3. Reach(x) \subseteq T
      <3> HIDE DEF T
      <3>1. QED BY <2>2, ReachLeast
    <2>4. QED BY <1>2, <2>1, <2>3
  <1>4. CASE x \notin isReference /\ child[x] # NULL
    <2> DEFINE c == child[x]
               T == {x} \cup Reach(c)
    <2>1. c \in Item /\ c \in Reach(x) /\ Subtree(x) = T
      BY <1>1, <1>2, <1>4 DEF Links, OwnClosed, Subtree
    <2>2. c \in Reach(c) /\ OwnClosed(Reach(c)) /\ Reach(c) \in SUBSET Item
      BY <1>1, <2>1, ReachClosed
    <2>3. Reach(c) \subseteq Reach(x)
      BY <1>2, <2>1, ReachLeast
    <2>4. T \in SUBSET Item /\ x \in T
      BY <1>1, <2>2
    <2>5. OwnClosed(T)
      BY <2>2 DEF OwnClosed, NextClosed
    <2>6. Reach(x) \subseteq T
      <3> HIDE DEF T
      <3>1. QED BY <1>1, <2>4, <2>5, ReachLeast
    <2> HIDE DEF c
    <2>7. QED BY <1>2, <2>1, <2>3, <2>6
  <1>5. QED BY <1>3, <1>4
-----------------------------------------------------------------------------
(* Names.                                                                   *)

LEMMA NamesTyped ==
    ASSUME LinkInv
    PROVE  /\ NameOf = [y \in Item |-> NameOf[y]]
           /\ \A x \in Item : NameOf[x] \in Key \cup {NULL}
  <1>1. ASSUME NEW x \in Item PROVE NameOf[x] \in Key \cup {NULL}
    <2>1. string[x] \in Name \cup {NULL}
      BY DEF LinkInv, TypeOK
    <2>2. CASE string[x] = NULL
      BY <2>2 DEF NameOf
    <2>3. CASE string[x] # NULL
      BY <2>1, <2>3 DEF NameOf, Name
    <2>4. QED BY <2>2, <2>3
  <1>2. QED BY <1>1 DEF NameOf

LEMMA SameNames ==
    ASSUME LinkInv, string' = string, NEW x \in Item
    PROVE  NameOf' = NameOf /\ F!Named(x)
  <1>1. NameOf' = NameOf
    BY DEF NameOf
  <1>2. NameOf' = [NameOf EXCEPT ![x] = NameOf[x]] /\ NameOf[x] \in Key \cup {NULL}
    BY <1>1, NamesTyped
  <1>3. QED BY <1>1, <1>2 DEF F!Named

LEMMA NewName ==
    ASSUME LinkInv, NEW x \in Item, NEW k \in Key, NEW name \in Name, name.key = k,
           string' = Renamed(x, name)
    PROVE  NameOf' = [NameOf EXCEPT ![x] = k] /\ F!Named(x)
  <1>1. name # NULL
    BY NullIsNoName DEF Name
  <1>2. string' = [string EXCEPT ![x] = name] /\ string \in [Item -> Name \cup {NULL}]
    BY DEF LinkInv, TypeOK, Renamed
  <1>3. \A y \in Item : NameOf'[y] = IF y = x THEN k ELSE NameOf[y]
    BY <1>1, <1>2 DEF NameOf
  <1>4. NameOf' = [y \in Item |-> NameOf'[y]] /\ NameOf = [y \in Item |-> NameOf[y]]
    BY DEF NameOf
  <1> DEFINE N == NameOf'
             O == NameOf
  <1>5. N = [O EXCEPT ![x] = k]
    <2>1. N = [y \in Item |-> N[y]] /\ O = [y \in Item |-> O[y]]
      BY <1>4
    <2>2. \A y \in Item : N[y] = IF y = x THEN k ELSE O[y]
      BY <1>3
    <2> HIDE DEF N, O
    <2>3. QED BY <2>1, <2>2
  <1>6. QED BY <1>5 DEF F!Named

LEMMA CopyName == \A k \in Key : /\ Copy(k) \in Name /\ Copy(k).key = k
                                 /\ Literal(k) \in Name /\ Literal(k).key = k
  BY DEF Copy, Literal, Name

-----------------------------------------------------------------------------
(* Linking is linking in the forest.                                        *)

LEMMA JoinedInForest ==
    ASSUME LinkInv, LinkInv', NEW p \in Item, NEW x \in Item, NEW h \in Item,
           p \notin isReference', IsWithout(next', next, x),
           isReference \subseteq isReference', KidsOf = KidsBy(next, child, isReference'),
           child'[p] = h, h = x \/ \E w \in KidsOf[p] : next'[w] = x,
           \A q \in Item \ isReference' :
               child[q] = IF q = p /\ h = x THEN next'[x] ELSE child'[q]
    PROVE  F!Link(p, x, Behind(next', x)) /\ Behind(next', x) \in F!Places(p)
  <1> DEFINE n == next'
             c == child'
             R == isReference'
             later == Behind(n, x)
  <1>1. Proper(n, c, R) /\ n \in Links /\ next \in Links /\ h # NULL
    BY ProperThen, NullIsNoItem DEF LinkInv, TypeOK, Links
  <1>2. KidsOf' = KidsBy(n, c, R) /\ AfterOf' = AfterBy(n) /\ AfterOf = AfterBy(next)
    BY ForestThen, ForestNow
  <1>3. KidsBy(n, c, R)[p] = From(n, h)
    BY <1>1 DEF KidsBy
  <1>4. x \in KidsBy(n, c, R)[p]
    <2> HIDE DEF n, c, R
    <2>1. CASE h = x
      BY <1>1, <1>3, <2>1, FromClosed
    <2>2. CASE h # x
      <3>1. PICK w \in KidsOf[p] : n[w] = x
        BY <2>2 DEF n
      <3>2. p \notin isReference /\ child[p] = h
        BY <2>2 DEF R
      <3>3. w \in From(next, h)
        BY <3>1, <3>2, <1>1, ForestNow DEF KidsBy
      <3>4. From(next, h) = From(n, h) \ {x}
        BY <1>1, <2>2, WithoutLists DEF n
      <3>5. w \in Item /\ w \in From(n, h)
        BY <1>1, <3>3, <3>4, FromClosed
      <3>6. QED BY <1>1, <1>3, <3>1, <3>5, FromClosed, NullIsNoItem
    <2>3. QED BY <2>1, <2>2
  <1>5. IsWithout(n, next, x) /\ KidsOf = KidsBy(next, child, R)
    OBVIOUS
  <1>6. \A q \in Item \ R : child[q] = IF q = p /\ c[p] = x THEN n[x] ELSE c[q]
    OBVIOUS
  <1> HIDE DEF n, c, R, later
  <1>7. /\ KidsBy(n, c, R) = [KidsOf EXCEPT ![p] = @ \cup {x}]
        /\ AfterBy(n) = [y \in Item |-> IF y = x THEN later
                                        ELSE IF y \in KidsOf[p] \ later THEN AfterOf[y] \cup {x}
                                        ELSE AfterOf[y]]
        /\ later = {} \/ \E y \in KidsOf[p] : later = {y} \cup AfterOf[y]
    <2>1. later = Behind(n, x)
      BY DEF later
    <2>2. QED BY <1>1, <1>2, <1>4, <1>5, <1>6, <2>1, Joined
  <1>8. F!Link(p, x, later)
    BY <1>2, <1>7 DEF F!Link
  <1>9. later \in F!Places(p)
    BY <1>7 DEF F!Places
  <1>10. QED BY <1>8, <1>9 DEF later, n

(* Appending puts a new last kid.                                           *)
LEMMA AppendedInForest ==
    ASSUME LinkInv, LinkInv', NEW a \in live \ isReference, NEW i \in Item, a # i,
           i \notin Kids(a), next[i] = NULL, \A z \in Item : next[z] # i,
           \/ child[a] = NULL /\ child'[a] = i /\ UNCHANGED next
           \/ /\ child[a] # NULL /\ child'[a] = child[a]
              /\ \E last \in Kids(a) : next[last] = NULL /\ next' = [next EXCEPT ![last] = i],
           \A q \in Item \ isReference' : q # a => child'[q] = child[q],
           isReference' \in {isReference, isReference \cup {i}},
           i \in isReference' \ isReference => child[i] = NULL
    PROVE  F!Link(a, i, {})
  <1>1. next \in Links /\ child \in Links /\ a \in Item /\ a \notin isReference'
    BY DEF LinkInv, TypeOK, Links
  <1>2. KidsOf = KidsBy(next, child, isReference')
    BY ForestNow DEF KidsBy
  <1>3. Kids(a) = KidsOf[a] /\ (child[a] # NULL => child[a] \in Kids(a))
    BY <1>1, ForestNow, KidsClosed
  <1>4. CASE child[a] = NULL /\ child'[a] = i /\ UNCHANGED next
    <2>1. IsWithout(next', next, i)
      BY <1>4, NullIsNoItem DEF IsWithout
    <2>2. \A q \in Item \ isReference' :
             child[q] = IF q = a /\ i = i THEN next'[i] ELSE child'[q]
      BY <1>4
    <2>3. F!Link(a, i, Behind(next', i))
      BY <1>1, <1>2, <1>4, <2>1, <2>2, JoinedInForest
    <2>4. Behind(next', i) = {}
      BY <1>4 DEF Behind
    <2>5. QED BY <2>3, <2>4
  <1>5. CASE /\ child[a] # NULL /\ child'[a] = child[a]
             /\ \E last \in Kids(a) : next[last] = NULL /\ next' = [next EXCEPT ![last] = i]
    <2>1. PICK last \in Kids(a) : next[last] = NULL /\ next' = [next EXCEPT ![last] = i]
      BY <1>5
    <2>2. last \in Item /\ last # i /\ next'[last] = i /\ next'[i] = NULL
      BY <1>1, <2>1, KidsClosed DEF Links
    <2>3. IsWithout(next', next, i)
      BY <1>1, <2>1, <2>2, NullIsNoItem DEF IsWithout, Links
    <2> DEFINE h == child[a]
    <2>4. h \in Item /\ h # i /\ child'[a] = h
      BY <1>1, <1>3, <1>5 DEF Links
    <2>5. \A q \in Item \ isReference' :
             child[q] = IF q = a /\ h = i THEN next'[i] ELSE child'[q]
      BY <1>5, <2>4
    <2>6. \E w \in KidsOf[a] : next'[w] = i
      BY <1>3, <2>1, <2>2
    <2> HIDE DEF h
    <2>7. F!Link(a, i, Behind(next', i))
      BY <1>1, <1>2, <2>3, <2>4, <2>5, <2>6, JoinedInForest
    <2>8. Behind(next', i) = {}
      BY <2>2 DEF Behind
    <2>9. QED BY <2>7, <2>8
  <1>6. QED BY <1>4, <1>5

(* What the program may add is no kid, and nothing leads to it.             *)
LEMMA RootFacts ==
    ASSUME LinkInv, NEW i \in roots, NEW a \in live \ isReference, a \notin Subtree(i)
    PROVE  /\ i \in Item /\ i \in live /\ a \in Item /\ a # i
           /\ i \notin Kids(a) /\ next[i] = NULL
           /\ \A z \in Item : next[z] # i
           /\ \A q \in Item \ isReference : child[q] # i
           /\ a \notin F!Under(i)
  <1>1. i \in Item /\ i \in live /\ a \in Item /\ next \in Links
    BY DEF LinkInv, TypeOK, Links
  <1>2. i \in Subtree(i) /\ F!Under(i) = Subtree(i)
    BY <1>1, SubtreeIsolated, UnderIsSubtree
  <1>3. i \notin Kids(a)
    BY KidFacts
  <1>4. next[i] = NULL /\ \A z \in Item : next[z] # i
    BY <1>1, NullIsNoItem DEF LinkInv, DoublyLinked
  <1>5. \A q \in Item \ isReference : child[q] # i
    <2>1. \A q \in Item : child[q] # NULL => q \in live
      BY DEF LinkInv, NoDangling
    <2>2. QED BY <1>1, <2>1, NullIsNoItem DEF LinkInv, OwnedOnce
  <1>6. QED BY <1>1, <1>2, <1>3, <1>4, <1>5

LEMMA AppendAttaches ==
    ASSUME LinkInv, LinkInv', NEW a \in live \ isReference, NEW i \in roots, a \notin Subtree(i),
           AppendItem(a, i), live' = live, roots' = roots \ {i}, isReference' = isReference,
           F!Named(i)
    PROVE  F!Attach(a, i)
  <1>1. /\ i \in Item /\ a \in Item /\ a # i /\ i \notin Kids(a) /\ next[i] = NULL
        /\ \A z \in Item : next[z] # i
        /\ a \notin F!Under(i)
    BY RootFacts
  <1>2. child \in Links
    BY DEF LinkInv, TypeOK, Links
  <1>3. /\ \/ child[a] = NULL /\ child'[a] = i /\ UNCHANGED next
           \/ /\ child[a] # NULL /\ child'[a] = child[a]
              /\ \E last \in Kids(a) : next[last] = NULL /\ next' = [next EXCEPT ![last] = i]
        /\ \A q \in Item \ isReference' : q # a => child'[q] = child[q]
    <2>1. CASE child[a] = NULL
      BY <1>1, <1>2, <2>1 DEF AppendItem, Links
    <2>2. CASE child[a] # NULL
      BY <2>2 DEF AppendItem
    <2>3. QED BY <2>1, <2>2
  <1>4. F!Link(a, i, {})
    BY <1>1, <1>3, AppendedInForest
  <1>5. {} \in F!Places(a)
    BY DEF F!Places
  <1>6. QED BY <1>1, <1>4, <1>5 DEF F!Attach

LEMMA AppendNewAttaches ==
    ASSUME LinkInv, LinkInv', NEW a \in live \ isReference, NEW x \in Item \ live,
           \/ AppendItem(a, x) /\ isReference' = isReference
           \/ \E item \in Item : AppendReference(a, item, x) /\ isReference' = isReference \cup {x},
           live' = live \cup {x}, roots' = roots, F!Named(x)
    PROVE  F!AttachNew(a, x)
  <1>1. child \in Links /\ next \in Links /\ a \in Item /\ a # x /\ isReference \subseteq live
    BY DEF LinkInv, TypeOK, Links
  <1>2. next[x] = NULL /\ child[x] = NULL /\ \A z \in Item : next[z] # x
    BY NullIsNoItem DEF LinkInv, NoDangling
  <1>3. x \notin Kids(a)
    BY KidFacts
  <1>4. /\ \/ child[a] = NULL /\ child'[a] = x /\ UNCHANGED next
           \/ /\ child[a] # NULL /\ child'[a] = child[a]
              /\ \E last \in Kids(a) : next[last] = NULL /\ next' = [next EXCEPT ![last] = x]
        /\ \A q \in Item \ isReference' : q # a => child'[q] = child[q]
        /\ isReference' \in {isReference, isReference \cup {x}}
    <2>1. CASE AppendItem(a, x) /\ isReference' = isReference
      <3>1. CASE child[a] = NULL
        BY <1>1, <2>1, <3>1 DEF AppendItem, Links
      <3>2. CASE child[a] # NULL
        BY <2>1, <3>2 DEF AppendItem
      <3>3. QED BY <3>1, <3>2
    <2>2. CASE \E item \in Item : AppendReference(a, item, x) /\ isReference' = isReference \cup {x}
      <3>1. PICK item \in Item : AppendReference(a, item, x)
        BY <2>2
      <3>2. CASE child[a] = NULL
        BY <1>1, <2>2, <3>1, <3>2 DEF AppendReference, Links
      <3>3. CASE child[a] # NULL
        BY <1>1, <2>2, <3>1, <3>3 DEF AppendReference, Links
      <3>4. QED BY <3>2, <3>3
    <2>3. QED BY <2>1, <2>2
  <1>5. F!Link(a, x, {})
    BY <1>1, <1>2, <1>3, <1>4, AppendedInForest
  <1>6. QED BY <1>5 DEF F!AttachNew

LEMMA InsertAttaches ==
    ASSUME LinkInv, LinkInv', NEW a \in live \ isReference, NEW i \in roots, a \notin Subtree(i),
           NEW b \in Kids(a),
           next' = [x \in Item |-> IF x = i THEN b
                                   ELSE IF x = prev[b] THEN i ELSE next[x]],
           child' = IF b = child[a] THEN [child EXCEPT ![a] = i] ELSE child,
           live' = live, roots' = roots \ {i}, isReference' = isReference,
           string' = string
    PROVE  F!Attach(a, i)
  <1>1. /\ i \in Item /\ a \in Item /\ a # i /\ i \notin Kids(a) /\ next[i] = NULL
        /\ \A z \in Item : next[z] # i
        /\ a \notin F!Under(i)
    BY RootFacts
  <1>2. next \in Links /\ prev \in Links /\ child \in Links
    BY DEF LinkInv, TypeOK, Links
  <1>3. /\ b \in Item /\ b # i /\ Kids(a) = KidsOf[a] /\ child[a] \in Kids(a) /\ child[a] # NULL
        /\ \A z \in Item : next[z] = b <=> prev[b] = z
    <2>1. b \in live /\ child[a] # NULL
      BY KidFacts
    <2>2. QED BY <1>1, <2>1, ForestNow, KidsClosed DEF LinkInv, TypeOK, DoublyLinked
  <1>4. IsWithout(next', next, i)
    BY <1>1, <1>2, <1>3 DEF IsWithout, Links
  <1>5. KidsOf = KidsBy(next, child, isReference')
    BY ForestNow
  <1> DEFINE h == child'[a]
  <1>6. /\ h \in Item
        /\ h = i \/ \E w \in KidsOf[a] : next'[w] = i
        /\ \A q \in Item \ isReference' :
               child[q] = IF q = a /\ h = i THEN next'[i] ELSE child'[q]
    <2>1. CASE b = child[a]
      <3>1. h = i /\ next'[i] = b /\ \A q \in Item : q # a => child'[q] = child[q]
        BY <1>1, <1>2, <2>1 DEF Links
      <3>2. QED BY <1>1, <2>1, <3>1
    <2>2. CASE b # child[a]
      <3>1. h = child[a] /\ h \in Item /\ h # i /\ child' = child
        BY <1>1, <1>2, <1>3, <2>2 DEF Links
      <3>2. prev[b] \in KidsOf[a]
        BY <1>3, <2>2, KidFrom
      <3>3. prev[b] \in Item /\ prev[b] # i
        BY <1>1, <1>3, <3>2, KidsClosed
      <3>4. next'[prev[b]] = i
        BY <3>3
      <3>5. QED BY <3>1, <3>2, <3>4
    <2>3. QED BY <2>1, <2>2
  <1> HIDE DEF h
  <1>7. F!Link(a, i, Behind(next', i)) /\ Behind(next', i) \in F!Places(a)
    <2>1. child'[a] = h /\ isReference \subseteq isReference' /\ a \notin isReference'
      BY DEF h
    <2>2. QED BY <1>1, <1>4, <1>5, <1>6, <2>1, JoinedInForest
  <1>8. F!Named(i)
    BY <1>1, SameNames
  <1>9. QED BY <1>1, <1>7, <1>8 DEF F!Attach
-----------------------------------------------------------------------------
(* Unlinking, exchanging and freeing in the forest.                         *)

LEMMA NotLinkedToItself ==
    ASSUME NEW n, NEW c, NEW R, Proper(n, c, R), NEW x \in Item
    PROVE  n[x] # x
  <1> SUFFICES ASSUME n[x] = x PROVE FALSE
    OBVIOUS
  <1>1. n \in Links /\ n[x] # NULL
    BY NullIsNoItem DEF Proper
  <1>2. Behind(n, x) = From(n, x)
    BY <1>1 DEF Behind
  <1>3. QED BY <1>1, <1>2, FromClosed, NotBehindItself

LEMMA UnlinkedInForest ==
    ASSUME LinkInv, NEW p \in live \ isReference, NEW x \in Kids(p)
    PROVE  /\ KidsBy(NextWithout(x), ChildWithout(p, x), isReference) = F!KidsWithout(p, x)
           /\ AfterBy(NextWithout(x)) = F!AfterWithout(x)
           /\ x \in KidsOf[p] /\ p \in Item /\ x \in live
  <1>1. /\ next \in Links /\ prev \in Links /\ child \in Links
        /\ p \in Item /\ x \in Item /\ x \in live /\ child[p] # NULL
    BY KidFacts DEF LinkInv, TypeOK, Links
  <1>2. Proper(next, child, isReference)
    BY ProperNow
  <1>3. /\ x \in KidsOf[p] /\ KidsOf = KidsBy(next, child, isReference)
        /\ AfterOf = AfterBy(next)
    BY <1>1, ForestNow
  <1> DEFINE m == NextWithout(x)
             d == ChildWithout(p, x)
  <1>4. m \in Links
    BY <1>1 DEF NextWithout, Links
  <1>5. next[x] # x
    BY <1>1, <1>2, NotLinkedToItself
  <1>6. IsWithout(next, m, x)
    BY <1>1, <1>5 DEF IsWithout, NextWithout, LinkInv, DoublyLinked
  <1>7. \A q \in Item \ isReference : d[q] = IF q = p /\ child[p] = x THEN next[x] ELSE child[q]
    BY <1>1 DEF ChildWithout, Links
  <1> HIDE DEF m, d
  <1>8. /\ KidsBy(m, d, isReference) = [KidsOf EXCEPT ![p] = @ \ {x}]
        /\ AfterBy(m) = [y \in Item |-> IF y = x THEN {} ELSE AfterOf[y] \ {x}]
    BY <1>1, <1>2, <1>3, <1>4, <1>6, <1>7, Taken
  <1>9. QED BY <1>1, <1>3, <1>8 DEF F!KidsWithout, F!AfterWithout, m, d

(* Freeing a set of items nothing left over leads to prunes the forest.     *)
LEMMA FreedInForest ==
    ASSUME LinkInv, NEW G \in SUBSET live, NEW n \in Links, NEW q, NEW c \in Links, NEW s,
           Free(G, n, q, c, s),
           \A z \in Item \ G : n[z] \notin G,
           \A z \in (Item \ isReference) \ G : c[z] \notin G,
           NEW K, \A z \in Item \ G : KidsBy(n, c, isReference)[z] = K[z],
           NEW A, \A z \in Item \ G : AfterBy(n)[z] = A[z],
           NEW N, \A z \in Item \ G : N[z] = IF s[z] = NULL THEN NULL ELSE s[z].key
    PROVE  F!Prune(G, K, A, N)
  <1>1. G \in SUBSET Item
    BY DEF LinkInv, TypeOK
  <1>2. /\ live' = live \ G /\ isReference' = isReference \ G
        /\ next' = [z \in Item |-> IF z \in G THEN NULL ELSE n[z]]
        /\ child' = [z \in Item |-> IF z \in G THEN NULL ELSE c[z]]
        /\ string' = [z \in Item |-> IF z \in G THEN NULL ELSE s[z]]
    BY DEF Free
  <1>3. \A z \in Item :
           /\ KidsBy(next', child', isReference \ G)[z] = IF z \in G THEN {} ELSE KidsBy(n, c, isReference)[z]
           /\ AfterBy(next')[z] = IF z \in G THEN {} ELSE AfterBy(n)[z]
    <2> DEFINE m == next'
               d == child'
    <2>1. /\ m \in Links /\ \A z \in Item : m[z] = IF z \in G THEN NULL ELSE n[z]
          /\ d \in Links /\ \A z \in Item : d[z] = IF z \in G THEN NULL ELSE c[z]
      BY <1>1, <1>2 DEF Links
    <2>2. AreCleared(n, c, isReference, G, m, d)
      BY <2>1 DEF AreCleared
    <2> HIDE DEF m, d
    <2>3. m \in Links /\ d \in Links
      BY <2>1
    <2>4. ListsCleared(n, c, isReference, G, m, d)
      BY <1>1, <2>2, <2>3, Pruned
    <2>5. QED BY <2>4 DEF m, d, ListsCleared
  <1>4. KidsOf' = [z \in Item |-> IF z \in G THEN {} ELSE K[z]]
    <2>1. KidsOf' = KidsBy(next', child', isReference \ G)
      BY <1>2, ForestThen
    <2>2. KidsOf' = [z \in Item |-> KidsOf'[z]]
      BY DEF KidsOf
    <2>3. \A z \in Item : KidsOf'[z] = IF z \in G THEN {} ELSE K[z]
      BY <1>3, <2>1
    <2>4. QED BY <2>2, <2>3
  <1>5. AfterOf' = [z \in Item |-> IF z \in G THEN {} ELSE A[z]]
    <2>1. AfterOf' = [z \in Item |-> AfterOf'[z]]
      BY DEF AfterOf
    <2>2. \A z \in Item : AfterOf'[z] = IF z \in G THEN {} ELSE A[z]
      BY <1>3, ForestThen
    <2>3. QED BY <2>1, <2>2
  <1>6. NameOf' = [z \in Item |-> IF z \in G THEN NULL ELSE N[z]]
    BY <1>2 DEF NameOf
  <1>7. QED BY <1>2, <1>4, <1>5, <1>6 DEF F!Prune

LEMMA DetachItemStep ==
    ASSUME LinkInv, NEW p \in Item, NEW x \in Item, DetachItem(p, x)
    PROVE  F!FNext
  <1>1. p \in live \ isReference /\ x \in Kids(p)
    BY DEF DetachItem
  <1>2. /\ KidsBy(next', child', isReference') = F!KidsWithout(p, x)
        /\ AfterBy(next') = F!AfterWithout(x)
        /\ x \in KidsOf[p]
    BY <1>1, UnlinkedInForest DEF DetachItem
  <1>3. KidsOf' = F!KidsWithout(p, x) /\ AfterOf' = F!AfterWithout(x)
    BY <1>2, ForestThen
  <1>4. NameOf' = NameOf
    BY DEF NameOf, DetachItem, names
  <1>5. F!Detach(p, x)
    BY <1>2, <1>3, <1>4 DEF F!Detach, DetachItem
  <1>6. QED BY <1>1, <1>5 DEF F!FNext

(* What is outside a subtree leads into it only at its top.                 *)
LEMMA OutsideSubtree ==
    ASSUME LinkInv, NEW x \in live
    PROVE  /\ Subtree(x) \in SUBSET live /\ x \in Subtree(x) /\ F!Under(x) = Subtree(x)
           /\ \A z \in Item \ Subtree(x) : next[z] \in Subtree(x) => next[z] = x
           /\ \A z \in (Item \ isReference) \ Subtree(x) : child[z] \in Subtree(x) => child[z] = x
  <1>1. /\ \A z \in Item : next[z] # NULL => z \in live
        /\ \A z \in Item : child[z] # NULL => z \in live
        /\ live \subseteq Item
    BY DEF LinkInv, NoDangling, TypeOK
  <1>2. Subtree(x) \subseteq live /\ x \in Subtree(x)
    BY SubtreeIsolated
  <1>3. \A z \in Subtree(x) \ {x} :
           /\ \A y \in live : next[y] = z => y \in Subtree(x)
           /\ \A y \in live \ isReference : child[y] = z => y \in Subtree(x)
    BY SubtreeIsolated
  <1>4. \A z \in Subtree(x) : z # NULL
    BY <1>1, <1>2, NullIsNoItem
  <1>5. F!Under(x) = Subtree(x)
    BY UnderIsSubtree
  <1>6. QED BY <1>1, <1>2, <1>3, <1>4, <1>5

LEMMA DeleteItemStep ==
    ASSUME LinkInv, NEW p \in Item, NEW x \in Item, DeleteItem(p, x)
    PROVE  F!FNext
  <1>1. p \in live \ isReference /\ x \in Kids(p)
    BY DEF DeleteItem
  <1> DEFINE G == Subtree(x)
             n == NextWithout(x)
             c == ChildWithout(p, x)
             q == PrevWithout(x)
  <1>2. /\ next \in Links /\ prev \in Links /\ child \in Links
        /\ \A y, z \in Item : next[y] = z <=> prev[z] = y
    BY DEF LinkInv, TypeOK, Links, DoublyLinked
  <1>3. n \in Links /\ c \in Links
    BY <1>2 DEF Links, NextWithout, ChildWithout
  <1>4. /\ KidsBy(n, c, isReference) = F!KidsWithout(p, x)
        /\ AfterBy(n) = F!AfterWithout(x)
        /\ x \in KidsOf[p] /\ x \in live
    BY <1>1, UnlinkedInForest
  <1>5. /\ G \in SUBSET live /\ x \in G /\ F!Under(x) = G
        /\ \A z \in Item \ G : next[z] \in G => next[z] = x
        /\ \A z \in (Item \ isReference) \ G : child[z] \in G => child[z] = x
        /\ next[x] \notin G
    BY <1>1, <1>4, OutsideSubtree, SiblingsOutside
  <1>6. \A z \in Item \ G : n[z] \notin G
    BY <1>2, <1>5 DEF NextWithout
  <1>7. \A z \in (Item \ isReference) \ G : c[z] \notin G
    <2>1. ASSUME NEW z \in Item \ isReference, child[z] = x PROVE z = p
      <3>1. x \in KidsOf[z]
        BY <1>2, <2>1, ForestNow, FromClosed, NullIsNoItem DEF KidsBy
      <3>2. KidsOf = KidsBy(next, child, isReference) /\ Proper(next, child, isReference)
        BY ForestNow, ProperNow
      <3>3. QED BY <1>4, <3>1, <3>2, ListsShareNothing
    <2>2. \A z \in Item : c[z] = IF z = p /\ child[p] = x THEN next[x] ELSE child[z]
      BY <1>2 DEF ChildWithout, Links
    <2> HIDE DEF c, G
    <2>3. QED BY <1>5, <2>1, <2>2
  <1>8. Free(G, n, q, c, string) /\ roots' = roots
    BY DEF DeleteItem
  <1> HIDE DEF G, n, c, q
  <1>9. F!Prune(G, F!KidsWithout(p, x), F!AfterWithout(x), NameOf)
    <2> DEFINE K == F!KidsWithout(p, x)
               A == F!AfterWithout(x)
    <2>1. /\ \A z \in Item \ G : KidsBy(n, c, isReference)[z] = K[z]
          /\ \A z \in Item \ G : AfterBy(n)[z] = A[z]
          /\ \A z \in Item \ G : NameOf[z] = IF string[z] = NULL THEN NULL ELSE string[z].key
      BY <1>4 DEF NameOf
    <2> HIDE DEF K, A
    <2>2. F!Prune(G, K, A, NameOf)
      BY <1>3, <1>5, <1>6, <1>7, <1>8, <2>1, FreedInForest
    <2>3. QED BY <2>2 DEF K, A
  <1>10. x \notin live'
    BY <1>5, <1>8 DEF Free
  <1>11. F!Erase(p, x)
    BY <1>4, <1>5, <1>8, <1>9, <1>10 DEF F!Erase
  <1>12. QED BY <1>1, <1>11 DEF F!FNext

LEMMA DeleteStep ==
    ASSUME LinkInv, NEW root \in Item, Delete(root)
    PROVE  F!FNext
  <1> DEFINE G == Reach(root)
  <1>1. /\ next \in Links /\ prev \in Links /\ child \in Links
        /\ root \in roots /\ root \in live /\ next[root] = NULL
        /\ \A z \in Item : next[z] # root
    BY NullIsNoItem DEF LinkInv, TypeOK, Links, DoublyLinked, Delete
  <1>2. G = Subtree(root)
    BY <1>1, ReachAlone
  <1>3. /\ G \in SUBSET live /\ root \in G /\ F!Under(root) = G
        /\ \A z \in Item \ G : next[z] \in G => next[z] = root
        /\ \A z \in (Item \ isReference) \ G : child[z] \in G => child[z] = root
        /\ \A z \in G \ {root} : z \notin roots
    BY <1>1, <1>2, OutsideSubtree, SubtreeIsolated
  <1>4. \A z \in Item \ G : next[z] \notin G
    BY <1>1, <1>3
  <1>5. \A z \in (Item \ isReference) \ G : child[z] \notin G
    <2>1. \A z \in Item : child[z] # NULL => z \in live
      BY DEF LinkInv, NoDangling
    <2>2. \A z \in Item \ isReference : child[z] # root
      BY <1>1, <2>1, NullIsNoItem DEF LinkInv, OwnedOnce
    <2>3. QED BY <1>3, <2>2
  <1>6. Free(G, next, prev, child, string) /\ roots' = roots \ G
    BY DEF Delete
  <1> HIDE DEF G
  <1>7. roots' = roots \ {root}
    BY <1>1, <1>3, <1>6
  <1>8. F!Prune(G, KidsOf, AfterOf, NameOf)
    <2>1. /\ \A z \in Item \ G : KidsBy(next, child, isReference)[z] = KidsOf[z]
          /\ \A z \in Item \ G : AfterBy(next)[z] = AfterOf[z]
          /\ \A z \in Item \ G : NameOf[z] = IF string[z] = NULL THEN NULL ELSE string[z].key
      BY ForestNow DEF NameOf
    <2> DEFINE K == KidsOf
               A == AfterOf
               N == NameOf
    <2>2. /\ \A z \in Item \ G : KidsBy(next, child, isReference)[z] = K[z]
          /\ \A z \in Item \ G : AfterBy(next)[z] = A[z]
          /\ \A z \in Item \ G : N[z] = IF string[z] = NULL THEN NULL ELSE string[z].key
      BY <2>1
    <2> HIDE DEF K, A, N
    <2>3. F!Prune(G, K, A, N)
      BY <1>1, <1>3, <1>4, <1>5, <1>6, <2>2, FreedInForest
    <2>4. QED BY <2>3 DEF K, A, N
  <1>9. root \notin live'
    BY <1>3, <1>6 DEF Free
  <1>10. F!Destroy(root)
    BY <1>1, <1>3, <1>7, <1>8, <1>9 DEF F!Destroy
  <1>11. QED BY <1>10 DEF F!FNext

LEMMA ExchangeStep ==
    ASSUME LinkInv, NEW p \in live \ isReference, NEW r \in roots, p \notin Subtree(r),
           NEW x \in Kids(p), NEW s, Exchange(p, x, r, s), NEW name \in Key \cup {NULL},
           name = IF s[r] = NULL THEN NULL ELSE s[r].key,
           \A z \in Item : z # r => s[z] = string[z]
    PROVE  F!FNext
  <1>1. /\ next \in Links /\ prev \in Links /\ child \in Links
        /\ \A y, z \in Item : next[y] = z <=> prev[z] = y
    BY DEF LinkInv, TypeOK, Links, DoublyLinked
  <1>2. /\ r \in Item /\ r \in live /\ p \in Item /\ next[r] = NULL
        /\ \A z \in Item : next[z] # r
        /\ \A q \in Item \ isReference : child[q] # r
        /\ p \notin F!Under(r)
    BY RootFacts
  <1>3. /\ x \in Item /\ x \in live /\ x # r
        /\ x \in KidsOf[p]
    <2>1. x \in live /\ x \notin roots /\ KidsOf[p] = Kids(p)
      BY <1>2, KidFacts, ForestNow
    <2>2. QED BY <2>1 DEF LinkInv, TypeOK
  <1>4. KidsOf = KidsBy(next, child, isReference) /\ AfterOf = AfterBy(next)
    BY ForestNow
  <1>5. Proper(next, child, isReference)
    BY ProperNow
  <1> DEFINE G == Subtree(x)
             n == [y \in Item |-> IF y = r THEN next[x]
                                  ELSE IF y = prev[x] THEN r ELSE next[y]]
             q == [y \in Item |-> IF y = r THEN prev[x]
                                  ELSE IF y = next[x] THEN r ELSE prev[y]]
             c == IF child[p] = x THEN [child EXCEPT ![p] = r] ELSE child
             m == [y \in Item |-> IF y = x THEN NULL ELSE n[y]]
  <1>6. /\ m[x] = NULL /\ m[r] = next[x]
        /\ \A z \in Item \ {x, r} : m[z] = IF next[z] = x THEN r ELSE next[z]
        /\ \A z \in Item : m[z] = IF z = x THEN NULL ELSE n[z]
    BY <1>1, <1>2, <1>3
  <1>7. n \in Links /\ c \in Links /\ m \in Links
    <2>1. \A y \in Item : n[y] \in Item \cup {NULL}
      BY <1>1, <1>2, <1>3 DEF Links
    <2>2. n \in Links
      <3>1. n = [y \in Item |-> n[y]]
        OBVIOUS
      <3> HIDE DEF n
      <3>2. QED BY <2>1, <3>1 DEF Links
    <2>3. m \in Links
      <3> HIDE DEF n
      <3>1. QED BY <2>2 DEF Links
    <2>4. c \in Links
      BY <1>1, <1>2 DEF Links
    <2>5. QED BY <2>2, <2>3, <2>4
  <1>8. IsExchanged(next, m, x, r)
    <2>1. next[x] # x
      BY <1>3, <1>5, NotLinkedToItself
    <2> HIDE DEF m, n
    <2>2. QED BY <1>2, <1>3, <1>6, <2>1 DEF IsExchanged
  <1>9. \A z \in Item \ isReference : c[z] = IF z = p /\ child[p] = x THEN r ELSE child[z]
    <2>1. child[p] = x => c = [child EXCEPT ![p] = r]
      OBVIOUS
    <2>2. child[p] # x => c = child
      OBVIOUS
    <2> HIDE DEF n, q, c, m, G
    <2>3. /\ child \in [Item -> Item \cup {NULL}] /\ p \in Item
      BY <1>1, <1>2 DEF Links
    <2>4. QED BY <2>1, <2>2, <2>3
  <1>10. /\ G \in SUBSET live /\ x \in G /\ F!Under(x) = G
         /\ \A z \in Item \ G : next[z] \in G => next[z] = x
         /\ \A z \in (Item \ isReference) \ G : child[z] \in G => child[z] = x
         /\ next[x] \notin G
         /\ r \notin G
    <2>1. r \notin Subtree(x)
      BY <1>3, SubtreeIsolated
    <2>2. QED BY <1>3, <2>1, OutsideSubtree, SiblingsOutside
  <1>11. Free(G, n, q, c, s) /\ roots' = roots \ {r}
    BY DEF Exchange
  <1>12. Free(G, m, q, c, s)
    <2>1. next' = [z \in Item |-> IF z \in G THEN NULL ELSE n[z]]
      BY <1>11 DEF Free
    <2>2. next' = [z \in Item |-> IF z \in G THEN NULL ELSE m[z]]
      BY <1>10, <2>1
    <2> HIDE DEF G, n, q, c, m
    <2>3. QED BY <1>11, <2>2 DEF Free
  <1>13. \A z \in Item \ G : m[z] \notin G
    <2> HIDE DEF G, m
    <2>1. QED BY <1>6, <1>10
  <1>14. \A z \in (Item \ isReference) \ G : c[z] \notin G
    <2>1. ASSUME NEW z \in Item \ isReference, child[z] = x PROVE z = p
      <3>1. x \in KidsOf[z]
        BY <1>1, <1>3, <1>4, <2>1, FromClosed, NullIsNoItem DEF KidsBy
      <3>2. QED BY <1>2, <1>3, <1>4, <1>5, <3>1, ListsShareNothing
    <2> HIDE DEF G, c
    <2>2. QED BY <1>2, <1>9, <1>10, <2>1
  <1> HIDE DEF G, n, q, c, m
  <1>15. /\ KidsBy(m, c, isReference) = [KidsOf EXCEPT ![p] = (@ \ {x}) \cup {r}]
         /\ \A z \in Item \ {x} :
               AfterBy(m)[z] = IF z = r THEN AfterOf[x]
                               ELSE IF x \in AfterOf[z] THEN (AfterOf[z] \ {x}) \cup {r}
                               ELSE AfterOf[z]
    <2>1. x \in KidsBy(next, child, isReference)[p]
      BY <1>3, <1>4
    <2> DEFINE K == KidsBy(next, child, isReference)
               A == AfterBy(next)
               n0 == next
               c0 == child
               R == isReference
    <2>2. /\ Proper(n0, c0, R) /\ x \in KidsBy(n0, c0, R)[p]
          /\ IsExchanged(n0, m, x, r) /\ HeadExchanged(c0, c, R, p, x, r)
          /\ K = KidsBy(n0, c0, R) /\ A = AfterBy(n0)
      BY <1>2, <1>5, <1>8, <1>9, <2>1 DEF HeadExchanged
    <2> HIDE DEF K, A, n0, c0, R
    <2>3. /\ KidsBy(m, c, R) = [K EXCEPT ![p] = (@ \ {x}) \cup {r}]
          /\ \A z \in Item \ {x} :
                AfterBy(m)[z] = IF z = r THEN A[x]
                                ELSE IF x \in A[z] THEN (A[z] \ {x}) \cup {r} ELSE A[z]
      BY <1>2, <1>7, <2>2, Swapped, SMTT(60)
    <2>4. QED BY <1>4, <2>3 DEF K, A, n0, R
  <1> DEFINE K == F!KidsWith(p, x, r)
             A == F!AfterWith(x, r)
             N == [NameOf EXCEPT ![r] = name]
  <1>16. /\ \A z \in Item \ G : KidsBy(m, c, isReference)[z] = K[z]
         /\ \A z \in Item \ G : AfterBy(m)[z] = A[z]
    <2>1. K = [KidsOf EXCEPT ![p] = (@ \ {x}) \cup {r}]
      BY DEF F!KidsWith
    <2>2. \A z \in Item : A[z] = IF z = r THEN AfterOf[x]
                                 ELSE IF x \in AfterOf[z] THEN (AfterOf[z] \ {x}) \cup {r}
                                 ELSE AfterOf[z]
      BY DEF F!AfterWith
    <2> HIDE DEF K, A
    <2>3. QED BY <1>10, <1>15, <2>1, <2>2
  <1>17. \A z \in Item \ G : N[z] = IF s[z] = NULL THEN NULL ELSE s[z].key
    BY DEF NameOf
  <1>18. N[r] = name
    BY <1>2 DEF NameOf
  <1>19. F!Prune(G, K, A, N)
    <2> HIDE DEF K, A, N
    <2>1. QED BY <1>7, <1>10, <1>12, <1>13, <1>14, <1>16, <1>17, FreedInForest
  <1>20. x \notin live' /\ NameOf'[r] = name
    <2>1. NameOf' = [z \in Item |-> IF z \in G THEN NULL ELSE N[z]]
      BY <1>19 DEF F!Prune
    <2> HIDE DEF N
    <2>2. QED BY <1>2, <1>10, <1>11, <1>18, <2>1 DEF Free
  <1>21. F!Exchange(p, x, r, name)
    BY <1>2, <1>3, <1>10, <1>11, <1>19, <1>20 DEF F!Exchange
  <1>22. QED BY <1>2, <1>3, <1>21 DEF F!FNext
-----------------------------------------------------------------------------
(* Every call is a step of the forest, or leaves it as it is.               *)

SameForest == UNCHANGED <<live, roots, KidsOf, AfterOf, NameOf>>

LEMMA InitForest == Init => F!FInit
  <1> SUFFICES ASSUME Init PROVE F!FInit
    OBVIOUS
  <1>1. KidsOf = [p \in Item |-> {}]
    BY ForestNow DEF KidsBy, Init
  <1>2. AfterOf = [x \in Item |-> {}]
    BY DEF AfterOf, Init
  <1>3. NameOf = [x \in Item |-> NULL]
    BY DEF NameOf, Init
  <1>4. QED BY <1>1, <1>2, <1>3 DEF F!FInit, Init

LEMMA SameListsSame ==
    ASSUME UNCHANGED <<next, child, string>>, \A x \in Item : child[x] # NULL =>
               (x \in isReference' <=> x \in isReference)
    PROVE  KidsOf' = KidsOf /\ AfterOf' = AfterOf /\ NameOf' = NameOf
  <1>1. KidsOf' = KidsOf
    BY ForestNow, ForestThen DEF KidsBy
  <1>2. AfterOf' = AfterOf
    BY ForestNow, ForestThen
  <1>3. NameOf' = NameOf
    BY DEF NameOf
  <1>4. QED BY <1>1, <1>2, <1>3

LEMMA CreateStep ==
    ASSUME LinkInv, NEW x \in Item, NEW object \in BOOLEAN, Create(x, object)
    PROVE  F!FNext
  <1>1. KidsOf' = KidsOf /\ AfterOf' = AfterOf /\ NameOf' = NameOf
    <2>1. UNCHANGED <<next, child, string, isReference>>
      BY DEF Create, links, names
    <2>2. QED BY <2>1, SameListsSame
  <1>2. F!New(x)
    BY <1>1 DEF F!New, Create
  <1>3. QED BY <1>2 DEF F!FNext

LEMMA AddItemToArrayStep ==
    ASSUME LinkInv, LinkInv', NEW a \in Item, NEW i \in Item, AddItemToArray(a, i)
    PROVE  F!FNext
  <1>1. /\ a \in live \ isReference /\ i \in roots /\ a \notin Subtree(i)
        /\ AppendItem(a, i) /\ live' = live /\ roots' = roots \ {i}
        /\ isReference' = isReference /\ string' = string
    BY DEF AddItemToArray, MayAdd, names
  <1>2. F!Named(i)
    BY <1>1, SameNames
  <1>3. F!Attach(a, i)
    BY <1>1, <1>2, AppendAttaches
  <1>4. QED BY <1>3 DEF F!FNext

LEMMA NamedAdded ==
    ASSUME LinkInv, LinkInv', NEW a \in Item, NEW i \in Item, NEW k \in Key,
           MayAdd(a, i), AppendItem(a, i), live' = live, roots' = roots \ {i},
           isReference' = isReference, NEW name \in Name, name.key = k,
           string' = Renamed(i, name)
    PROVE  F!FNext
  <1>1. a \in live \ isReference /\ i \in roots /\ a \notin Subtree(i)
    BY DEF MayAdd
  <1>2. F!Named(i)
    BY NewName
  <1>3. F!Attach(a, i)
    BY <1>1, <1>2, AppendAttaches
  <1>4. QED BY <1>3 DEF F!FNext

LEMMA AddItemToObjectStep ==
    ASSUME "strdup" \notin Faults, LinkInv, LinkInv', NEW o \in Item, NEW i \in Item,
           NEW k \in Key, AddItemToObject(o, k, i)
    PROVE  F!FNext
  <1>1. /\ MayAdd(o, i) /\ AppendItem(o, i) /\ live' = live /\ roots' = roots \ {i}
        /\ isReference' = isReference /\ string' = Renamed(i, Copy(k))
    BY DEF AddItemToObject
  <1>2. QED BY <1>1, CopyName, NamedAdded

LEMMA AddItemToObjectCSStep ==
    ASSUME LinkInv, LinkInv', NEW o \in Item, NEW i \in Item,
           NEW k \in Key, AddItemToObjectCS(o, k, i)
    PROVE  F!FNext
  <1>1. /\ MayAdd(o, i) /\ AppendItem(o, i) /\ live' = live /\ roots' = roots \ {i}
        /\ isReference' = isReference /\ string' = Renamed(i, Literal(k))
    BY DEF AddItemToObjectCS
  <1>2. QED BY <1>1, CopyName, NamedAdded

LEMMA AddNewToObjectStep ==
    ASSUME "strdup" \notin Faults, LinkInv, LinkInv', NEW o \in Item, NEW x \in Item,
           NEW k \in Key, AddNewToObject(o, k, x)
    PROVE  F!FNext
  <1>1. /\ o \in live \ isReference /\ x \in Item \ live
        /\ AppendItem(o, x) /\ live' = live \cup {x} /\ roots' = roots
        /\ isReference' = isReference /\ string' = Renamed(x, Copy(k))
    BY DEF AddNewToObject, LinkInv, TypeOK
  <1>2. F!Named(x)
    BY <1>1, CopyName, NewName
  <1>3. F!AttachNew(o, x)
    BY <1>1, <1>2, AppendNewAttaches
  <1>4. QED BY <1>3 DEF F!FNext

LEMMA AddItemReferenceToArrayStep ==
    ASSUME LinkInv, LinkInv', NEW a \in Item, NEW item \in Item, NEW x \in Item,
           AddItemReferenceToArray(a, item, x)
    PROVE  F!FNext
  <1>1. /\ a \in live \ isReference /\ x \in Item \ live
        /\ AppendReference(a, item, x) /\ live' = live \cup {x} /\ roots' = roots
        /\ isReference' = isReference \cup {x} /\ string' = string
    BY DEF AddItemReferenceToArray
  <1>2. F!Named(x)
    BY <1>1, SameNames
  <1>3. F!AttachNew(a, x)
    BY <1>1, <1>2, AppendNewAttaches
  <1>4. QED BY <1>3 DEF F!FNext

LEMMA AddItemReferenceToObjectStep ==
    ASSUME "strdup" \notin Faults, LinkInv, LinkInv', NEW o \in Item, NEW item \in Item,
           NEW x \in Item, NEW k \in Key, AddItemReferenceToObject(o, k, item, x)
    PROVE  F!FNext
  <1>1. /\ o \in live \ isReference /\ x \in Item \ live
        /\ AppendReference(o, item, x) /\ live' = live \cup {x} /\ roots' = roots
        /\ isReference' = isReference \cup {x} /\ string' = Renamed(x, Copy(k))
    BY DEF AddItemReferenceToObject, LinkInv, TypeOK
  <1>2. F!Named(x)
    BY <1>1, CopyName, NewName
  <1>3. F!AttachNew(o, x)
    BY <1>1, <1>2, AppendNewAttaches
  <1>4. QED BY <1>3 DEF F!FNext

LEMMA InsertItemInArrayStep ==
    ASSUME LinkInv, LinkInv', NEW a \in Item, NEW i \in Item, InsertItemInArray(a, i)
    PROVE  F!FNext
  <1>1. CASE AddItemToArray(a, i)
    BY <1>1, AddItemToArrayStep
  <1>2. CASE /\ MayAdd(a, i)
             /\ \E b \in Kids(a) :
                   /\ next' = [x \in Item |-> IF x = i THEN b
                                              ELSE IF x = prev[b] THEN i ELSE next[x]]
                   /\ child' = IF b = child[a] THEN [child EXCEPT ![a] = i] ELSE child
             /\ roots' = roots \ {i}
             /\ live' = live /\ isReference' = isReference /\ string' = string
    <2>1. PICK b \in Kids(a) :
             /\ next' = [x \in Item |-> IF x = i THEN b
                                        ELSE IF x = prev[b] THEN i ELSE next[x]]
             /\ child' = IF b = child[a] THEN [child EXCEPT ![a] = i] ELSE child
      BY <1>2
    <2>2. /\ a \in live \ isReference /\ i \in roots /\ a \notin Subtree(i)
          /\ live' = live /\ roots' = roots \ {i} /\ isReference' = isReference
          /\ string' = string
      BY <1>2 DEF MayAdd
    <2>3. F!Attach(a, i)
      BY <2>1, <2>2, InsertAttaches
    <2>4. QED BY <2>3 DEF F!FNext
  <1>3. QED BY <1>1, <1>2 DEF InsertItemInArray, names

LEMMA ReplaceItemStep ==
    ASSUME LinkInv, NEW p \in Item, NEW x \in Item, NEW r \in Item, ReplaceItem(p, x, r)
    PROVE  F!FNext
  <1>1. /\ p \in live \ isReference /\ r \in roots /\ p \notin Subtree(r) /\ x \in Kids(p)
        /\ Exchange(p, x, r, string)
    BY DEF ReplaceItem, MayAdd
  <1>2. NameOf[r] \in Key \cup {NULL} /\ NameOf[r] = IF string[r] = NULL THEN NULL ELSE string[r].key
    BY NamesTyped DEF NameOf
  <1>3. QED BY <1>1, <1>2, ExchangeStep

LEMMA ReplaceItemInObjectStep ==
    ASSUME "strdup" \notin Faults, LinkInv, NEW o \in Item, NEW r \in Item, NEW k \in Key,
           NEW sensitive \in BOOLEAN, ReplaceItemInObject(o, k, sensitive, r)
    PROVE  F!FNext
  <1> DEFINE s == Renamed(r, Copy(k))
  <1>1. o \in live \ isReference /\ r \in roots /\ o \notin Subtree(r)
    BY DEF ReplaceItemInObject, MayAdd
  <1>2. \/ \E x \in Kids(o) : Exchange(o, x, r, s)
        \/ /\ string' = s
           /\ UNCHANGED <<live, next, child, isReference, roots>>
    BY DEF ReplaceItemInObject, links
  <1>3. r \in Item /\ Copy(k) \in Name /\ Copy(k).key = k /\ Copy(k) # NULL
    BY CopyName, NullIsNoName DEF Name
  <1>4. s[r] = Copy(k) /\ \A z \in Item : z # r => s[z] = string[z]
    BY <1>3 DEF Renamed, LinkInv, TypeOK
  <1> HIDE DEF s
  <1>5. CASE \E x \in Kids(o) : Exchange(o, x, r, s)
    <2>1. PICK x \in Kids(o) : Exchange(o, x, r, s)
      BY <1>5
    <2>2. k \in Key \cup {NULL} /\ k = IF s[r] = NULL THEN NULL ELSE s[r].key
      BY <1>3, <1>4
    <2>3. QED BY <1>1, <1>4, <2>1, <2>2, ExchangeStep
  <1>6. CASE string' = s /\ UNCHANGED <<live, next, child, isReference, roots>>
    <2>1. KidsOf' = KidsOf /\ AfterOf' = AfterOf
      BY <1>6, ForestNow, ForestThen
    <2>2. NameOf' = [NameOf EXCEPT ![r] = k]
      BY <1>3, <1>6, NewName DEF s
    <2>3. F!Rename(r, k)
      BY <1>1, <1>6, <2>1, <2>2 DEF F!Rename
    <2>4. QED BY <2>3 DEF F!FNext
  <1>7. QED BY <1>2, <1>5, <1>6

LEMMA NothingMoves ==
    ASSUME UNCHANGED <<live, next, child, string, isReference, roots>>
    PROVE  SameForest
  BY SameListsSame DEF SameForest

LEMMA StepInForest ==
    ASSUME "strdup" \notin Faults, LinkInv, LinkInv', [Next]_vars
    PROVE  F!FNext \/ SameForest
  <1>1. CASE UNCHANGED vars
    BY <1>1, NothingMoves DEF vars
  <1>2. ASSUME NEW x \in Item, NEW object \in BOOLEAN, Create(x, object)
        PROVE  F!FNext
    BY <1>2, CreateStep
  <1>3. ASSUME NEW array \in Item, NEW item \in Item, AddItemToArray(array, item)
        PROVE  F!FNext
    BY <1>3, AddItemToArrayStep
  <1>4. ASSUME NEW o \in Item, NEW item \in Item, NEW k \in Key,
               AddItemToObject(o, k, item) \/ AddItemToObjectCS(o, k, item)
        PROVE  F!FNext
    BY <1>4, AddItemToObjectStep, AddItemToObjectCSStep
  <1>5. ASSUME NEW o \in Item, NEW x \in Item, NEW k \in Key, AddNewToObject(o, k, x)
        PROVE  F!FNext
    BY <1>5, AddNewToObjectStep
  <1>6. ASSUME NEW array \in Item, NEW item \in Item, NEW x \in Item,
               AddItemReferenceToArray(array, item, x)
        PROVE  F!FNext
    BY <1>6, AddItemReferenceToArrayStep
  <1>7. ASSUME NEW o \in Item, NEW item \in Item, NEW x \in Item, NEW k \in Key,
               AddItemReferenceToObject(o, k, item, x)
        PROVE  F!FNext
    BY <1>7, AddItemReferenceToObjectStep
  <1>8. ASSUME NEW parent \in Item, NEW item \in Item,
               DetachItem(parent, item) \/ DeleteItem(parent, item)
        PROVE  F!FNext
    BY <1>8, DetachItemStep, DeleteItemStep
  <1>9. ASSUME NEW o \in Item, NEW k \in Key, NEW sensitive \in BOOLEAN, Crash(o, k, sensitive)
        PROVE  SameForest
    <2>1. UNCHANGED <<live, next, child, string, isReference, roots>>
      BY <1>9 DEF Crash, links, names
    <2>2. QED BY <2>1, NothingMoves
  <1>10. ASSUME NEW o \in Item, NEW k \in Key, NEW sensitive \in BOOLEAN,
                DetachItemFromObject(o, k, sensitive) \/ DeleteItemFromObject(o, k, sensitive)
         PROVE  F!FNext \/ SameForest
    <2>1. \/ Crash(o, k, sensitive)
          \/ \E item \in Kids(o) : DetachItem(o, item) \/ DeleteItem(o, item)
      BY <1>10 DEF DetachItemFromObject, DeleteItemFromObject
    <2>2. Kids(o) \subseteq Item
      BY DEF Kids, Chain
    <2>3. QED BY <1>8, <1>9, <2>1, <2>2
  <1>11. ASSUME NEW root \in Item, Delete(root)
         PROVE  F!FNext
    BY <1>11, DeleteStep
  <1>12. ASSUME NEW array \in Item, NEW newitem \in Item, InsertItemInArray(array, newitem)
         PROVE  F!FNext
    BY <1>12, InsertItemInArrayStep
  <1>13. ASSUME NEW array \in Item, InsertNullInArray(array)
         PROVE  SameForest
    <2>1. UNCHANGED <<live, next, child, string, isReference, roots>>
      BY <1>13 DEF InsertNullInArray, links, names
    <2>2. QED BY <2>1, NothingMoves
  <1>14. ASSUME NEW parent \in Item, NEW item \in Item, NEW replacement \in Item,
                ReplaceItem(parent, item, replacement)
         PROVE  F!FNext
    BY <1>14, ReplaceItemStep
  <1>15. ASSUME NEW o \in Item, NEW replacement \in Item, NEW k \in Key,
                NEW sensitive \in BOOLEAN, ReplaceItemInObject(o, k, sensitive, replacement)
         PROVE  F!FNext
    BY <1>15, ReplaceItemInObjectStep
  <1>16. CASE Next
    BY <1>2, <1>3, <1>4, <1>5, <1>6, <1>7, <1>8, <1>10, <1>11, <1>12, <1>13, <1>14, <1>15,
       <1>16 DEF Next
  <1>17. QED BY <1>1, <1>16

(* Every call does to the forest what its description says, as long as      *)
(* names can be copied: the pointers and flags of cJSON.c implement an      *)
(* ordered, named forest whatever items the program has.  When a name cannot *)
(* be copied, cJSON_AddItemReferenceToObject (cJSON.c:1910) and the macros  *)
(* of cJSON.h:238-244 lose an item that is in no list and that nobody holds, *)
(* and no step of a forest makes a node that nobody holds.                  *)
THEOREM CallsActOnForest ==
    ASSUME "strdup" \notin Faults
    PROVE  Spec => ImplementsForest
  <1>1. Init => F!FInit
    BY InitForest
  <1>2. LinkInv /\ LinkInv' /\ [Next]_vars => [F!FNext]_(F!forest)
    <2> SUFFICES ASSUME LinkInv, LinkInv', [Next]_vars PROVE [F!FNext]_(F!forest)
      OBVIOUS
    <2>1. F!FNext \/ SameForest
      BY StepInForest
    <2>2. QED BY <2>1 DEF SameForest, F!forest
  <1>3. Spec => []LinkInv
    BY LinksSound
  <1>4. QED BY <1>1, <1>2, <1>3, PTL DEF Spec, ImplementsForest, F!Forest
=============================================================================
