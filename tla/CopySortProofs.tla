--------------------------- MODULE CopySortProofs ---------------------------
(***************************************************************************)
(* What holds of CopySort for every structure that is copied, every array  *)
(* and every allocation that fails: the original is not touched, what is   *)
(* made is one tree that owns all that was allocated for it and is linked  *)
(* both ways, and a call that fails leaves nothing.  The first part is     *)
(* about forests of items under construction: what a tree has below it,    *)
(* and what linking one tree into another, growing a new one and freeing   *)
(* one do to all the others.                                               *)
(***************************************************************************)
EXTENDS CopySort, ItemHeapProofs

Pointers == [Item -> Item \cup {NULL}]

-----------------------------------------------------------------------------
(* Forests under construction.  n, c and p are next, child and prev; N are  *)
(* the items in question, Q those that nothing leads to yet.                *)

Closed(n, c, T) ==
    \A y \in T : (n[y] # NULL => n[y] \in T) /\ (c[y] # NULL => c[y] \in T)

(* What cJSON_Delete(t) frees, when there is no reference in N.             *)
Below(n, c, N, t) ==
    {y \in N : \A T \in SUBSET N : t \in T /\ Closed(n, c, T) => y \in T}

Inside(n, c, p, N) ==
    \A x \in N : /\ n[x] \in N \cup {NULL} /\ c[x] \in N \cup {NULL}
                 /\ p[x] \in N \cup {NULL} /\ (p[x] # NULL => n[p[x]] = x)

OneLeader(n, c, N) ==
    \A y, z, w \in N : (n[z] = y \/ c[z] = y) /\ (n[w] = y \/ c[w] = y) => z = w

Loose(n, c, N, t) == n[t] = NULL /\ \A z \in N : n[z] # t /\ c[z] # t

Owns(n, c, N, Q) == \A T \in SUBSET N : Q \subseteq T /\ Closed(n, c, T) => N \subseteq T

IsForest(n, c, p, N, Q) ==
    /\ Q \subseteq N /\ Inside(n, c, p, N) /\ OneLeader(n, c, N)
    /\ \A t \in Q : Loose(n, c, N, t)
    /\ Owns(n, c, N, Q)

(* The kids of t end with `last'.                                           *)
EndsWith(n, c, N, t, last) ==
    IF last = NULL THEN c[t] = NULL ELSE last \in Below(n, c, N, t) \ {t} /\ n[last] = NULL

(* The kids of the items in Q end as they did.                              *)
Keeps(Q, N, n, c, M, m, d) ==
    \A v \in Q, l \in Item \cup {NULL} :
       EndsWith(n, c, N, v, l) => EndsWith(m, d, M, v, l)

LEMMA BelowClosed ==
    ASSUME NEW n, NEW c, NEW p, NEW N \in SUBSET Item, Inside(n, c, p, N), NEW t \in N
    PROVE  /\ t \in Below(n, c, N, t) /\ Below(n, c, N, t) \subseteq N
           /\ Closed(n, c, Below(n, c, N, t))
  <1>1. t \in Below(n, c, N, t) /\ Below(n, c, N, t) \subseteq N
    BY DEF Below
  <1>2. ASSUME NEW y \in Below(n, c, N, t), NEW z \in {n[y], c[y]}, z # NULL
        PROVE  z \in Below(n, c, N, t)
    <2>1. z \in N
      BY <1>1, <1>2 DEF Inside
    <2>2. ASSUME NEW T \in SUBSET N, t \in T, Closed(n, c, T) PROVE z \in T
      BY <1>2, <2>2 DEF Below, Closed
    <2>3. QED BY <2>1, <2>2 DEF Below
  <1>3. QED BY <1>1, <1>2 DEF Closed

LEMMA BelowLeast ==
    ASSUME NEW n, NEW c, NEW N \in SUBSET Item, NEW t \in N,
           NEW T \in SUBSET N, t \in T, Closed(n, c, T)
    PROVE  Below(n, c, N, t) \subseteq T
  BY DEF Below

(* What is below an item, but for the item, has a leader there.             *)
LEMMA BelowLed ==
    ASSUME NEW n, NEW c, NEW p, NEW N \in SUBSET Item, Inside(n, c, p, N), NEW t \in N,
           NEW y \in Below(n, c, N, t), y # t
    PROVE  \E z \in Below(n, c, N, t) : n[z] = y \/ c[z] = y
  <1> SUFFICES ASSUME \A z \in Below(n, c, N, t) : n[z] # y /\ c[z] # y PROVE FALSE
    OBVIOUS
  <1> DEFINE T == Below(n, c, N, t) \ {y}
  <1>1. T \in SUBSET N /\ t \in T /\ Closed(n, c, T)
    BY BelowClosed DEF Closed
  <1> HIDE DEF T
  <1>2. Below(n, c, N, t) \subseteq T
    BY <1>1, BelowLeast
  <1>3. QED BY <1>2 DEF T

(* Nothing leads into the tree of a top from outside.                       *)
LEMMA BelowApart ==
    ASSUME NEW n, NEW c, NEW p, NEW N \in SUBSET Item, NEW Q, IsForest(n, c, p, N, Q),
           NEW t \in Q
    PROVE  /\ \A z \in N \ Below(n, c, N, t) :
                 /\ n[z] \notin Below(n, c, N, t) /\ c[z] \notin Below(n, c, N, t)
                 /\ p[z] \notin Below(n, c, N, t)
           /\ \A u \in Q \ {t} : Below(n, c, N, u) \subseteq N \ Below(n, c, N, t)
  <1> DEFINE B == Below(n, c, N, t)
  <1>1. t \in N /\ Inside(n, c, p, N) /\ OneLeader(n, c, N) /\ Loose(n, c, N, t)
    BY DEF IsForest
  <1>2. B \subseteq N /\ Closed(n, c, B) /\ t \in B
    BY <1>1, BelowClosed
  <1>3. ASSUME NEW y \in B, y # t PROVE \E z \in B : n[z] = y \/ c[z] = y
    BY <1>1, <1>3, BelowLed
  <1> HIDE DEF B
  <1>4. ASSUME NEW z \in N \ B, NEW y \in B, n[z] = y \/ c[z] = y PROVE FALSE
    <2>1. y # t
      BY <1>1, <1>4 DEF Loose
    <2>2. PICK w \in B : n[w] = y \/ c[w] = y
      BY <1>3, <2>1
    <2>3. y \in N /\ w \in N
      BY <1>2
    <2>4. QED BY <1>1, <1>4, <2>2, <2>3 DEF OneLeader
  <1>5. ASSUME NEW z \in N \ B, p[z] \in B PROVE FALSE
    <2>1. p[z] # NULL /\ z # NULL /\ n[p[z]] = z
      BY <1>1, <1>2, <1>5, NullIsNoItem DEF Inside
    <2>2. QED BY <1>2, <1>5, <2>1 DEF Closed
  <1>6. ASSUME NEW u \in Q \ {t} PROVE Below(n, c, N, u) \subseteq N \ B
    <2> DEFINE T == N \ B
    <2>1. u \in N /\ Loose(n, c, N, u)
      BY DEF IsForest
    <2>2. u \notin B
      <3>1. \A z \in B : n[z] # u /\ c[z] # u
        BY <1>2, <2>1 DEF Loose
      <3>2. QED BY <1>3, <3>1
    <2>3. T \in SUBSET N /\ u \in T /\ Closed(n, c, T)
      BY <1>1, <1>4, <2>1, <2>2 DEF Closed, Inside
    <2> HIDE DEF T
    <2>4. Below(n, c, N, u) \subseteq T
      BY <2>1, <2>3, BelowLeast
    <2>5. QED BY <2>4 DEF T
  <1>7. /\ \A z \in N \ B : n[z] \notin B /\ c[z] \notin B /\ p[z] \notin B
        /\ \A u \in Q \ {t} : Below(n, c, N, u) \subseteq N \ B
    BY <1>4, <1>5, <1>6
  <1>8. QED BY <1>7 DEF B

-----------------------------------------------------------------------------
(* What the steps do to a forest.                                           *)

LEMMA ForestEmpty ==
    ASSUME NEW n, NEW c, NEW p
    PROVE  /\ IsForest(n, c, p, {}, {})
           /\ \A N \in SUBSET Item : IsForest(n, c, p, N, {}) => N = {}
  <1>1. IsForest(n, c, p, {}, {})
    BY DEF IsForest, Inside, OneLeader, Owns
  <1>2. ASSUME NEW N \in SUBSET Item, IsForest(n, c, p, N, {}) PROVE N = {}
    <2>1. {} \in SUBSET N /\ Closed(n, c, {})
      BY DEF Closed
    <2>2. QED BY <1>2, <2>1 DEF IsForest, Owns
  <1>3. QED BY <1>1, <1>2

(* A tree that has all is what its top leads to.                            *)
LEMMA ForestOne ==
    ASSUME NEW n, NEW c, NEW p, NEW N \in SUBSET Item, NEW t, IsForest(n, c, p, N, {t})
    PROVE  t \in N /\ Below(n, c, N, t) = N
  <1>1. t \in N /\ Inside(n, c, p, N) /\ Owns(n, c, N, {t})
    BY DEF IsForest
  <1> DEFINE B == Below(n, c, N, t)
  <1>2. B \in SUBSET N /\ {t} \subseteq B /\ Closed(n, c, B)
    BY <1>1, BelowClosed
  <1> HIDE DEF B
  <1>3. N \subseteq B
    BY <1>1, <1>2 DEF Owns
  <1>4. QED BY <1>1, <1>2, <1>3 DEF B

(* A blank item is a tree of its own.                                       *)
LEMMA ForestGrown ==
    ASSUME NEW n, NEW c, NEW p, NEW N \in SUBSET Item, NEW Q, IsForest(n, c, p, N, Q),
           NEW x \in Item \ N, n[x] = NULL, c[x] = NULL, p[x] = NULL
    PROVE  /\ IsForest(n, c, p, N \cup {x}, Q \cup {x})
           /\ EndsWith(n, c, N \cup {x}, x, NULL)
           /\ Keeps(N, N, n, c, N \cup {x}, n, c)
  <1> DEFINE M == N \cup {x}
  <1>1. Q \subseteq N /\ Inside(n, c, p, N) /\ OneLeader(n, c, N) /\ Owns(n, c, N, Q)
        /\ \A t \in Q : Loose(n, c, N, t)
    BY DEF IsForest
  <1>2. Q \cup {x} \subseteq M /\ M \in SUBSET Item
    BY <1>1
  <1>3. Inside(n, c, p, M)
    BY <1>1 DEF Inside
  <1>4. OneLeader(n, c, M)
    <2>1. ASSUME NEW y \in M, NEW z \in M, n[z] = y \/ c[z] = y PROVE y \in N /\ z \in N
      BY <1>1, <1>2, <2>1, NullIsNoItem DEF Inside
    <2>2. QED BY <1>1, <2>1 DEF OneLeader
  <1>5. ASSUME NEW t \in Q \cup {x} PROVE Loose(n, c, M, t)
    <2>1. CASE t = x
      BY <1>1, <2>1, NullIsNoItem DEF Loose, Inside
    <2>2. CASE t \in Q
      BY <1>1, <2>2, NullIsNoItem DEF Loose
    <2>3. QED BY <2>1, <2>2
  <1>6. ASSUME NEW T \in SUBSET M, Closed(n, c, T) PROVE T \cap N \in SUBSET N /\ Closed(n, c, T \cap N)
    BY <1>1, <1>6 DEF Closed, Inside
  <1>7. Owns(n, c, M, Q \cup {x})
    <2> SUFFICES ASSUME NEW T \in SUBSET M, Q \cup {x} \subseteq T, Closed(n, c, T)
                 PROVE  M \subseteq T
      BY DEF Owns
    <2>1. T \cap N \in SUBSET N /\ Closed(n, c, T \cap N) /\ Q \subseteq T \cap N
      BY <1>1, <1>6
    <2>2. N \subseteq T \cap N
      BY <1>1, <2>1 DEF Owns
    <2>3. QED BY <2>2
  <1>8. ASSUME NEW u \in N PROVE Below(n, c, N, u) \subseteq Below(n, c, M, u)
    <2> SUFFICES ASSUME NEW y \in Below(n, c, N, u), NEW T \in SUBSET M, u \in T,
                        Closed(n, c, T)
                 PROVE  y \in T
      BY DEF Below
    <2>1. T \cap N \in SUBSET N /\ Closed(n, c, T \cap N) /\ u \in T \cap N
      BY <1>6
    <2>2. QED BY <2>1 DEF Below
  <1>9. QED BY <1>1, <1>2, <1>3, <1>4, <1>5, <1>7, <1>8 DEF IsForest, EndsWith, Keeps

(* Closing the links in, when one is added: what leads to x leads to a set  *)
(* that has x.                                                              *)
LEMMA ForestJoined ==
    ASSUME NEW n \in Pointers, NEW c \in Pointers, NEW p \in Pointers,
           NEW N \in SUBSET Item, NEW Q, IsForest(n, c, p, N, Q),
           NEW u \in Q, NEW x \in Q \ {u}, NEW last \in Below(n, c, N, u) \ {u}, n[last] = NULL
    PROVE  LET m == [n EXCEPT ![last] = x]
               q == [p EXCEPT ![x] = last]
           IN  /\ IsForest(m, c, q, N, Q \ {x})
               /\ EndsWith(m, c, N, u, x)
               /\ Keeps(Q \ {u, x}, N, n, c, N, m, c)
  <1> DEFINE m == [n EXCEPT ![last] = x]
             q == [p EXCEPT ![x] = last]
  <1>1. Q \subseteq N /\ Inside(n, c, p, N) /\ OneLeader(n, c, N) /\ Owns(n, c, N, Q)
        /\ \A t \in Q : Loose(n, c, N, t)
    BY DEF IsForest
  <1>2. last \in N /\ x \in N /\ u \in N /\ last \in Item /\ x \in Item /\ x # NULL
    BY <1>1, BelowClosed, NullIsNoItem
  <1>3. /\ m[last] = x /\ \A z \in Item \ {last} : m[z] = n[z]
        /\ q[x] = last /\ \A z \in Item \ {x} : q[z] = p[z]
    BY <1>2 DEF Pointers
  <1> HIDE DEF m, q
  <1>4. last \notin Below(n, c, N, x)
    BY <1>1, BelowApart
  <1>5. Inside(m, c, q, N)
    <2> SUFFICES ASSUME NEW y \in N
                 PROVE  /\ m[y] \in N \cup {NULL} /\ c[y] \in N \cup {NULL}
                        /\ q[y] \in N \cup {NULL} /\ (q[y] # NULL => m[q[y]] = y)
      BY DEF Inside
    <2>1. m[y] \in N \cup {NULL} /\ c[y] \in N \cup {NULL} /\ q[y] \in N \cup {NULL}
      BY <1>1, <1>2, <1>3 DEF Inside
    <2>2. ASSUME q[y] # NULL PROVE m[q[y]] = y
      <3>1. CASE y = x
        BY <1>3, <3>1
      <3>2. CASE y # x
        <4>1. q[y] = p[y] /\ n[p[y]] = y /\ p[y] \in N /\ y # NULL
          BY <1>1, <1>3, <2>2, <3>2, NullIsNoItem DEF Inside
        <4>2. p[y] # last
          BY <4>1
        <4>3. QED BY <1>3, <4>1, <4>2
      <3>3. QED BY <3>1, <3>2
    <2>3. QED BY <2>1, <2>2
  <1>6. OneLeader(m, c, N)
    <2> SUFFICES ASSUME NEW y \in N, NEW z \in N, NEW w \in N,
                        m[z] = y \/ c[z] = y, m[w] = y \/ c[w] = y
                 PROVE  z = w
      BY DEF OneLeader
    <2>1. ASSUME NEW v \in N, m[v] = x \/ c[v] = x PROVE v = last
      BY <1>1, <1>2, <1>3, <2>1 DEF Loose
    <2>2. CASE y = x
      BY <2>1, <2>2
    <2>3. CASE y # x
      <3>1. (n[z] = y \/ c[z] = y) /\ (n[w] = y \/ c[w] = y)
        BY <1>3, <2>3
      <3>2. QED BY <1>1, <3>1 DEF OneLeader
    <2>4. QED BY <2>2, <2>3
  <1>7. ASSUME NEW t \in Q \ {x} PROVE Loose(m, c, N, t)
    <2>1. t # last
      <3>1. \A v \in Q \ {u} : v # last
        BY <1>1, BelowClosed, BelowApart
      <3>2. QED BY <3>1
    <2>2. t \in N /\ t \in Item /\ Loose(n, c, N, t)
      BY <1>1
    <2>3. QED BY <1>3, <2>1, <2>2 DEF Loose
  <1>8. ASSUME NEW T \in SUBSET N, Closed(m, c, T) PROVE Closed(n, c, T)
    BY <1>2, <1>3, <1>8 DEF Closed
  <1>9. Owns(m, c, N, Q \ {x})
    <2> SUFFICES ASSUME NEW T \in SUBSET N, Q \ {x} \subseteq T, Closed(m, c, T)
                 PROVE  N \subseteq T
      BY DEF Owns
    <2> DEFINE B == Below(n, c, N, x)
    <2>1. B \subseteq N /\ x \in B /\ Closed(n, c, B) /\ last \notin B
      BY <1>1, <1>2, <1>4, BelowClosed
    <2> HIDE DEF B
    <2>2. Closed(n, c, T)
      BY <1>8
    <2>3. T \cup B \in SUBSET N /\ Q \subseteq T \cup B /\ Closed(n, c, T \cup B)
      BY <2>1, <2>2 DEF Closed
    <2>4. last \in T
      BY <1>1, <1>2, <2>1, <2>3 DEF Owns
    <2>5. x \in T
      BY <1>2, <1>3, <2>4 DEF Closed
    <2>6. Q \subseteq T
      BY <2>5
    <2>7. QED BY <1>1, <2>2, <2>6 DEF Owns
  <1>10. ASSUME NEW v \in N PROVE Below(n, c, N, v) \subseteq Below(m, c, N, v)
    BY <1>8 DEF Below
  <1>11. x \in Below(m, c, N, u) /\ x # u /\ m[x] = NULL
    <2>1. last \in Below(m, c, N, u)
      BY <1>2, <1>10
    <2>2. x \in Below(m, c, N, u)
      BY <1>2, <1>3, <1>5, <2>1, BelowClosed DEF Closed
    <2>3. x # last
      BY <1>1, <1>2, <1>4, BelowClosed
    <2>4. QED BY <1>1, <1>2, <1>3, <2>2, <2>3 DEF Loose
  <1>12. ASSUME NEW v \in Q \ {u, x}, NEW l \in Item \cup {NULL}, EndsWith(n, c, N, v, l)
         PROVE  EndsWith(m, c, N, v, l)
    <2>1. CASE l = NULL
      BY <1>12, <2>1 DEF EndsWith
    <2>2. CASE l # NULL
      <3>1. l \in Below(n, c, N, v) \ {v} /\ n[l] = NULL /\ v \in N /\ l \in Item
        BY <1>1, <1>12, <2>2 DEF EndsWith
      <3>2. last \notin Below(n, c, N, v)
        BY BelowApart
      <3>3. l \in Below(m, c, N, v) /\ m[l] = NULL
        BY <1>3, <1>10, <3>1, <3>2
      <3>4. QED BY <2>2, <3>1, <3>3 DEF EndsWith
    <2>3. QED BY <2>1, <2>2
  <1>13. IsForest(m, c, q, N, Q \ {x})
    BY <1>1, <1>5, <1>6, <1>7, <1>9 DEF IsForest
  <1>14. EndsWith(m, c, N, u, x)
    BY <1>2, <1>11 DEF EndsWith
  <1>15. Keeps(Q \ {u, x}, N, n, c, N, m, c)
    BY <1>12 DEF Keeps
  <1>16. QED BY <1>13, <1>14, <1>15 DEF m, q

(* The same when x becomes the first kid of u.                              *)
LEMMA ForestGiven ==
    ASSUME NEW n \in Pointers, NEW c \in Pointers, NEW p \in Pointers,
           NEW N \in SUBSET Item, NEW Q, IsForest(n, c, p, N, Q),
           NEW u \in Q, NEW x \in Q \ {u}, c[u] = NULL
    PROVE  LET d == [c EXCEPT ![u] = x]
           IN  /\ IsForest(n, d, p, N, Q \ {x})
               /\ EndsWith(n, d, N, u, x)
               /\ Keeps(Q \ {u, x}, N, n, c, N, n, d)
  <1> DEFINE d == [c EXCEPT ![u] = x]
  <1>1. Q \subseteq N /\ Inside(n, c, p, N) /\ OneLeader(n, c, N) /\ Owns(n, c, N, Q)
        /\ \A t \in Q : Loose(n, c, N, t)
    BY DEF IsForest
  <1>2. x \in N /\ u \in N /\ u \in Item /\ x \in Item /\ x # NULL
    BY <1>1, NullIsNoItem
  <1>3. d[u] = x /\ \A z \in Item \ {u} : d[z] = c[z]
    BY <1>2 DEF Pointers
  <1> HIDE DEF d
  <1>4. u \notin Below(n, c, N, x)
    BY <1>1, BelowClosed, BelowApart
  <1>5. Inside(n, d, p, N)
    BY <1>1, <1>2, <1>3 DEF Inside
  <1>6. OneLeader(n, d, N)
    <2> SUFFICES ASSUME NEW y \in N, NEW z \in N, NEW w \in N,
                        n[z] = y \/ d[z] = y, n[w] = y \/ d[w] = y
                 PROVE  z = w
      BY DEF OneLeader
    <2>1. ASSUME NEW v \in N, n[v] = x \/ d[v] = x PROVE v = u
      BY <1>1, <1>2, <1>3, <2>1 DEF Loose
    <2>2. CASE y = x
      BY <2>1, <2>2
    <2>3. CASE y # x
      <3>1. (n[z] = y \/ c[z] = y) /\ (n[w] = y \/ c[w] = y)
        BY <1>3, <2>3
      <3>2. QED BY <1>1, <3>1 DEF OneLeader
    <2>4. QED BY <2>2, <2>3
  <1>7. ASSUME NEW t \in Q \ {x} PROVE Loose(n, d, N, t)
    BY <1>1, <1>3 DEF Loose
  <1>8. ASSUME NEW T \in SUBSET N, Closed(n, d, T) PROVE Closed(n, c, T)
    BY <1>2, <1>3, <1>8 DEF Closed
  <1>9. Owns(n, d, N, Q \ {x})
    <2> SUFFICES ASSUME NEW T \in SUBSET N, Q \ {x} \subseteq T, Closed(n, d, T)
                 PROVE  N \subseteq T
      BY DEF Owns
    <2>1. x \in T
      BY <1>2, <1>3 DEF Closed
    <2>2. Q \subseteq T /\ Closed(n, c, T)
      BY <1>8, <2>1
    <2>3. QED BY <1>1, <2>2 DEF Owns
  <1>10. ASSUME NEW v \in N PROVE Below(n, c, N, v) \subseteq Below(n, d, N, v)
    BY <1>8 DEF Below
  <1>11. x \in Below(n, d, N, u) /\ n[x] = NULL
    <2>1. x \in Below(n, d, N, u)
      BY <1>2, <1>3, <1>5, BelowClosed DEF Closed
    <2>2. QED BY <1>1, <2>1 DEF Loose
  <1>12. ASSUME NEW v \in Q \ {u, x}, NEW l \in Item \cup {NULL}, EndsWith(n, c, N, v, l)
         PROVE  EndsWith(n, d, N, v, l)
    <2>1. v \in N /\ v \in Item
      BY <1>1
    <2>2. CASE l = NULL
      BY <1>3, <1>12, <2>1, <2>2 DEF EndsWith
    <2>3. CASE l # NULL
      BY <1>10, <1>12, <2>1, <2>3 DEF EndsWith
    <2>4. QED BY <2>2, <2>3
  <1>13. IsForest(n, d, p, N, Q \ {x})
    BY <1>1, <1>5, <1>6, <1>7, <1>9 DEF IsForest
  <1>14. EndsWith(n, d, N, u, x)
    BY <1>2, <1>11 DEF EndsWith
  <1>15. Keeps(Q \ {u, x}, N, n, c, N, n, d)
    BY <1>12 DEF Keeps
  <1>16. QED BY <1>13, <1>14, <1>15 DEF d

(* The links z of pointers f, but for what is in B.                         *)
IsCleared(f, B, g) == \A z \in Item : g[z] = IF z \in B THEN NULL ELSE f[z]

(* A tree is freed.                                                         *)
LEMMA ForestPruned ==
    ASSUME NEW n, NEW c, NEW p, NEW N \in SUBSET Item, NEW Q, IsForest(n, c, p, N, Q),
           NEW t \in Q, NEW B, B = Below(n, c, N, t), NEW m, NEW d, NEW q,
           IsCleared(n, B, m), IsCleared(c, B, d), IsCleared(p, B, q)
    PROVE  /\ t \in B /\ B \subseteq N
           /\ IsForest(m, d, q, N \ B, Q \ {t})
           /\ Keeps(Q \ {t}, N, n, c, N \ B, m, d)
  <1> DEFINE M == N \ B
  <1>1. Q \subseteq N /\ Inside(n, c, p, N) /\ OneLeader(n, c, N) /\ Owns(n, c, N, Q)
        /\ \A u \in Q : Loose(n, c, N, u)
    BY DEF IsForest
  <1>2. t \in B /\ B \subseteq N /\ Closed(n, c, B)
    BY <1>1, BelowClosed
  <1>3. /\ \A z \in M : n[z] \notin B /\ c[z] \notin B /\ p[z] \notin B
        /\ \A u \in Q \ {t} : Below(n, c, N, u) \subseteq M
    BY BelowApart
  <1>4. \A z \in M : m[z] = n[z] /\ d[z] = c[z] /\ q[z] = p[z]
    BY DEF IsCleared
  <1>5. Q \ {t} \subseteq M
    BY <1>1, <1>3, BelowClosed
  <1> HIDE DEF M
  <1>6. M = N \ B /\ M \in SUBSET N /\ M \in SUBSET Item
    BY DEF M
  <1>7. Inside(m, d, q, M)
    BY <1>1, <1>3, <1>4, <1>6 DEF Inside
  <1>8. OneLeader(m, d, M)
    BY <1>1, <1>4, <1>6 DEF OneLeader
  <1>9. ASSUME NEW u \in Q \ {t} PROVE Loose(m, d, M, u)
    BY <1>1, <1>4, <1>5, <1>6 DEF Loose
  <1>10. ASSUME NEW T \in SUBSET M, Closed(m, d, T)
         PROVE  T \in SUBSET N /\ Closed(n, c, T)
    BY <1>4, <1>6, <1>10 DEF Closed
  <1>11. Owns(m, d, M, Q \ {t})
    <2> SUFFICES ASSUME NEW T \in SUBSET M, Q \ {t} \subseteq T, Closed(m, d, T)
                 PROVE  M \subseteq T
      BY DEF Owns
    <2>1. T \cup B \in SUBSET N /\ Q \subseteq T \cup B /\ Closed(n, c, T \cup B)
      BY <1>2, <1>10 DEF Closed
    <2>2. N \subseteq T \cup B
      BY <1>1, <2>1 DEF Owns
    <2>3. QED BY <1>6, <2>2
  <1>12. ASSUME NEW u \in Q \ {t} PROVE Below(n, c, N, u) \subseteq Below(m, d, M, u)
    <2>1. ASSUME NEW y \in Below(n, c, N, u), NEW T \in SUBSET M, u \in T, Closed(m, d, T)
          PROVE  y \in T
      <3>1. T \in SUBSET N /\ Closed(n, c, T)
        BY <1>10, <2>1
      <3>2. QED BY <2>1, <3>1 DEF Below
    <2>2. Below(n, c, N, u) \subseteq M
      BY <1>3, <1>6
    <2>3. QED BY <2>1, <2>2 DEF Below
  <1>13. ASSUME NEW v \in Q \ {t}, NEW l \in Item \cup {NULL}, EndsWith(n, c, N, v, l)
         PROVE  EndsWith(m, d, M, v, l)
    <2>1. v \in M
      BY <1>5
    <2>2. CASE l = NULL
      BY <1>4, <1>13, <2>1, <2>2 DEF EndsWith
    <2>3. CASE l # NULL
      <3>1. l \in Below(n, c, N, v) \ {v} /\ n[l] = NULL
        BY <1>13, <2>3 DEF EndsWith
      <3>2. l \in M /\ l \in Below(m, d, M, v)
        BY <1>3, <1>12, <3>1
      <3>3. QED BY <1>4, <2>3, <3>1, <3>2 DEF EndsWith
    <2>4. QED BY <2>2, <2>3
  <1>14. IsForest(m, d, q, M, Q \ {t})
    BY <1>5, <1>7, <1>8, <1>9, <1>11 DEF IsForest
  <1>15. Keeps(Q \ {t}, N, n, c, M, m, d)
    BY <1>13 DEF Keeps
  <1>16. QED BY <1>2, <1>6, <1>14, <1>15

-----------------------------------------------------------------------------
(* The invariant.                                                           *)

(* What was allocated since the call began.                                 *)
New == live \ before.items

Snapshot == [items : SUBSET Item, first : Item \cup {NULL}, members : SUBSET Item,
             next : Pointers]

TypesInv ==
    /\ TypeOK
    /\ valuestring \in [Item -> Item \cup {NULL}]
    /\ before \in Snapshot
    /\ before.items \subseteq live

(* What is free is blank, and nothing new leads out.                        *)
BlankInv ==
    \A x \in Item \ live : next[x] = NULL /\ prev[x] = NULL /\ child[x] = NULL
NoReference == \A x \in New : x \notin isReference
NewInv ==
    /\ BlankInv /\ NoReference
    /\ \A x \in New : /\ next[x] \in New \cup {NULL} /\ prev[x] \in New \cup {NULL}
                      /\ child[x] \in New \cup {NULL}

(* Which call runs.                                                         *)
CallInv ==
    /\ call.name = "none" => Idle /\ before.items = live
    /\ building # NULL => call.name = "array" /\ copying = <<>>
    /\ copying # <<>> => call.name = "copy"
    /\ building # NULL \/ copying # <<>> => roots \subseteq before.items
    /\ sorting # <<>> => call.name = "sort" /\ call.object \in New

(* The activations of cJSON_Duplicate.  All but the innermost wait for a    *)
(* kid, and each one makes an item of its own.                              *)
DupFrame ==
    [at : {"new", "text", "name", "kids", "return"}, item : Item, new : Item \cup {NULL},
     child : Item \cup {NULL}, last : Item \cup {NULL}, recurse : BOOLEAN]

Good(f, waits, N, n, c) ==
    /\ f.new \in N \cup {NULL}
    /\ waits => f.at = "kids" /\ f.child # NULL
    /\ f.at = "new" => f.new = NULL /\ f.last = NULL
    /\ f.at \in {"text", "name"} => f.last = NULL
    /\ f.at \in {"text", "name", "kids"} => f.new # NULL
    /\ f.new # NULL /\ f.at # "return" => EndsWith(n, c, N, f.new, f.last)

Waiting(s, from, N, n, c) == \A i \in from .. Len(s) : Good(s[i], TRUE, N, n, c)

Frames(s, N, n, c) ==
    /\ s \in Seq(DupFrame)
    /\ s # <<>> => Good(s[1], FALSE, N, n, c)
    /\ Waiting(s, 2, N, n, c)
    /\ \A i, j \in 1 .. Len(s) : s[i].new = s[j].new /\ s[i].new # NULL => i = j

News(s) == {s[i].new : i \in 1 .. Len(s)} \ {NULL}
Rest(s, from) == {s[i].new : i \in from .. Len(s)}

(* What is made so far is a forest.  The newitem of every activation and    *)
(* the array that is built are its tops.                                    *)
MakingInv ==
    /\ Frames(copying, New, next, child)
    /\ copying # <<>> => IsForest(next, child, prev, New, News(copying))
    /\ building # NULL =>
          /\ building \in Builder
          /\ IsForest(next, child, prev, New, {building.array})
          /\ EndsWith(next, child, New, building.array, building.last)

(* The activations of sort_list work on new items, and `second' is behind   *)
(* `current' when a list is split.                                          *)
SortFrame(I) ==
    [at : {"test", "middle", "first", "second", "merge"}, first : I, second : I,
     current : I, result : I, tail : I, sensitive : BOOLEAN]

Halving(f) ==
    /\ f.at = "test" => f.second = f.first
    /\ f.at = "middle" /\ f.current # NULL =>
          f.second # NULL /\ f.current \in Chain(f.second)

SortCallers(s, I) ==
    s \in Seq(SortFrame(I)) /\ \A i \in 1 .. Len(s) : s[i].at \in {"first", "second"}

SortStack(s, I) ==
    s \in Seq(SortFrame(I)) /\ \A i \in 2 .. Len(s) : s[i].at \in {"first", "second"}

SortInv ==
    SortStack(sorting, New \cup {NULL}) /\ (sorting # <<>> => Halving(sorting[1]))

ReturnInv == FailureKeepsNothing /\ MadeWhole

CopyInv ==
    TypesInv /\ NewInv /\ CallInv /\ MakingInv /\ SortInv /\ ReturnInv

-----------------------------------------------------------------------------
(* Stacks.                                                                  *)

LEMMA Replaced ==
    ASSUME NEW R, NEW s \in Seq(R), s # <<>>, NEW f \in R
    PROVE  /\ <<f>> \o Tail(s) \in Seq(R) /\ Len(<<f>> \o Tail(s)) = Len(s)
           /\ (<<f>> \o Tail(s))[1] = f
           /\ \A i \in 2 .. Len(s) : (<<f>> \o Tail(s))[i] = s[i]
  <1>1. Len(s) \in Nat \ {0}
    OBVIOUS
  <1>2. Tail(s) \in Seq(R) /\ Len(Tail(s)) = Len(s) - 1
        /\ \A i \in 1 .. Len(s) - 1 : Tail(s)[i] = s[i + 1]
    BY <1>1
  <1> DEFINE t == Tail(s)
  <1> HIDE DEF t
  <1>3. t \in Seq(R) /\ Len(t) = Len(s) - 1 /\ \A i \in 1 .. Len(s) - 1 : t[i] = s[i + 1]
    BY <1>2 DEF t
  <1>4. /\ <<f>> \o t \in Seq(R) /\ Len(<<f>> \o t) = Len(s) /\ (<<f>> \o t)[1] = f
        /\ \A i \in 2 .. Len(s) : (<<f>> \o t)[i] = t[i - 1]
    BY <1>1, <1>3
  <1>5. \A i \in 2 .. Len(s) : i - 1 \in 1 .. Len(s) - 1 /\ (i - 1) + 1 = i
    BY <1>1
  <1>6. \A i \in 2 .. Len(s) : (<<f>> \o t)[i] = s[i]
    BY <1>3, <1>4, <1>5
  <1>7. QED BY <1>4, <1>6 DEF t

LEMMA Pushed ==
    ASSUME NEW R, NEW s \in Seq(R), NEW f \in R
    PROVE  /\ <<f>> \o s \in Seq(R) /\ Len(<<f>> \o s) = Len(s) + 1
           /\ (<<f>> \o s)[1] = f
           /\ \A i \in 2 .. Len(s) + 1 : (<<f>> \o s)[i] = s[i - 1]
  OBVIOUS

LEMMA Popped ==
    ASSUME NEW R, NEW s \in Seq(R), Len(s) > 1, NEW f \in R
    PROVE  /\ <<f>> \o SubSeq(s, 3, Len(s)) \in Seq(R)
           /\ Len(<<f>> \o SubSeq(s, 3, Len(s))) = Len(s) - 1
           /\ (<<f>> \o SubSeq(s, 3, Len(s)))[1] = f
           /\ \A i \in 2 .. Len(s) - 1 : (<<f>> \o SubSeq(s, 3, Len(s)))[i] = s[i + 1]
  <1>1. Len(s) \in Nat /\ Len(s) > 1
    OBVIOUS
  <1>2. SubSeq(s, 3, Len(s)) = [i \in 1 .. Len(s) - 2 |-> s[i + 2]]
    BY <1>1
  <1> DEFINE t == [i \in 1 .. Len(s) - 2 |-> s[i + 2]]
  <1>3. \A i \in 1 .. Len(s) - 2 : i + 2 \in 1 .. Len(s)
    BY <1>1
  <1>4. t \in [1 .. Len(s) - 2 -> R] /\ Len(s) - 2 \in Nat
    BY <1>1, <1>3
  <1>5. \A i \in 1 .. Len(s) - 2 : t[i] = s[i + 2]
    OBVIOUS
  <1> HIDE DEF t
  <1>6. t \in Seq(R) /\ Len(t) = Len(s) - 2
    BY <1>4
  <1>7. /\ <<f>> \o t \in Seq(R) /\ Len(<<f>> \o t) = Len(s) - 1 /\ (<<f>> \o t)[1] = f
        /\ \A i \in 2 .. Len(s) - 1 : (<<f>> \o t)[i] = t[i - 1]
    BY <1>1, <1>6
  <1>8. \A i \in 2 .. Len(s) - 1 : i - 1 \in 1 .. Len(s) - 2 /\ (i - 1) + 2 = i + 1
    BY <1>1
  <1>9. \A i \in 2 .. Len(s) - 1 : (<<f>> \o t)[i] = s[i + 1]
    BY <1>5, <1>7, <1>8
  <1>10. QED BY <1>2, <1>7, <1>9 DEF t

(* The activations that wait are not disturbed when their items are not.    *)
LEMMA StillWaiting ==
    ASSUME NEW s \in Seq(DupFrame), NEW N, NEW n, NEW c, NEW M, NEW m, NEW d,
           NEW from \in Nat \ {0}, Waiting(s, from, N, n, c),
           NEW Q \in SUBSET M, \A i \in from .. Len(s) : s[i].new \in Q,
           Keeps(Q, N, n, c, M, m, d)
    PROVE  Waiting(s, from, M, m, d)
  <1> SUFFICES ASSUME NEW i \in from .. Len(s) PROVE Good(s[i], TRUE, M, m, d)
    BY DEF Waiting
  <1>1. s[i] \in DupFrame /\ s[i].last \in Item \cup {NULL}
    <2>1. i \in 1 .. Len(s)
      OBVIOUS
    <2>2. s[i] \in DupFrame
      BY <2>1
    <2>3. QED BY <2>2 DEF DupFrame
  <1>2. Good(s[i], TRUE, N, n, c) /\ s[i].new \in Q
    BY DEF Waiting
  <1>3. QED BY <1>1, <1>2 DEF Good, Keeps

(* Of the items that activations make no two are the same.                  *)
LEMMA NewsApart ==
    ASSUME NEW s, NEW N, NEW n, NEW c, Frames(s, N, n, c), s # <<>>
    PROVE  /\ Len(s) \in Nat \ {0} /\ s \in Seq(DupFrame) /\ Head(s) = s[1]
           /\ s[1] \in DupFrame /\ Good(s[1], FALSE, N, n, c)
           /\ News(s) = ({s[1].new} \ {NULL}) \cup Rest(s, 2)
           /\ News(s) \subseteq N
           /\ \A i \in 2 .. Len(s) :
                 s[i] \in DupFrame /\ Good(s[i], TRUE, N, n, c)
                 /\ s[i].new # NULL /\ s[i].new # s[1].new
           /\ \A i \in 3 .. Len(s) : s[i].new # s[2].new
  <1>1. Len(s) \in Nat \ {0} /\ \A i \in 1 .. Len(s) : s[i] \in DupFrame
    BY DEF Frames
  <1>2. Good(s[1], FALSE, N, n, c) /\ \A i \in 2 .. Len(s) : Good(s[i], TRUE, N, n, c)
    BY DEF Frames, Waiting
  <1>3. \A i \in 2 .. Len(s) : s[i].new # NULL
    BY <1>2 DEF Good
  <1>4. \A i, j \in 1 .. Len(s) : s[i].new = s[j].new /\ s[i].new # NULL => i = j
    BY DEF Frames
  <1>5. \A i \in 2 .. Len(s) : s[i].new # s[1].new
    BY <1>1, <1>3, <1>4
  <1>6. \A i \in 3 .. Len(s) : s[i].new # s[2].new
    BY <1>1, <1>3, <1>4
  <1>7. 1 .. Len(s) = {1} \cup 2 .. Len(s)
    BY <1>1
  <1>8. News(s) = ({s[1].new} \ {NULL}) \cup Rest(s, 2)
    BY <1>3, <1>7 DEF News, Rest
  <1>9. \A i \in 1 .. Len(s) : s[i].new \in N \cup {NULL}
    BY <1>2, <1>7 DEF Good
  <1>10. News(s) \subseteq N
    BY <1>9 DEF News
  <1>11. \A i \in 2 .. Len(s) :
            s[i] \in DupFrame /\ Good(s[i], TRUE, N, n, c)
            /\ s[i].new # NULL /\ s[i].new # s[1].new
    BY <1>1, <1>2, <1>3, <1>5, <1>7
  <1>12. s \in Seq(DupFrame) /\ Head(s) = s[1] /\ s[1] \in DupFrame
    BY <1>1, <1>7 DEF Frames
  <1>13. QED BY <1>1, <1>2, <1>6, <1>8, <1>10, <1>11, <1>12

(* The innermost activation goes on as f.                                   *)
LEMMA FramesReplaced ==
    ASSUME NEW s, NEW N, NEW n, NEW c, Frames(s, N, n, c), s # <<>>,
           NEW f \in DupFrame, NEW M, NEW m, NEW d, Good(f, FALSE, M, m, d),
           Waiting(s, 2, M, m, d), f.new \in {NULL, s[1].new} \/ f.new \notin News(s)
    PROVE  /\ Frames(<<f>> \o Tail(s), M, m, d) /\ <<f>> \o Tail(s) # <<>>
           /\ News(<<f>> \o Tail(s)) = ({f.new} \ {NULL}) \cup Rest(s, 2)
  <1> DEFINE t == <<f>> \o Tail(s)
  <1>0. s \in Seq(DupFrame)
    BY DEF Frames
  <1>1. /\ t \in Seq(DupFrame) /\ Len(t) = Len(s) /\ t[1] = f
        /\ \A i \in 2 .. Len(s) : t[i] = s[i]
    BY <1>0, Replaced
  <1> HIDE DEF t
  <1>2. /\ Len(s) \in Nat \ {0} /\ \A i \in 2 .. Len(s) : s[i].new # NULL /\ s[i].new # s[1].new
        /\ Rest(s, 2) \subseteq News(s)
    BY NewsApart
  <1>3. 1 .. Len(s) = {1} \cup 2 .. Len(s)
    BY <1>2
  <1>4. \A i \in 2 .. Len(s) : f.new # s[i].new
    BY <1>2 DEF Rest
  <1>5. \A i, j \in 1 .. Len(t) : t[i].new = t[j].new /\ t[i].new # NULL => i = j
    <2>1. \A i, j \in 1 .. Len(s) : s[i].new = s[j].new /\ s[i].new # NULL => i = j
      BY DEF Frames
    <2>2. QED BY <1>1, <1>3, <1>4, <2>1
  <1>6. Waiting(t, 2, M, m, d)
    BY <1>1 DEF Waiting
  <1>7. News(t) = ({f.new} \ {NULL}) \cup Rest(s, 2)
    BY <1>1, <1>2, <1>3 DEF News, Rest
  <1>8. t # <<>>
    BY <1>1, <1>2
  <1>9. Frames(t, M, m, d)
    BY <1>1, <1>5, <1>6 DEF Frames
  <1>10. QED BY <1>7, <1>8, <1>9 DEF t

(* It calls cJSON_Duplicate for a kid.                                      *)
LEMMA FramesPushed ==
    ASSUME NEW s, NEW N, NEW n, NEW c, Frames(s, N, n, c), s # <<>>,
           Good(s[1], TRUE, N, n, c), NEW f \in DupFrame, Good(f, FALSE, N, n, c), f.new = NULL
    PROVE  /\ Frames(<<f>> \o s, N, n, c) /\ <<f>> \o s # <<>>
           /\ News(<<f>> \o s) = News(s)
  <1> DEFINE t == <<f>> \o s
  <1>0. s \in Seq(DupFrame) /\ Len(s) \in Nat \ {0}
    BY DEF Frames
  <1>1. /\ t \in Seq(DupFrame) /\ Len(t) = Len(s) + 1 /\ t[1] = f
        /\ \A i \in 2 .. Len(s) + 1 : t[i] = s[i - 1]
    BY <1>0, Pushed
  <1> HIDE DEF t
  <1>2. /\ 1 .. Len(t) = {1} \cup 2 .. Len(s) + 1
        /\ \A i \in 2 .. Len(s) + 1 : i - 1 \in 1 .. Len(s) /\ (i - 1) + 1 = i
        /\ \A i \in 1 .. Len(s) : i + 1 \in 2 .. Len(s) + 1 /\ (i + 1) - 1 = i
    BY <1>0, <1>1
  <1>3. \A i \in 1 .. Len(s) : Good(s[i], TRUE, N, n, c)
    <2>1. 1 .. Len(s) = {1} \cup 2 .. Len(s)
      BY <1>0
    <2>2. QED BY <2>1 DEF Frames, Waiting
  <1>4. Waiting(t, 2, N, n, c)
    <2>1. \A i \in 2 .. Len(s) + 1 : Good(t[i], TRUE, N, n, c)
      BY <1>1, <1>2, <1>3
    <2>2. QED BY <1>1, <2>1 DEF Waiting
  <1>5. \A i, j \in 1 .. Len(t) : t[i].new = t[j].new /\ t[i].new # NULL => i = j
    <2>1. \A i, j \in 1 .. Len(s) : s[i].new = s[j].new /\ s[i].new # NULL => i = j
      BY DEF Frames
    <2>2. SUFFICES ASSUME NEW i \in 1 .. Len(t), NEW j \in 1 .. Len(t),
                          t[i].new = t[j].new, t[i].new # NULL
                   PROVE  i = j
      OBVIOUS
    <2>3. i \in 2 .. Len(s) + 1 /\ j \in 2 .. Len(s) + 1
      BY <1>1, <1>2, <2>2
    <2>4. i - 1 = j - 1
      <3>1. i - 1 \in 1 .. Len(s) /\ j - 1 \in 1 .. Len(s)
        BY <1>2, <2>3
      <3>2. t[i] = s[i - 1] /\ t[j] = s[j - 1]
        BY <1>1, <2>3
      <3>3. s[i - 1].new = s[j - 1].new /\ s[i - 1].new # NULL
        BY <2>2, <3>2
      <3>4. QED BY <2>1, <3>1, <3>3
    <2>5. QED BY <1>2, <2>3, <2>4
  <1>6. News(t) = News(s)
    <2>1. ASSUME NEW x, x # NULL, NEW i \in 1 .. Len(t), x = t[i].new
          PROVE  \E j \in 1 .. Len(s) : x = s[j].new
      <3>1. i \in 2 .. Len(s) + 1
        BY <1>1, <1>2, <2>1
      <3>2. t[i] = s[i - 1] /\ i - 1 \in 1 .. Len(s)
        BY <1>1, <1>2, <3>1
      <3>3. QED BY <2>1, <3>2
    <2>2. ASSUME NEW x, x # NULL, NEW i \in 1 .. Len(s), x = s[i].new
          PROVE  \E j \in 1 .. Len(t) : x = t[j].new
      <3>1. i + 1 \in 2 .. Len(s) + 1 /\ i + 1 \in 1 .. Len(t) /\ (i + 1) - 1 = i
        BY <1>2
      <3>2. t[i + 1] = s[(i + 1) - 1]
        BY <1>1, <3>1
      <3>3. QED BY <2>2, <3>1, <3>2
    <2>3. QED BY <2>1, <2>2 DEF News
  <1>7. t # <<>>
    BY <1>0, <1>1
  <1>8. Frames(t, N, n, c)
    BY <1>1, <1>4, <1>5 DEF Frames
  <1>9. QED BY <1>6, <1>7, <1>8 DEF t

(* It returns, and the one that called it goes on as f.                     *)
LEMMA FramesPopped ==
    ASSUME NEW s, NEW N, NEW n, NEW c, Frames(s, N, n, c), Len(s) > 1,
           NEW f \in DupFrame, NEW M, NEW m, NEW d, Good(f, FALSE, M, m, d),
           Waiting(s, 3, M, m, d), f.new \in {NULL, s[2].new}
    PROVE  LET t == <<f>> \o SubSeq(s, 3, Len(s))
           IN  Frames(t, M, m, d) /\ t # <<>> /\ News(t) = ({f.new} \ {NULL}) \cup Rest(s, 3)
  <1> DEFINE t == <<f>> \o SubSeq(s, 3, Len(s))
  <1>0. s \in Seq(DupFrame) /\ Len(s) \in Nat /\ s # <<>>
    BY DEF Frames
  <1>1. /\ t \in Seq(DupFrame) /\ Len(t) = Len(s) - 1 /\ t[1] = f
        /\ \A i \in 2 .. Len(s) - 1 : t[i] = s[i + 1]
    BY <1>0, Popped
  <1> HIDE DEF t
  <1>2. /\ \A i \in 2 .. Len(s) : s[i].new # NULL
        /\ \A i \in 3 .. Len(s) : s[i].new # s[2].new
    BY <1>0, NewsApart
  <1>3. /\ 1 .. Len(t) = {1} \cup 2 .. Len(s) - 1
        /\ \A i \in 2 .. Len(s) - 1 : i + 1 \in 3 .. Len(s) /\ (i + 1) - 1 = i
                                    /\ i + 1 \in 1 .. Len(s) /\ i + 1 \in 2 .. Len(s)
        /\ \A i \in 3 .. Len(s) : i - 1 \in 2 .. Len(s) - 1 /\ (i - 1) + 1 = i
    BY <1>0, <1>1
  <1>4. Waiting(t, 2, M, m, d)
    <2>1. \A i \in 3 .. Len(s) : Good(s[i], TRUE, M, m, d)
      BY DEF Waiting
    <2>2. \A i \in 2 .. Len(s) - 1 : Good(t[i], TRUE, M, m, d)
      BY <1>1, <1>3, <2>1
    <2>3. QED BY <1>1, <2>2 DEF Waiting
  <1>5. \A i \in 2 .. Len(s) - 1 : t[i].new # NULL /\ t[i].new # f.new
    BY <1>1, <1>2, <1>3
  <1>6. \A i, j \in 1 .. Len(t) : t[i].new = t[j].new /\ t[i].new # NULL => i = j
    <2>1. \A i, j \in 1 .. Len(s) : s[i].new = s[j].new /\ s[i].new # NULL => i = j
      BY DEF Frames
    <2>2. SUFFICES ASSUME NEW i \in 1 .. Len(t), NEW j \in 1 .. Len(t),
                          t[i].new = t[j].new, t[i].new # NULL
                   PROVE  i = j
      OBVIOUS
    <2>3. CASE i = 1 \/ j = 1
      BY <1>1, <1>3, <1>5, <2>2, <2>3
    <2>4. CASE i # 1 /\ j # 1
      <3>1. i \in 2 .. Len(s) - 1 /\ j \in 2 .. Len(s) - 1
        BY <1>3, <2>4
      <3>2. i + 1 = j + 1
        BY <1>1, <1>3, <2>1, <2>2, <3>1
      <3>3. QED BY <1>3, <3>1, <3>2
    <2>5. QED BY <2>3, <2>4
  <1>7. News(t) = ({f.new} \ {NULL}) \cup Rest(s, 3)
    <2>1. ASSUME NEW i \in 2 .. Len(s) - 1 PROVE t[i].new \in Rest(s, 3)
      <3>1. t[i] = s[i + 1] /\ i + 1 \in 3 .. Len(s)
        BY <1>1, <1>3
      <3>2. QED BY <3>1 DEF Rest
    <2>2. ASSUME NEW i \in 3 .. Len(s)
          PROVE  s[i].new # NULL /\ \E j \in 1 .. Len(t) : s[i].new = t[j].new
      <3>1. i - 1 \in 2 .. Len(s) - 1 /\ (i - 1) + 1 = i /\ i - 1 \in 1 .. Len(t)
        BY <1>3
      <3>2. t[i - 1] = s[i]
        BY <1>1, <3>1
      <3>3. QED BY <1>5, <3>1, <3>2
    <2>3. Rest(s, 3) \subseteq News(t)
      BY <2>2 DEF News, Rest
    <2>4. {f.new} \ {NULL} \subseteq News(t)
      BY <1>1, <1>3 DEF News
    <2>5. News(t) \subseteq ({f.new} \ {NULL}) \cup Rest(s, 3)
      BY <1>1, <1>3, <2>1 DEF News
    <2>6. QED BY <2>3, <2>4, <2>5
  <1>8. t # <<>>
    BY <1>0, <1>1
  <1>9. Frames(t, M, m, d)
    BY <1>1, <1>4, <1>6 DEF Frames
  <1>10. QED BY <1>7, <1>8, <1>9 DEF t

-----------------------------------------------------------------------------
(* The steps that make something.                                           *)

LEMMA FreshFree ==
    ASSUME MemoryLeft
    PROVE  Fresh \in Item \ live
  BY DEF MemoryLeft, Fresh

(* cJSON_Delete frees what is below an item.                                *)
LEMMA ReachNew ==
    ASSUME TypesInv, NoReference, NEW t \in New, Inside(next, child, prev, New)
    PROVE  Reach(t) = Below(next, child, New, t)
  <1>1. New \in SUBSET Item /\ t \in Item
    BY DEF TypesInv, TypeOK, New
  <1> DEFINE B == Below(next, child, New, t)
  <1>2. t \in B /\ B \subseteq New /\ Closed(next, child, B)
    BY <1>1, BelowClosed
  <1> HIDE DEF B
  <1>3. Reach(t) \subseteq B
    <2>1. B \in SUBSET Item /\ OwnClosed(B)
      BY <1>1, <1>2 DEF Closed, OwnClosed, NextClosed
    <2>2. QED BY <1>1, <1>2, <2>1, ReachLeast
  <1>4. B \subseteq Reach(t)
    <2>1. t \in Reach(t) /\ OwnClosed(Reach(t))
      BY <1>1, ReachClosed DEF TypesInv
    <2>2. Reach(t) \in SUBSET New
      BY <1>2, <1>3
    <2>3. Closed(next, child, Reach(t))
      BY <2>1, <2>2 DEF Closed, OwnClosed, NextClosed, NoReference
    <2>4. QED BY <1>1, <2>1, <2>2, <2>3, BelowLeast DEF B
  <1>5. QED BY <1>3, <1>4 DEF B

(* Cleaning up frees one tree and nothing else.                             *)
LEMMA Discarded ==
    ASSUME TypesInv, BlankInv, NoReference, roots \subseteq before.items,
           NEW Q, IsForest(next, child, prev, New, Q), NEW t \in Q,
           Discard(t), UNCHANGED <<roots, crashed, before>>
    PROVE  /\ TypesInv' /\ BlankInv' /\ NoReference' /\ KeepsSource
           /\ New' \subseteq New
           /\ IsForest(next', child', prev', New', Q \ {t})
           /\ Keeps(Q \ {t}, New, next, child, New', next', child')
  <1>1. New \in SUBSET Item /\ t \in New /\ Inside(next, child, prev, New)
    BY DEF TypesInv, TypeOK, New, IsForest
  <1>2. PICK F \in {Reach(t)} :
           /\ Free(F, next, prev, child, string)
           /\ stringIsConst' = stringIsConst \ F
           /\ valuestring' = [y \in Item |-> IF y \in F THEN NULL ELSE valuestring[y]]
    BY DEF Discard
  <1>a. F = Below(next, child, New, t)
    <2>1. Reach(t) = Below(next, child, New, t)
      BY <1>1, ReachNew
    <2>2. QED BY <1>2, <2>1
  <1>3. /\ IsCleared(next, F, next') /\ IsCleared(child, F, child')
        /\ IsCleared(prev, F, prev')
    BY <1>2 DEF Free, IsCleared
  <1>4. /\ F \subseteq New /\ IsForest(next', child', prev', New \ F, Q \ {t})
        /\ Keeps(Q \ {t}, New, next, child, New \ F, next', child')
    BY <1>1, <1>a, <1>3, ForestPruned
  <1>5. New' = New \ F
    BY <1>2 DEF New, Free
  <1>6. TypesInv'
    <2>1. before.items \subseteq live'
      BY <1>2, <1>4 DEF Free, New, TypesInv
    <2>2. live' \subseteq Item /\ isReference' \subseteq live' /\ isObject' \subseteq live'
          /\ stringIsConst' \subseteq live' /\ roots' \subseteq live' /\ crashed' \in BOOLEAN
      BY <1>2, <2>1 DEF Free, TypesInv, TypeOK
    <2>3. /\ next' \in [Item -> Item \cup {NULL}] /\ prev' \in [Item -> Item \cup {NULL}]
          /\ child' \in [Item -> Item \cup {NULL}]
      BY <1>2 DEF Free, TypesInv, TypeOK
    <2>4. string' \in [Item -> Name \cup {NULL}]
      BY <1>2 DEF Free, TypesInv, TypeOK
    <2>5. valuestring' \in [Item -> Item \cup {NULL}]
      BY <1>2 DEF TypesInv
    <2>6. QED BY <2>1, <2>2, <2>3, <2>4, <2>5 DEF TypesInv, TypeOK
  <1>7. BlankInv'
    BY <1>2, <1>3 DEF BlankInv, IsCleared, Free
  <1>8. NoReference'
    BY <1>2, <1>5 DEF NoReference, Free
  <1>9. KeepsSource
    <2> SUFFICES ASSUME NEW x \in before.items
                 PROVE  /\ next'[x] = next[x] /\ prev'[x] = prev[x] /\ child'[x] = child[x]
                        /\ string'[x] = string[x] /\ valuestring'[x] = valuestring[x]
                        /\ x \in live' /\ (x \in stringIsConst <=> x \in stringIsConst')
      BY DEF KeepsSource
    <2>1. x \in Item /\ x \in live /\ x \notin F
      BY <1>4 DEF New, TypesInv, TypeOK
    <2>2. QED BY <1>2, <2>1 DEF Free
  <1>10. QED BY <1>4, <1>5, <1>6, <1>7, <1>8, <1>9

(* Nothing leads out of a forest.                                           *)
LEMMA NewLinks ==
    ASSUME BlankInv, NoReference, NEW Q, IsForest(next, child, prev, New, Q)
    PROVE  NewInv
  BY DEF NewInv, IsForest, Inside

LEMMA NewLinksThen ==
    ASSUME BlankInv', NoReference', NEW Q, IsForest(next', child', prev', New', Q)
    PROVE  NewInv'
  BY DEF NewInv, IsForest, Inside

(* Nothing is sorted.                                                       *)
LEMMA NoSort ==
    ASSUME NEW I
    PROVE  SortStack(<<>>, I)
  <1>1. <<>> \in Seq(SortFrame(I)) /\ 2 .. Len(<<>>) = {}
    OBVIOUS
  <1>2. QED BY <1>1 DEF SortStack

(* As long as something is being made, nothing else is.                     *)
LEMMA StillMaking ==
    ASSUME CallInv, UNCHANGED <<sorting, sorted, call, before, roots>>,
           building # NULL \/ copying # <<>>, building' # NULL \/ copying' # <<>>,
           building' # NULL => building # NULL, copying' # <<>> => copying # <<>>
    PROVE  CallInv' /\ SortInv' /\ ReturnInv'
  <1>1. call.name \in {"array", "copy"} /\ roots \subseteq before.items
    BY DEF CallInv
  <1>2. sorting' = <<>>
    BY <1>1 DEF CallInv
  <1>3. CallInv'
    BY <1>1, <1>2 DEF CallInv
  <1>4. SortInv'
    BY <1>2, NoSort DEF SortInv
  <1>5. ~Idle'
    BY DEF Idle
  <1>6. ReturnInv'
    BY <1>5 DEF ReturnInv, FailureKeepsNothing, MadeWhole
  <1>7. QED BY <1>3, <1>4, <1>6

LEMMA NewItemStep ==
    ASSUME CopyInv, NewItem, UNCHANGED <<sorting, sorted, call, before>>
    PROVE  CopyInv' /\ KeepsSource
  <1> DEFINE x == Fresh
             f == Head(copying)
             g == [f EXCEPT !.at = "text", !.new = x]
  <1>1. /\ copying # <<>> /\ f.at = "new" /\ MemoryLeft /\ copying' = <<g>> \o Tail(copying)
        /\ live' = live \cup {x} /\ UNCHANGED <<next, prev, child>>
        /\ stringIsConst' = FlagCopied(x, f.item)
        /\ isObject' = IF f.item \in isObject THEN isObject \cup {x} ELSE isObject
        /\ UNCHANGED <<string, isReference, roots, crashed, valuestring, building, made>>
    BY DEF NewItem, At, Locals, Goto, Blank
  <1>2. x \in Item \ live
    BY <1>1, FreshFree
  <1>3. /\ Frames(copying, New, next, child)
        /\ IsForest(next, child, prev, New, News(copying))
    BY <1>1 DEF CopyInv, MakingInv
  <1>4. New' = New \cup {x} /\ x \notin New /\ New \in SUBSET Item
    BY <1>1, <1>2 DEF New, CopyInv, TypesInv, TypeOK
  <1>5. next[x] = NULL /\ prev[x] = NULL /\ child[x] = NULL
    BY <1>2 DEF CopyInv, NewInv, BlankInv
  <1>6. /\ f = copying[1] /\ f \in DupFrame /\ f.new = NULL /\ f.last = NULL
        /\ News(copying) = Rest(copying, 2) /\ News(copying) \subseteq New
        /\ copying \in Seq(DupFrame)
    <2>1. /\ Head(copying) = copying[1] /\ copying[1] \in DupFrame /\ copying \in Seq(DupFrame)
          /\ Good(copying[1], FALSE, New, next, child) /\ News(copying) \subseteq New
          /\ News(copying) = ({copying[1].new} \ {NULL}) \cup Rest(copying, 2)
      BY <1>1, <1>3, NewsApart
    <2>2. copying[1].new = NULL /\ copying[1].last = NULL
      BY <1>1, <2>1 DEF Good
    <2>3. QED BY <2>1, <2>2
  <1> HIDE DEF x, f
  <1>7. g \in DupFrame /\ g.new = x /\ g.at = "text" /\ g.last = NULL
    BY <1>2, <1>6 DEF DupFrame
  <1> HIDE DEF g
  <1>8. /\ IsForest(next, child, prev, New', News(copying) \cup {x})
        /\ EndsWith(next, child, New', x, NULL)
        /\ Keeps(New, New, next, child, New', next, child)
    BY <1>2, <1>3, <1>4, <1>5, ForestGrown
  <1>9. Waiting(copying, 2, New', next, child)
    <2>1. Waiting(copying, 2, New, next, child)
      BY <1>3 DEF Frames
    <2>2. \A i \in 2 .. Len(copying) : copying[i].new \in News(copying)
      BY <1>6 DEF Rest
    <2>3. News(copying) \in SUBSET New'
      BY <1>4, <1>6
    <2>4. Keeps(News(copying), New, next, child, New', next, child)
      BY <1>6, <1>8 DEF Keeps
    <2>5. QED BY <1>6, <2>1, <2>2, <2>3, <2>4, StillWaiting
  <1>10. Good(g, FALSE, New', next, child)
    BY <1>2, <1>4, <1>7, <1>8, NullIsNoItem DEF Good
  <1>11. /\ Frames(copying', New', next, child) /\ copying' # <<>>
         /\ News(copying') = News(copying) \cup {x}
    <2>1. g.new \in {NULL, copying[1].new} \/ g.new \notin News(copying)
      BY <1>4, <1>6, <1>7
    <2>2. /\ Frames(copying', New', next, child) /\ copying' # <<>>
          /\ News(copying') = ({g.new} \ {NULL}) \cup Rest(copying, 2)
      BY <1>1, <1>3, <1>7, <1>9, <1>10, <2>1, FramesReplaced
    <2>3. QED BY <1>2, <1>6, <1>7, <2>2, NullIsNoItem
  <1>12. CallInv' /\ SortInv' /\ ReturnInv'
    BY <1>1, <1>11, StillMaking DEF CopyInv, CallInv
  <1>13. MakingInv'
    <2>1. building' = NULL
      BY <1>1 DEF CopyInv, CallInv
    <2>2. QED BY <1>1, <1>8, <1>11, <2>1 DEF MakingInv
  <1>14. TypesInv'
    BY <1>1, <1>2 DEF CopyInv, TypesInv, TypeOK, FlagCopied
  <1>15. BlankInv' /\ NoReference'
    BY <1>1, <1>2, <1>4 DEF CopyInv, NewInv, BlankInv, NoReference, TypesInv, TypeOK
  <1>16. NewInv'
    BY <1>1, <1>8, <1>15, NewLinksThen
  <1>17. KeepsSource
    BY <1>1, <1>2 DEF KeepsSource, CopyInv, TypesInv, FlagCopied
  <1>18. QED BY <1>12, <1>13, <1>14, <1>16, <1>17 DEF CopyInv

(* What the innermost activation has, and the others.                       *)
LEMMA Innermost ==
    ASSUME CopyInv, copying # <<>>
    PROVE  /\ Len(copying) \in Nat \ {0} /\ copying \in Seq(DupFrame)
           /\ Head(copying) = copying[1] /\ copying[1] \in DupFrame
           /\ copying[1].item \in Item /\ copying[1].new \in Item \cup {NULL}
           /\ copying[1].child \in Item \cup {NULL}
           /\ Good(copying[1], FALSE, New, next, child)
           /\ Waiting(copying, 2, New, next, child)
           /\ News(copying) = ({copying[1].new} \ {NULL}) \cup Rest(copying, 2)
           /\ News(copying) \subseteq New /\ New \in SUBSET Item
           /\ building = NULL /\ sorting = <<>> /\ roots \subseteq before.items
           /\ Frames(copying, New, next, child)
           /\ IsForest(next, child, prev, New, News(copying))
           /\ Inside(next, child, prev, New)
  <1>1. /\ Frames(copying, New, next, child)
        /\ IsForest(next, child, prev, New, News(copying))
    BY DEF CopyInv, MakingInv
  <1>2. /\ Len(copying) \in Nat \ {0} /\ copying \in Seq(DupFrame)
        /\ Head(copying) = copying[1] /\ copying[1] \in DupFrame
        /\ Good(copying[1], FALSE, New, next, child)
        /\ News(copying) = ({copying[1].new} \ {NULL}) \cup Rest(copying, 2)
        /\ News(copying) \subseteq New
    BY <1>1, NewsApart
  <1>3. Waiting(copying, 2, New, next, child)
    BY <1>1 DEF Frames
  <1>4. building = NULL /\ sorting = <<>> /\ roots \subseteq before.items
    BY DEF CopyInv, CallInv
  <1>5. New \in SUBSET Item
    BY DEF CopyInv, TypesInv, TypeOK, New
  <1>6. copying[1].item \in Item /\ copying[1].new \in Item \cup {NULL}
        /\ copying[1].child \in Item \cup {NULL}
    BY <1>2 DEF DupFrame
  <1>7. Inside(next, child, prev, New)
    BY <1>1 DEF IsForest
  <1>8. QED BY <1>1, <1>2, <1>3, <1>4, <1>5, <1>6, <1>7

(* It goes on, and no links change.                                         *)
LEMMA GoesOn ==
    ASSUME CopyInv, copying # <<>>, NEW g \in DupFrame, copying' = <<g>> \o Tail(copying),
           g.new = copying[1].new, Good(g, FALSE, New, next, child),
           UNCHANGED <<live, next, prev, child, isReference, roots, building, sorting, sorted,
                       call, before>>
    PROVE  NewInv' /\ CallInv' /\ MakingInv' /\ SortInv' /\ ReturnInv'
  <1>1. New' = New
    BY DEF New
  <1>2. /\ Frames(copying', New, next, child) /\ copying' # <<>>
        /\ News(copying') = ({g.new} \ {NULL}) \cup Rest(copying, 2)
    BY Innermost, FramesReplaced
  <1>3. News(copying') = News(copying)
    BY <1>2, Innermost
  <1>4. MakingInv'
    BY <1>1, <1>2, <1>3, Innermost DEF MakingInv
  <1>5. CallInv' /\ SortInv' /\ ReturnInv'
    BY <1>2, Innermost, StillMaking DEF CopyInv
  <1>6. NewInv'
    BY <1>1 DEF CopyInv, NewInv, BlankInv, NoReference
  <1>7. QED BY <1>4, <1>5, <1>6

LEMMA CopyTextStep ==
    ASSUME CopyInv, CopyText, UNCHANGED <<sorting, sorted, call, before>>
    PROVE  CopyInv' /\ KeepsSource
  <1> DEFINE f == copying[1]
             g == [f EXCEPT !.at = "name"]
  <1>1. copying # <<>> /\ Head(copying).at = "text"
    BY DEF CopyText, At
  <1>2. Head(copying) = f /\ f \in DupFrame /\ Good(f, FALSE, New, next, child)
    BY <1>1, Innermost
  <1>3. /\ valuestring' = [valuestring EXCEPT ![f.new] = valuestring[f.item]]
        /\ copying' = <<g>> \o Tail(copying) /\ UNCHANGED <<vars, building>>
    BY <1>2 DEF CopyText, Locals, Goto
  <1>4. g \in DupFrame /\ g.new = f.new /\ g.at = "name" /\ g.last = f.last
    BY <1>2 DEF DupFrame
  <1>5. f.new \in New /\ f.item \in Item
    BY <1>1, <1>2, Innermost DEF Good
  <1> HIDE DEF f, g
  <1>6. Good(g, FALSE, New, next, child)
    BY <1>1, <1>2, <1>4 DEF Good
  <1>7. NewInv' /\ CallInv' /\ MakingInv' /\ SortInv' /\ ReturnInv'
    <2>1. g.new = copying[1].new
      BY <1>4 DEF f
    <2>2. QED BY <1>1, <1>3, <1>4, <1>6, <2>1, GoesOn DEF vars
  <1>8. TypesInv'
    BY <1>3, <1>5 DEF CopyInv, TypesInv, TypeOK, vars, New
  <1>9. KeepsSource
    BY <1>3, <1>5 DEF KeepsSource, CopyInv, TypesInv, TypeOK, vars, New
  <1>10. QED BY <1>7, <1>8, <1>9 DEF CopyInv

LEMMA CopyNameStep ==
    ASSUME CopyInv, CopyName, UNCHANGED <<sorting, sorted, call, before>>
    PROVE  CopyInv' /\ KeepsSource
  <1> DEFINE f == copying[1]
             g == [f EXCEPT !.at = IF f.recurse THEN "kids" ELSE "return",
                            !.child = child[f.item]]
             name == IF string[f.item] = NULL \/ SharesName(f.item)
                     THEN string[f.item] ELSE Copy(string[f.item].key)
  <1>1. copying # <<>> /\ Head(copying).at = "name"
    BY DEF CopyName, At
  <1>2. Head(copying) = f /\ f \in DupFrame /\ Good(f, FALSE, New, next, child)
    BY <1>1, Innermost
  <1>3. /\ string' = [string EXCEPT ![f.new] = name]
        /\ copying' = <<g>> \o Tail(copying)
        /\ UNCHANGED <<live, links, stringIsConst, isReference, isObject, roots, crashed,
                       values, building>>
    BY <1>2 DEF CopyName, Locals, Goto
  <1>4. f.new \in New /\ f.item \in Item /\ child[f.item] \in Item \cup {NULL}
    BY <1>1, <1>2, Innermost DEF Good, CopyInv, TypesInv, TypeOK
  <1>5. name \in Name \cup {NULL}
    BY <1>4 DEF CopyInv, TypesInv, TypeOK, Copy, Name
  <1>6. g \in DupFrame /\ g.new = f.new /\ g.at \in {"kids", "return"} /\ g.last = f.last
    BY <1>2, <1>4 DEF DupFrame
  <1> HIDE DEF f, g, name
  <1>7. Good(g, FALSE, New, next, child)
    BY <1>1, <1>2, <1>6 DEF Good
  <1>8. NewInv' /\ CallInv' /\ MakingInv' /\ SortInv' /\ ReturnInv'
    <2>1. g.new = copying[1].new
      BY <1>6 DEF f
    <2>2. QED BY <1>1, <1>3, <1>6, <1>7, <2>1, GoesOn DEF links
  <1>9. TypesInv'
    BY <1>3, <1>4, <1>5 DEF CopyInv, TypesInv, TypeOK, links, values, New
  <1>10. KeepsSource
    BY <1>3, <1>4 DEF KeepsSource, CopyInv, TypesInv, TypeOK, links, values, New
  <1>11. QED BY <1>8, <1>9, <1>10 DEF CopyInv

(* Some activation goes on, whatever became of the links.                   *)
LEMMA StillCopying ==
    ASSUME CopyInv, copying # <<>>, copying' # <<>>,
           UNCHANGED <<building, roots, sorting, sorted, call, before>>,
           TypesInv', BlankInv', NoReference', Frames(copying', New', next', child'),
           IsForest(next', child', prev', New', News(copying'))
    PROVE  CopyInv'
  <1>1. CallInv' /\ SortInv' /\ ReturnInv'
    BY StillMaking DEF CopyInv
  <1>2. building' = NULL
    BY Innermost
  <1>3. MakingInv'
    BY <1>2 DEF MakingInv
  <1>4. NewInv'
    BY NewLinksThen
  <1>5. QED BY <1>1, <1>3, <1>4 DEF CopyInv

(* What some activation has is freed, and the others wait as before.        *)
LEMMA CleanedUp ==
    ASSUME CopyInv, copying # <<>>, NEW t \in News(copying), Discard(t),
           UNCHANGED <<roots, crashed, before>>, NEW from \in 2 .. 3,
           \A i \in from .. Len(copying) : copying[i].new # t
    PROVE  /\ TypesInv' /\ BlankInv' /\ NoReference' /\ KeepsSource
           /\ IsForest(next', child', prev', New', News(copying) \ {t})
           /\ Waiting(copying, from, New', next', child')
  <1>1. TypesInv /\ BlankInv /\ NoReference
    BY DEF CopyInv, NewInv
  <1>2. /\ roots \subseteq before.items /\ copying \in Seq(DupFrame)
        /\ Len(copying) \in Nat
        /\ IsForest(next, child, prev, New, News(copying))
        /\ Waiting(copying, 2, New, next, child)
        /\ News(copying) = ({copying[1].new} \ {NULL}) \cup Rest(copying, 2)
    BY Innermost
  <1>3. /\ TypesInv' /\ BlankInv' /\ NoReference' /\ KeepsSource
        /\ IsForest(next', child', prev', New', News(copying) \ {t})
        /\ Keeps(News(copying) \ {t}, New, next, child, New', next', child')
    BY <1>1, <1>2, Discarded
  <1>a. \A i \in from .. Len(copying) : i \in 2 .. Len(copying)
    BY <1>2
  <1>4. Waiting(copying, from, New, next, child)
    BY <1>2, <1>a DEF Waiting
  <1>5. News(copying) \ {t} \in SUBSET New'
    BY <1>3 DEF IsForest
  <1>6. \A i \in from .. Len(copying) : copying[i].new \in News(copying) \ {t}
    BY <1>2, <1>a DEF Rest
  <1>7. from \in Nat \ {0}
    OBVIOUS
  <1>8. Waiting(copying, from, New', next', child')
    BY <1>2, <1>3, <1>4, <1>5, <1>6, <1>7, StillWaiting
  <1>9. QED BY <1>3, <1>8

LEMMA AllocationFailsStep ==
    ASSUME CopyInv, AllocationFails, UNCHANGED <<sorting, sorted, call, before>>
    PROVE  CopyInv' /\ KeepsSource
  <1> DEFINE f == copying[1]
             g == [f EXCEPT !.at = "return", !.new = NULL]
  <1>1. copying # <<>> /\ Head(copying).at \in {"new", "text", "name"}
    BY DEF AllocationFails, At
  <1>2. /\ Head(copying) = f /\ f \in DupFrame /\ Good(f, FALSE, New, next, child)
        /\ Frames(copying, New, next, child) /\ Len(copying) \in Nat \ {0}
        /\ News(copying) = ({f.new} \ {NULL}) \cup Rest(copying, 2)
    BY <1>1, Innermost
  <1>3. /\ copying' = <<g>> \o Tail(copying) /\ UNCHANGED <<roots, crashed, building>>
        /\ \/ f.at = "new" /\ UNCHANGED <<live, links, string, isReference, isObject,
                                          stringIsConst, values>>
           \/ f.at \in {"text", "name"} /\ Discard(f.new)
    BY <1>2 DEF AllocationFails, Locals, Goto, At
  <1>4. g \in DupFrame /\ g.new = NULL /\ g.at = "return"
    BY <1>2 DEF DupFrame
  <1> HIDE DEF f, g
  <1>5. \A N, n, c : Good(g, FALSE, N, n, c)
    BY <1>4 DEF Good
  <1>6. CASE f.at = "new" /\ UNCHANGED <<live, links, string, isReference, isObject,
                                         stringIsConst, values>>
    <2>1. g.new = copying[1].new
      <3>1. f.new = NULL
        BY <1>2, <1>6 DEF Good
      <3>2. QED BY <1>4, <3>1 DEF f
    <2>2. NewInv' /\ CallInv' /\ MakingInv' /\ SortInv' /\ ReturnInv'
      BY <1>1, <1>3, <1>4, <1>5, <1>6, <2>1, GoesOn DEF links
    <2>3. TypesInv'
      BY <1>3, <1>6 DEF CopyInv, TypesInv, TypeOK, links, values
    <2>4. KeepsSource
      BY <1>6 DEF KeepsSource, CopyInv, TypesInv, links, values
    <2>5. QED BY <2>2, <2>3, <2>4 DEF CopyInv
  <1>7. CASE f.at \in {"text", "name"} /\ Discard(f.new)
    <2>1. f.new # NULL /\ f.new \in News(copying)
      BY <1>2, <1>7 DEF Good
    <2>2. \A i \in 2 .. Len(copying) : copying[i].new # f.new
      BY <1>1, <1>2, NewsApart DEF f
    <2>3. /\ TypesInv' /\ BlankInv' /\ NoReference' /\ KeepsSource
          /\ IsForest(next', child', prev', New', News(copying) \ {f.new})
          /\ Waiting(copying, 2, New', next', child')
      <3>1. 2 \in 2 .. 3 /\ before' = before
        OBVIOUS
      <3>2. QED BY <1>1, <1>3, <1>7, <2>1, <2>2, <3>1, CleanedUp
    <2>4. News(copying) \ {f.new} = Rest(copying, 2)
      BY <1>2, <2>2 DEF Rest
    <2>5. /\ Frames(copying', New', next', child') /\ copying' # <<>>
          /\ News(copying') = Rest(copying, 2)
      <3>1. /\ Frames(copying', New', next', child') /\ copying' # <<>>
            /\ News(copying') = ({g.new} \ {NULL}) \cup Rest(copying, 2)
        BY <1>1, <1>2, <1>3, <1>4, <1>5, <2>3, FramesReplaced
      <3>2. QED BY <1>4, <3>1
    <2>6. CopyInv'
      BY <1>1, <1>3, <2>3, <2>4, <2>5, StillCopying
    <2>7. QED BY <2>3, <2>6
  <1>8. QED BY <1>3, <1>6, <1>7

LEMMA NextKidStep ==
    ASSUME CopyInv, NextKid, UNCHANGED <<sorting, sorted, call, before>>
    PROVE  CopyInv' /\ KeepsSource
  <1> DEFINE f == copying[1]
             g == [f EXCEPT !.at = "return"]
             k == Call(f.child, TRUE)
  <1>1. copying # <<>> /\ Head(copying).at = "kids"
    BY DEF NextKid, At
  <1>2. /\ Head(copying) = f /\ f \in DupFrame /\ Good(f, FALSE, New, next, child)
        /\ Frames(copying, New, next, child) /\ f.child \in Item \cup {NULL}
        /\ IsForest(next, child, prev, New, News(copying))
    BY <1>1, Innermost
  <1>3. /\ copying' = IF f.child = NULL THEN <<g>> \o Tail(copying) ELSE <<k>> \o copying
        /\ UNCHANGED <<vars, values, building>>
    BY <1>2 DEF NextKid, Locals
  <1>4. UNCHANGED <<live, next, prev, child, string, isReference, stringIsConst, isObject,
                    roots, crashed, valuestring, building>>
    BY <1>3 DEF vars, values
  <1>5. TypesInv' /\ KeepsSource
    BY <1>4 DEF CopyInv, TypesInv, TypeOK, KeepsSource
  <1>6. CASE f.child = NULL
    <2>1. g \in DupFrame /\ g.new = f.new /\ g.at = "return"
      BY <1>2 DEF DupFrame
    <2>2. copying' = <<g>> \o Tail(copying)
      BY <1>3, <1>6
    <2>3. g.new = copying[1].new
      BY <2>1 DEF f
    <2> HIDE DEF f, g
    <2>4. Good(g, FALSE, New, next, child)
      BY <1>2, <2>1 DEF Good
    <2>5. NewInv' /\ CallInv' /\ MakingInv' /\ SortInv' /\ ReturnInv'
      BY <1>1, <1>4, <2>1, <2>2, <2>3, <2>4, GoesOn
    <2>6. QED BY <1>5, <2>5 DEF CopyInv
  <1>7. CASE f.child # NULL
    <2>1. k \in DupFrame /\ k.new = NULL /\ k.last = NULL /\ k.at = "new"
      BY <1>2, <1>7 DEF DupFrame, Call
    <2>2. copying' = <<k>> \o copying
      BY <1>3, <1>7
    <2>3. Good(copying[1], TRUE, New, next, child)
      BY <1>1, <1>2, <1>7 DEF Good
    <2> HIDE DEF f, k
    <2>4. Good(k, FALSE, New, next, child)
      BY <2>1 DEF Good
    <2>5. /\ Frames(copying', New, next, child) /\ copying' # <<>>
          /\ News(copying') = News(copying)
      BY <1>1, <1>2, <2>1, <2>2, <2>3, <2>4, FramesPushed
    <2>6. New' = New
      BY <1>4 DEF New
    <2>7. BlankInv' /\ NoReference'
      BY <1>4, <2>6 DEF CopyInv, NewInv, BlankInv, NoReference
    <2>8. CopyInv'
      BY <1>1, <1>2, <1>4, <1>5, <2>5, <2>6, <2>7, StillCopying
    <2>9. QED BY <1>5, <2>8
  <1>8. QED BY <1>6, <1>7
(* The activation that the innermost one was called by.                     *)
LEMMA Caller ==
    ASSUME CopyInv, Len(copying) > 1
    PROVE  /\ copying # <<>> /\ copying[2] \in DupFrame
           /\ copying[2].new \in Item /\ copying[2].last \in Item \cup {NULL}
           /\ copying[2].child \in Item
           /\ Good(copying[2], TRUE, New, next, child)
           /\ Waiting(copying, 3, New, next, child)
           /\ copying[2].new \in News(copying) /\ copying[2].new # copying[1].new
           /\ News(copying) = ({copying[1].new} \ {NULL}) \cup {copying[2].new} \cup Rest(copying, 3)
           /\ \A i \in 3 .. Len(copying) :
                 copying[i].new # copying[1].new /\ copying[i].new # copying[2].new
                 /\ copying[i].new \in News(copying)
  <1>1. copying # <<>> /\ Frames(copying, New, next, child)
    BY DEF CopyInv, MakingInv
  <1>2. /\ Len(copying) \in Nat
        /\ News(copying) = ({copying[1].new} \ {NULL}) \cup Rest(copying, 2)
        /\ \A i \in 2 .. Len(copying) :
              copying[i] \in DupFrame /\ Good(copying[i], TRUE, New, next, child)
              /\ copying[i].new # NULL /\ copying[i].new # copying[1].new
        /\ \A i \in 3 .. Len(copying) : copying[i].new # copying[2].new
    BY <1>1, NewsApart
  <1>3. 2 .. Len(copying) = {2} \cup 3 .. Len(copying)
    BY <1>2
  <1>4. Rest(copying, 2) = {copying[2].new} \cup Rest(copying, 3)
    BY <1>3 DEF Rest
  <1>5. Waiting(copying, 3, New, next, child)
    BY <1>2, <1>3 DEF Waiting
  <1>6. /\ copying[2] \in DupFrame /\ Good(copying[2], TRUE, New, next, child)
        /\ copying[2].new # NULL /\ copying[2].new # copying[1].new
    BY <1>2, <1>3
  <1>7. copying[2].new \in Item /\ copying[2].last \in Item \cup {NULL} /\ copying[2].child \in Item
    BY <1>6 DEF DupFrame, Good
  <1>8. \A i \in 3 .. Len(copying) :
           copying[i].new # copying[1].new /\ copying[i].new # copying[2].new
           /\ copying[i].new \in News(copying)
    BY <1>2, <1>3 DEF Rest
  <1>9. QED BY <1>1, <1>2, <1>4, <1>5, <1>6, <1>7, <1>8

(* A top x is linked behind the last kid of another, u.                     *)
Appends(u, x, last) ==
    IF last = NULL
    THEN /\ child' = [child EXCEPT ![u] = x]
         /\ UNCHANGED <<next, prev>>
    ELSE /\ next' = [next EXCEPT ![last] = x]
         /\ prev' = [prev EXCEPT ![x] = last]
         /\ UNCHANGED child

LEMMA LinkedIn ==
    ASSUME TypeOK, NEW N \in SUBSET Item, NEW Q, IsForest(next, child, prev, N, Q),
           NEW u \in Q, NEW x \in Q \ {u}, NEW last \in Item \cup {NULL},
           EndsWith(next, child, N, u, last), Appends(u, x, last)
    PROVE  /\ IsForest(next', child', prev', N, Q \ {x})
           /\ EndsWith(next', child', N, u, x)
           /\ Keeps(Q \ {u, x}, N, next, child, N, next', child')
           /\ next' \in Pointers /\ child' \in Pointers /\ prev' \in Pointers
           /\ \A z \in Item \ N : next'[z] = next[z] /\ child'[z] = child[z] /\ prev'[z] = prev[z]
  <1>1. next \in Pointers /\ child \in Pointers /\ prev \in Pointers
    BY DEF TypeOK, Pointers
  <1>2. u \in N /\ x \in N /\ Inside(next, child, prev, N)
    BY DEF IsForest
  <1>3. CASE last = NULL
    <2>1. /\ child[u] = NULL /\ next' = next /\ prev' = prev
          /\ child' = [child EXCEPT ![u] = x]
      BY <1>3 DEF EndsWith, Appends
    <2>2. /\ IsForest(next', child', prev', N, Q \ {x})
          /\ EndsWith(next', child', N, u, x)
          /\ Keeps(Q \ {u, x}, N, next, child, N, next', child')
      BY <1>1, <2>1, ForestGiven
    <2>3. QED BY <1>1, <1>2, <2>1, <2>2 DEF Pointers
  <1>4. CASE last # NULL
    <2>1. /\ last \in Below(next, child, N, u) \ {u} /\ next[last] = NULL /\ child' = child
          /\ next' = [next EXCEPT ![last] = x] /\ prev' = [prev EXCEPT ![x] = last]
      BY <1>4 DEF EndsWith, Appends
    <2>2. /\ IsForest(next', child', prev', N, Q \ {x})
          /\ EndsWith(next', child', N, u, x)
          /\ Keeps(Q \ {u, x}, N, next, child, N, next', child')
      BY <1>1, <2>1, ForestJoined
    <2>3. last \in N
      BY <1>2, <2>1, BelowClosed
    <2>4. QED BY <1>1, <1>2, <2>1, <2>2, <2>3 DEF Pointers
  <1>5. QED BY <1>3, <1>4

LEMMA LinkKidStep ==
    ASSUME CopyInv, LinkKid, UNCHANGED <<sorting, sorted, call, before>>
    PROVE  CopyInv' /\ KeepsSource
  <1> DEFINE f == copying[2]
             x == copying[1].new
             g == [f EXCEPT !.last = x, !.child = next[f.child]]
  <1>1. Len(copying) > 1
    BY DEF LinkKid
  <1>2. /\ copying # <<>> /\ f \in DupFrame /\ f.new \in Item /\ f.last \in Item \cup {NULL}
        /\ f.child \in Item /\ Good(f, TRUE, New, next, child)
        /\ Waiting(copying, 3, New, next, child) /\ f.new \in News(copying) /\ f.new # x
        /\ News(copying) = ({x} \ {NULL}) \cup {f.new} \cup Rest(copying, 3)
        /\ \A i \in 3 .. Len(copying) :
              copying[i].new # x /\ copying[i].new # f.new /\ copying[i].new \in News(copying)
    BY <1>1, Caller
  <1>3. /\ Head(copying) = copying[1] /\ x \in Item \cup {NULL} /\ copying \in Seq(DupFrame)
        /\ Frames(copying, New, next, child) /\ New \in SUBSET Item
        /\ IsForest(next, child, prev, New, News(copying))
    BY <1>2, Innermost
  <1>4. /\ x # NULL
        /\ Appends(f.new, x, f.last)
        /\ copying' = <<g>> \o SubSeq(copying, 3, Len(copying))
        /\ UNCHANGED <<live, names, isReference, isObject, roots, crashed, values, building>>
    BY <1>3 DEF LinkKid, Locals, Appends
  <1>5. TypeOK
    BY DEF CopyInv, TypesInv
  <1>6. next[f.child] \in Item \cup {NULL}
    BY <1>2, <1>5 DEF TypeOK
  <1>a. f.at = "kids"
    BY <1>2 DEF Good
  <1>7. g \in DupFrame /\ g.new = f.new /\ g.at = "kids" /\ g.last = x
    <2> DEFINE k == next[f.child]
    <2>1. k \in Item \cup {NULL}
      BY <1>6
    <2> HIDE DEF k
    <2>2. [f EXCEPT !.last = x, !.child = k] \in DupFrame
      BY <1>2, <1>3, <2>1 DEF DupFrame
    <2>3. QED BY <1>2, <1>a, <2>2 DEF DupFrame, k
  <1>8. EndsWith(next, child, New, f.new, f.last) /\ f.new \in New /\ f.new # NULL
    BY <1>2, NullIsNoItem DEF Good
  <1>9. x \in News(copying) \ {f.new}
    BY <1>2, <1>4
  <1> HIDE DEF f, x, g
  <1>10. /\ IsForest(next', child', prev', New, News(copying) \ {x})
         /\ EndsWith(next', child', New, f.new, x)
         /\ Keeps(News(copying) \ {f.new, x}, New, next, child, New, next', child')
         /\ next' \in Pointers /\ child' \in Pointers /\ prev' \in Pointers
         /\ \A z \in Item \ New : next'[z] = next[z] /\ child'[z] = child[z] /\ prev'[z] = prev[z]
    BY <1>2, <1>3, <1>4, <1>5, <1>8, <1>9, LinkedIn
  <1>11. New' = New
    BY <1>4 DEF New
  <1>12. Waiting(copying, 3, New, next', child')
    <2>1. News(copying) \ {f.new, x} \in SUBSET New
      BY <1>3 DEF IsForest
    <2>2. \A i \in 3 .. Len(copying) : copying[i].new \in News(copying) \ {f.new, x}
      BY <1>2
    <2>3. 3 \in Nat \ {0}
      OBVIOUS
    <2>4. QED BY <1>2, <1>3, <1>10, <2>1, <2>2, <2>3, StillWaiting
  <1>13. Good(g, FALSE, New, next', child')
    BY <1>7, <1>8, <1>10 DEF Good
  <1>14. /\ Frames(copying', New, next', child') /\ copying' # <<>>
         /\ News(copying') = News(copying) \ {x}
    <2>1. g.new \in {NULL, copying[2].new}
      BY <1>7 DEF f
    <2>2. /\ Frames(copying', New, next', child') /\ copying' # <<>>
          /\ News(copying') = ({g.new} \ {NULL}) \cup Rest(copying, 3)
      BY <1>1, <1>3, <1>4, <1>7, <1>12, <1>13, <2>1, FramesPopped
    <2>3. \A i \in 3 .. Len(copying) : copying[i].new # x
      BY <1>2
    <2>4. x \notin Rest(copying, 3)
      BY <2>3 DEF Rest
    <2>5. QED BY <1>2, <1>7, <1>8, <1>9, <2>2, <2>4
  <1>15. TypesInv'
    BY <1>4, <1>10 DEF CopyInv, TypesInv, TypeOK, Pointers, names, values
  <1>16. BlankInv' /\ NoReference'
    <2>1. \A z \in Item \ live : z \in Item \ New
      BY DEF New
    <2>2. QED BY <1>4, <1>10, <1>11, <2>1 DEF CopyInv, NewInv, BlankInv, NoReference
  <1>17. KeepsSource
    <2>1. \A z \in before.items : z \in Item \ New /\ z \in live
      BY DEF CopyInv, TypesInv, TypeOK, New
    <2>2. QED BY <1>4, <1>10, <2>1 DEF KeepsSource, names, values
  <1>18. CopyInv'
    BY <1>2, <1>4, <1>10, <1>11, <1>14, <1>15, <1>16, StillCopying
  <1>19. QED BY <1>17, <1>18

LEMMA KidFailsStep ==
    ASSUME CopyInv, KidFails, UNCHANGED <<sorting, sorted, call, before>>
    PROVE  CopyInv' /\ KeepsSource
  <1> DEFINE f == copying[2]
             g == [f EXCEPT !.at = "return", !.new = NULL]
  <1>1. Len(copying) > 1
    BY DEF KidFails
  <1>2. /\ copying # <<>> /\ f \in DupFrame /\ f.new \in Item /\ f.new \in News(copying)
        /\ News(copying) = ({copying[1].new} \ {NULL}) \cup {f.new} \cup Rest(copying, 3)
        /\ \A i \in 3 .. Len(copying) : copying[i].new # f.new
    BY <1>1, Caller
  <1>3. /\ Head(copying) = copying[1] /\ Frames(copying, New, next, child)
    BY <1>2, Innermost
  <1>4. /\ copying[1].new = NULL /\ Discard(f.new)
        /\ copying' = <<g>> \o SubSeq(copying, 3, Len(copying))
        /\ UNCHANGED <<roots, crashed, building>>
    BY <1>3 DEF KidFails, Locals
  <1>5. g \in DupFrame /\ g.new = NULL /\ g.at = "return"
    BY <1>2 DEF DupFrame
  <1> HIDE DEF f, g
  <1>6. \A N, n, c : Good(g, FALSE, N, n, c)
    BY <1>5 DEF Good
  <1>7. /\ TypesInv' /\ BlankInv' /\ NoReference' /\ KeepsSource
        /\ IsForest(next', child', prev', New', News(copying) \ {f.new})
        /\ Waiting(copying, 3, New', next', child')
    <2>1. 3 \in 2 .. 3 /\ before' = before
      OBVIOUS
    <2>2. QED BY <1>2, <1>4, <2>1, CleanedUp
  <1>8. News(copying) \ {f.new} = Rest(copying, 3)
    BY <1>2, <1>4 DEF Rest
  <1>9. /\ Frames(copying', New', next', child') /\ copying' # <<>>
        /\ News(copying') = Rest(copying, 3)
    <2>1. /\ Frames(copying', New', next', child') /\ copying' # <<>>
          /\ News(copying') = ({g.new} \ {NULL}) \cup Rest(copying, 3)
      BY <1>1, <1>3, <1>4, <1>5, <1>6, <1>7, FramesPopped
    <2>2. QED BY <1>5, <2>1
  <1>10. CopyInv'
    BY <1>2, <1>4, <1>7, <1>8, <1>9, StillCopying
  <1>11. QED BY <1>7, <1>10
(* The call returns: what it made is a tree, or there is nothing.           *)
LEMMA Returned ==
    ASSUME CopyInv, building # NULL \/ copying # <<>>, building' = NULL, copying' = <<>>,
           UNCHANGED <<sorting, sorted, call, before>>,
           TypesInv', BlankInv', NoReference',
           \/ made' = NULL /\ New' = {}
           \/ /\ made' \in New /\ New' = New /\ IsForest(next, child, prev, New, {made'})
              /\ UNCHANGED <<next, child, prev, isReference>>
    PROVE  CopyInv'
  <1>1. call.name \in {"array", "copy"} /\ sorting' = <<>> /\ call' = call
    BY DEF CopyInv, CallInv
  <1>2. CallInv' /\ SortInv'
    BY <1>1, NoSort DEF CallInv, SortInv
  <1>3. MakingInv'
    BY DEF MakingInv, Frames, Waiting
  <1>4. before.items \subseteq live'
    BY DEF TypesInv
  <1>5. CASE made' = NULL /\ New' = {}
    <2>1. NewInv'
      BY <1>5 DEF NewInv
    <2>2. live' = before'.items
      BY <1>4, <1>5 DEF New
    <2>3. ReturnInv'
      BY <1>5, <2>2 DEF ReturnInv, FailureKeepsNothing, MadeWhole
    <2>4. QED BY <1>2, <1>3, <2>1, <2>3 DEF CopyInv
  <1>6. CASE /\ made' \in New /\ New' = New /\ IsForest(next, child, prev, New, {made'})
             /\ UNCHANGED <<next, child, prev, isReference>>
    <2>1. NewInv'
      BY <1>6, NewLinksThen
    <2>2. New \in SUBSET Item /\ TypesInv /\ NoReference
      BY DEF CopyInv, TypesInv, TypeOK, New, NewInv
    <2>3. Inside(next, child, prev, New)
      BY <1>6 DEF IsForest
    <2>4. Reach(made') = New
      BY <1>6, <2>2, <2>3, ReachNew, ForestOne
    <2>5. Reach(made)' = Reach(made')
      BY <1>6 DEF Reach, OwnClosed, NextClosed
    <2>6. made' \notin before'.items /\ Reach(made)' = live' \ before'.items /\ made' # NULL
      BY <1>6, <2>2, <2>4, <2>5, NullIsNoItem DEF New
    <2>7. (prev[made])' = NULL
      <3>1. prev[made'] \in New \cup {NULL} /\ (prev[made'] # NULL => next[prev[made']] = made')
        BY <1>6, <2>3 DEF Inside
      <3>2. \A z \in New : next[z] # made'
        BY <1>6 DEF IsForest, Loose
      <3>3. QED BY <1>6, <3>1, <3>2
    <2>8. ReturnInv'
      BY <2>6, <2>7 DEF ReturnInv, FailureKeepsNothing, MadeWhole
    <2>9. QED BY <1>2, <1>3, <2>1, <2>8 DEF CopyInv
  <1>7. QED BY <1>5, <1>6

LEMMA DuplicateDoneStep ==
    ASSUME CopyInv, DuplicateDone, UNCHANGED <<sorting, sorted, call, before>>
    PROVE  CopyInv' /\ KeepsSource
  <1>1. copying # <<>> /\ Len(copying) = 1
    BY DEF DuplicateDone, At
  <1>2. /\ Head(copying) = copying[1] /\ News(copying) = ({copying[1].new} \ {NULL}) \cup Rest(copying, 2)
        /\ News(copying) \subseteq New /\ New \in SUBSET Item /\ building = NULL
        /\ IsForest(next, child, prev, New, News(copying))
        /\ copying[1].new \in Item \cup {NULL}
    BY <1>1, Innermost
  <1>3. /\ copying' = <<>> /\ made' = copying[1].new
        /\ roots' = IF copying[1].new = NULL THEN roots ELSE roots \cup {copying[1].new}
        /\ UNCHANGED <<live, links, names, isReference, isObject, crashed, values, building>>
    BY <1>2 DEF DuplicateDone, Locals
  <1>4. News(copying) = {made'} \ {NULL}
    <2>1. 2 .. Len(copying) = {}
      BY <1>1
    <2>2. Rest(copying, 2) = {}
      BY <2>1 DEF Rest
    <2>3. QED BY <1>2, <1>3, <2>2
  <1>5. New' = New /\ UNCHANGED <<next, child, prev, isReference>>
    BY <1>3 DEF New, links
  <1>6. TypesInv'
    <2>1. roots' \subseteq live
      BY <1>2, <1>3, <1>4 DEF CopyInv, TypesInv, TypeOK, New
    <2>2. QED BY <1>3, <2>1 DEF CopyInv, TypesInv, TypeOK, links, names, values
  <1>7. BlankInv' /\ NoReference'
    BY <1>3, <1>5 DEF CopyInv, NewInv, BlankInv, NoReference, links
  <1>8. KeepsSource
    BY <1>3 DEF KeepsSource, CopyInv, TypesInv, links, names, values
  <1>9. \/ made' = NULL /\ New' = {}
        \/ made' \in New /\ New' = New /\ IsForest(next, child, prev, New, {made'})
    <2>1. CASE made' = NULL
      <3>1. IsForest(next, child, prev, New, {})
        <4>1. News(copying) = {}
          BY <1>4, <2>1
        <4>2. QED BY <1>2, <4>1
      <3>2. New = {}
        BY <1>2, <3>1, ForestEmpty
      <3>3. QED BY <1>5, <2>1, <3>2
    <2>2. CASE made' # NULL
      <3>1. News(copying) = {made'}
        BY <1>4, <2>2
      <3>2. QED BY <1>2, <1>5, <3>1
    <2>3. QED BY <2>1, <2>2
  <1>10. CopyInv'
    BY <1>1, <1>2, <1>3, <1>5, <1>6, <1>7, <1>9, Returned
  <1>11. QED BY <1>8, <1>10

-----------------------------------------------------------------------------
(* The array constructors.                                                  *)

LEMMA Building ==
    ASSUME CopyInv, building # NULL
    PROVE  /\ building \in Builder
           /\ building.array \in New /\ building.last \in Item \cup {NULL}
           /\ IsForest(next, child, prev, New, {building.array})
           /\ EndsWith(next, child, New, building.array, building.last)
           /\ copying = <<>> /\ roots \subseteq before.items /\ sorting = <<>>
           /\ New \in SUBSET Item /\ TypesInv /\ TypeOK /\ BlankInv /\ NoReference
  <1>1. /\ IsForest(next, child, prev, New, {building.array})
        /\ building \in Builder
        /\ EndsWith(next, child, New, building.array, building.last)
    BY DEF CopyInv, MakingInv
  <1>2. building.array \in New
    BY <1>1 DEF IsForest
  <1>3. copying = <<>> /\ roots \subseteq before.items /\ sorting = <<>>
    BY DEF CopyInv, CallInv
  <1>4. New \in SUBSET Item /\ TypesInv /\ TypeOK /\ BlankInv /\ NoReference
    BY DEF CopyInv, TypesInv, TypeOK, NewInv, New
  <1>5. building.last \in Item \cup {NULL}
    BY <1>1 DEF Builder
  <1>6. QED BY <1>1, <1>2, <1>3, <1>4, <1>5

LEMMA AddElementStep ==
    ASSUME CopyInv, AddElement, UNCHANGED <<sorting, sorted, call, before>>
    PROVE  CopyInv' /\ KeepsSource
  <1> DEFINE x == Fresh
             a == building.array
             l == building.last
  <1>1. /\ building # NULL /\ MemoryLeft /\ live' = live \cup {x} /\ Appends(a, x, l)
        /\ building' = [building EXCEPT !.last = x, !.left = @ - 1, !.done = @ + 1]
        /\ UNCHANGED <<names, isReference, isObject, roots, crashed, valuestring, copying>>
    BY DEF AddElement, Appends, LastElement
  <1>2. /\ a \in New /\ l \in Item \cup {NULL} /\ IsForest(next, child, prev, New, {a})
        /\ EndsWith(next, child, New, a, l)
        /\ copying = <<>> /\ roots \subseteq before.items /\ sorting = <<>>
        /\ New \in SUBSET Item /\ TypesInv /\ TypeOK /\ BlankInv /\ NoReference
    BY <1>1, Building
  <1>3. x \in Item \ live
    BY <1>1, FreshFree
  <1>4. building' \in Builder /\ building'.array = a /\ building'.last = x
    <2>1. building \in Builder /\ building.left > 0
      BY <1>1, Building DEF AddElement
    <2>2. building.left - 1 \in Nat /\ building.done + 1 \in Nat
      BY <2>1 DEF Builder
    <2>3. QED BY <1>1, <1>3, <2>1, <2>2 DEF Builder
  <1> HIDE DEF x, a, l
  <1>5. New' = New \cup {x} /\ x \notin New /\ x \in Item /\ New' \in SUBSET Item
    BY <1>1, <1>2, <1>3 DEF New, TypesInv
  <1>6. next[x] = NULL /\ prev[x] = NULL /\ child[x] = NULL
    BY <1>2, <1>3 DEF BlankInv
  <1>7. /\ IsForest(next, child, prev, New', {a, x}) /\ EndsWith(next, child, New', a, l)
    <2>1. /\ IsForest(next, child, prev, New \cup {x}, {a} \cup {x})
          /\ Keeps(New, New, next, child, New \cup {x}, next, child)
      BY <1>2, <1>5, <1>6, ForestGrown
    <2>2. {a} \cup {x} = {a, x}
      OBVIOUS
    <2>3. QED BY <1>2, <1>5, <2>1, <2>2 DEF Keeps
  <1>8. /\ IsForest(next', child', prev', New', {a}) /\ EndsWith(next', child', New', a, x)
        /\ next' \in Pointers /\ child' \in Pointers /\ prev' \in Pointers
        /\ \A z \in Item \ New' : next'[z] = next[z] /\ child'[z] = child[z] /\ prev'[z] = prev[z]
    <2>1. a \in {a, x} /\ x \in {a, x} \ {a}
      BY <1>2, <1>5
    <2> DEFINE N == New'
               Q == {a, x}
    <2>2. IsForest(next, child, prev, N, Q) /\ EndsWith(next, child, N, a, l)
          /\ N \in SUBSET Item /\ a \in Q /\ x \in Q \ {a}
      BY <1>5, <1>7, <2>1
    <2>3. Q \ {x} = {a}
      BY <2>1
    <2> HIDE DEF N, Q
    <2>4. /\ IsForest(next', child', prev', N, Q \ {x}) /\ EndsWith(next', child', N, a, x)
          /\ next' \in Pointers /\ child' \in Pointers /\ prev' \in Pointers
          /\ \A z \in Item \ N : next'[z] = next[z] /\ child'[z] = child[z] /\ prev'[z] = prev[z]
      BY <1>1, <1>2, <2>2, LinkedIn
    <2>5. QED BY <2>3, <2>4 DEF N
  <1>9. TypesInv'
    BY <1>1, <1>2, <1>3, <1>8 DEF TypesInv, TypeOK, Pointers, names
  <1>10. BlankInv' /\ NoReference'
    <2>1. \A z \in Item \ live' : z \in Item \ New' /\ z \in Item \ live
      BY <1>1 DEF New
    <2>2. BlankInv'
      BY <1>2, <1>8, <2>1 DEF BlankInv
    <2>3. x \notin isReference
      BY <1>2, <1>3 DEF TypeOK
    <2>4. QED BY <1>1, <1>2, <1>5, <2>2, <2>3 DEF NoReference
  <1>11. NewInv'
    BY <1>8, <1>10, NewLinksThen
  <1>12. building' # NULL /\ call.name = "array"
    BY <1>1, <1>4, NullIsNoBuilder DEF CopyInv, CallInv
  <1>13. CallInv' /\ SortInv' /\ ReturnInv'
    BY <1>1, <1>2, <1>12, StillMaking DEF CopyInv
  <1>14. MakingInv'
    <2>1. copying' = <<>>
      BY <1>1, <1>2
    <2>2. Frames(copying', New', next', child')
      BY <2>1 DEF Frames, Waiting
    <2>3. /\ IsForest(next', child', prev', New', {building'.array})
          /\ EndsWith(next', child', New', building'.array, building'.last)
      BY <1>4, <1>8
    <2>4. QED BY <1>4, <2>1, <2>2, <2>3 DEF MakingInv
  <1>15. KeepsSource
    <2>1. \A z \in before.items : z \in Item \ New' /\ z \in live
      BY <1>2, <1>3, <1>5 DEF TypesInv, TypeOK, New
    <2>2. QED BY <1>1, <1>8, <2>1 DEF KeepsSource, names
  <1>16. QED BY <1>9, <1>11, <1>13, <1>14, <1>15 DEF CopyInv

LEMMA AddElementFailsStep ==
    ASSUME CopyInv, AddElementFails, UNCHANGED <<sorting, sorted, call, before>>
    PROVE  CopyInv' /\ KeepsSource
  <1> DEFINE a == building.array
  <1>1. /\ building # NULL /\ Discard(a) /\ made' = NULL /\ building' = NULL
        /\ UNCHANGED <<roots, crashed, copying>>
    BY DEF AddElementFails
  <1>2. /\ a \in New /\ IsForest(next, child, prev, New, {a})
        /\ copying = <<>> /\ roots \subseteq before.items
        /\ TypesInv /\ BlankInv /\ NoReference
    BY <1>1, Building
  <1> HIDE DEF a
  <1>3. /\ TypesInv' /\ BlankInv' /\ NoReference' /\ KeepsSource
        /\ IsForest(next', child', prev', New', {a} \ {a})
    BY <1>1, <1>2, Discarded
  <1>4. New' = {}
    <2>1. {a} \ {a} = {} /\ New' \in SUBSET Item
      BY <1>3 DEF TypesInv, TypeOK, New
    <2>2. IsForest(next', child', prev', New', {})
      BY <1>3, <2>1
    <2>3. QED BY <2>1, <2>2, ForestEmpty
  <1>5. CopyInv'
    BY <1>1, <1>2, <1>3, <1>4, Returned
  <1>6. QED BY <1>3, <1>5

LEMMA ArrayDoneStep ==
    ASSUME CopyInv, ArrayDone, UNCHANGED <<sorting, sorted, call, before>>
    PROVE  CopyInv' /\ KeepsSource
  <1> DEFINE a == building.array
  <1>1. /\ building # NULL /\ made' = a /\ building' = NULL /\ roots' = roots \cup {a}
        /\ UNCHANGED <<live, links, names, isReference, isObject, crashed, values, copying>>
    BY DEF ArrayDone
  <1>2. /\ a \in New /\ IsForest(next, child, prev, New, {a}) /\ copying = <<>>
        /\ TypesInv /\ BlankInv /\ NoReference
    BY <1>1, Building
  <1> HIDE DEF a
  <1>3. New' = New /\ UNCHANGED <<next, child, prev, isReference>>
    BY <1>1 DEF New, links
  <1>4. TypesInv' /\ BlankInv' /\ NoReference'
    BY <1>1, <1>2, <1>3 DEF TypesInv, TypeOK, BlankInv, NoReference, links, names, values, New
  <1>5. KeepsSource
    BY <1>1, <1>2 DEF KeepsSource, TypesInv, links, names, values
  <1>6. made' \in New /\ New' = New /\ IsForest(next, child, prev, New, {made'})
    BY <1>1, <1>2, <1>3
  <1>7. CopyInv'
    BY <1>1, <1>2, <1>3, <1>4, <1>6, Returned
  <1>8. QED BY <1>5, <1>7
LEMMA MakingStep ==
    ASSUME CopyInv, Making
    PROVE  CopyInv' /\ KeepsSource
  <1>1. MakeStep /\ UNCHANGED <<sorting, sorted, call, before>>
    BY DEF Making
  <1>2. CASE AddElement
    BY <1>1, <1>2, AddElementStep
  <1>3. CASE AddElementFails
    BY <1>1, <1>3, AddElementFailsStep
  <1>4. CASE ArrayDone
    BY <1>1, <1>4, ArrayDoneStep
  <1>5. CASE NewItem
    BY <1>1, <1>5, NewItemStep
  <1>6. CASE CopyText
    BY <1>1, <1>6, CopyTextStep
  <1>7. CASE CopyName
    BY <1>1, <1>7, CopyNameStep
  <1>8. CASE AllocationFails
    BY <1>1, <1>8, AllocationFailsStep
  <1>9. CASE NextKid
    BY <1>1, <1>9, NextKidStep
  <1>10. CASE LinkKid
    BY <1>1, <1>10, LinkKidStep
  <1>11. CASE KidFails
    BY <1>1, <1>11, KidFailsStep
  <1>12. CASE DuplicateDone
    BY <1>1, <1>12, DuplicateDoneStep
  <1>13. QED
    BY <1>1, <1>2, <1>3, <1>4, <1>5, <1>6, <1>7, <1>8, <1>9, <1>10, <1>11, <1>12 DEF MakeStep

-----------------------------------------------------------------------------
(* The calls begin.                                                         *)

LEMMA MakeArrayStep ==
    ASSUME CopyInv, NEW count \in Count, MakeArray(count)
    PROVE  CopyInv' /\ KeepsSource
  <1> DEFINE x == Fresh
             b == [array |-> x, last |-> NULL, left |-> count, done |-> 0]
  <1>1. /\ call.name = "none" /\ live = {} /\ MemoryLeft
        /\ building' = b /\ live' = live \cup {x}
        /\ call' = [name |-> "array", count |-> count]
        /\ UNCHANGED <<next, prev, child, string, stringIsConst, isReference, isObject, roots,
                       crashed, valuestring, copying, sorting, sorted, before>>
    BY DEF MakeArray, CreateArrayOf, links, names, values
  <1>2. /\ x \in Item /\ Idle /\ before.items = {} /\ call'.name = "array"
        /\ copying' = <<>> /\ sorting' = <<>> /\ roots' = {}
    BY <1>1, FreshFree DEF CopyInv, CallInv, Idle, TypesInv, TypeOK
  <1>3. b \in Builder /\ b.array = x /\ b.last = NULL
    BY <1>2, CountsAreLengths DEF Builder
  <1> HIDE DEF x, b
  <1>4. b # NULL
    BY <1>3, NullIsNoBuilder
  <1>5. New' = {x}
    BY <1>1, <1>2 DEF New
  <1>6. next[x] = NULL /\ prev[x] = NULL /\ child[x] = NULL
    BY <1>1, <1>2 DEF CopyInv, NewInv, BlankInv
  <1>7. IsForest(next, child, prev, {x}, {x}) /\ EndsWith(next, child, {x}, x, NULL)
    <2> DEFINE N == {}
    <2>1. IsForest(next, child, prev, N, N) /\ N \in SUBSET Item /\ x \in Item \ N
      BY <1>2, ForestEmpty
    <2>2. N \cup {x} = {x}
      OBVIOUS
    <2> HIDE DEF N
    <2>3. /\ IsForest(next, child, prev, N \cup {x}, N \cup {x})
          /\ EndsWith(next, child, N \cup {x}, x, NULL)
      BY <1>6, <2>1, ForestGrown
    <2>4. QED BY <2>2, <2>3
  <1>8. CallInv'
    BY <1>1, <1>2 DEF CallInv
  <1>9. MakingInv'
    <2>1. Frames(copying', New', next', child')
      BY <1>2 DEF Frames, Waiting
    <2>2. /\ IsForest(next', child', prev', New', {building'.array})
          /\ EndsWith(next', child', New', building'.array, building'.last)
      BY <1>1, <1>3, <1>5, <1>7
    <2>3. QED BY <1>1, <1>2, <1>3, <2>1, <2>2 DEF MakingInv
  <1>10. SortInv'
    BY <1>2, NoSort DEF SortInv
  <1>11. ReturnInv'
    BY <1>1, <1>4 DEF ReturnInv, FailureKeepsNothing, MadeWhole, Idle
  <1>12. TypesInv'
    BY <1>1, <1>2 DEF CopyInv, TypesInv, TypeOK
  <1>13. BlankInv' /\ NoReference'
    BY <1>1, <1>2, <1>5 DEF CopyInv, NewInv, BlankInv, NoReference, TypesInv, TypeOK
  <1>14. NewInv'
    BY <1>1, <1>5, <1>7, <1>13, NewLinksThen
  <1>15. KeepsSource
    BY <1>2 DEF KeepsSource
  <1>16. QED BY <1>8, <1>9, <1>10, <1>11, <1>12, <1>14, <1>15 DEF CopyInv

LEMMA CopyingStep ==
    ASSUME CopyInv, NEW item \in Item, NEW recurse \in BOOLEAN, Copying(item, recurse)
    PROVE  CopyInv' /\ KeepsSource
  <1> DEFINE f == Call(item, recurse)
  <1>1. /\ Idle /\ copying' = <<f>> /\ call'.name = "copy"
        /\ before' = [before EXCEPT !.items = live]
        /\ UNCHANGED <<live, next, prev, child, string, stringIsConst, isReference, isObject, roots,
                       crashed, valuestring, building, sorting, sorted>>
    BY DEF Copying, Duplicate, vars, values
  <1>2. /\ before'.items = live /\ before' \in Snapshot
    BY <1>1 DEF CopyInv, TypesInv, TypeOK, Snapshot
  <1>3. building' = NULL /\ sorting' = <<>> /\ copying' # <<>> /\ ~Idle'
    BY <1>1 DEF Idle
  <1>4. New' = {}
    BY <1>1, <1>2 DEF New
  <1>5. f \in DupFrame /\ f.new = NULL /\ f.last = NULL /\ f.at = "new"
    BY DEF DupFrame, Call
  <1> HIDE DEF f
  <1>6. Good(f, FALSE, New', next', child')
    BY <1>5 DEF Good
  <1>7. Frames(copying', New', next', child') /\ News(copying') = {}
    <2>1. Len(<<f>>) = 1 /\ <<f>>[1] = f /\ <<f>> \in Seq(DupFrame)
      BY <1>5
    <2>2. News(<<f>>) = {}
      BY <1>5, <2>1 DEF News
    <2>3. Waiting(<<f>>, 2, New', next', child')
      BY <2>1 DEF Waiting
    <2>a. \A i \in 1 .. Len(<<f>>) : i = 1
      BY <2>1
    <2>4. Frames(<<f>>, New', next', child')
      BY <1>6, <2>1, <2>3, <2>a DEF Frames
    <2>5. QED BY <1>1, <2>2, <2>4
  <1>8. MakingInv'
    BY <1>3, <1>4, <1>7, ForestEmpty DEF MakingInv
  <1>9. TypesInv'
    BY <1>1, <1>2 DEF CopyInv, TypesInv, TypeOK
  <1>10. NewInv'
    BY <1>1, <1>4 DEF CopyInv, NewInv, BlankInv, NoReference
  <1>11. CallInv'
    BY <1>1, <1>2, <1>3 DEF CallInv, CopyInv, TypesInv, TypeOK
  <1>12. SortInv' /\ ReturnInv'
    BY <1>3, NoSort DEF SortInv, ReturnInv, FailureKeepsNothing, MadeWhole
  <1>13. KeepsSource
    BY <1>1 DEF KeepsSource, CopyInv, TypesInv
  <1>14. QED BY <1>8, <1>9, <1>10, <1>11, <1>12, <1>13 DEF CopyInv

LEMMA SortObjectStep ==
    ASSUME CopyInv, NEW object \in Item, NEW sensitive \in BOOLEAN,
           SortObject(object, sensitive)
    PROVE  CopyInv' /\ KeepsSource
  <1> DEFINE f == S!Activation(child[object], sensitive)
  <1>1. /\ Idle /\ object \in isObject \ before.items /\ sorting' = <<f>>
        /\ call' = [name |-> "sort", object |-> object, sensitive |-> sensitive]
        /\ before' = [before EXCEPT !.first = child[object], !.members = Kids(object),
                                    !.next = next]
        /\ UNCHANGED <<live, next, prev, child, string, stringIsConst, isReference, isObject, roots,
                       crashed, valuestring, building, copying>>
    BY DEF SortObject, S!Sort, names, values
  <1>2. before'.items = before.items /\ before' \in Snapshot
    <2>1. child[object] \in Item \cup {NULL} /\ Kids(object) \in SUBSET Item /\ next \in Pointers
      BY DEF CopyInv, TypesInv, TypeOK, Kids, Chain, Pointers
    <2>2. before \in Snapshot
      BY DEF CopyInv, TypesInv
    <2>3. QED BY <1>1, <2>1, <2>2 DEF Snapshot
  <1>3. New' = New /\ object \in New /\ child[object] \in New \cup {NULL}
    BY <1>1, <1>2 DEF New, CopyInv, NewInv, TypesInv, TypeOK
  <1>4. building' = NULL /\ copying' = <<>> /\ sorting' # <<>> /\ ~Idle' /\ call'.name = "sort"
        /\ call'.object = object
    BY <1>1 DEF Idle
  <1>5. f \in SortFrame(New \cup {NULL}) /\ f.at = "test" /\ f.second = f.first
    BY <1>3 DEF SortFrame, S!Activation
  <1> HIDE DEF f
  <1>6. SortInv'
    <2>1. Len(<<f>>) = 1 /\ <<f>>[1] = f /\ <<f>> \in Seq(SortFrame(New \cup {NULL}))
      BY <1>5
    <2>2. SortStack(<<f>>, New \cup {NULL})
      BY <2>1 DEF SortStack
    <2>3. sorting'[1] = f /\ sorting' = <<f>>
      BY <1>1, <2>1
    <2>4. Halving(sorting[1])'
      BY <1>5, <2>3 DEF Halving
    <2>5. QED BY <1>3, <2>2, <2>3, <2>4 DEF SortInv
  <1>7. MakingInv'
    BY <1>4 DEF MakingInv, Frames, Waiting
  <1>8. TypesInv'
    BY <1>1, <1>2 DEF CopyInv, TypesInv, TypeOK
  <1>9. NewInv'
    BY <1>1, <1>3 DEF CopyInv, NewInv, BlankInv, NoReference
  <1>10. CallInv'
    BY <1>1, <1>3, <1>4 DEF CallInv
  <1>11. ReturnInv'
    BY <1>4 DEF ReturnInv, FailureKeepsNothing, MadeWhole
  <1>12. KeepsSource
    BY <1>1 DEF KeepsSource, CopyInv, TypesInv
  <1>13. QED BY <1>6, <1>7, <1>8, <1>9, <1>10, <1>11, <1>12 DEF CopyInv
-----------------------------------------------------------------------------
(* The sort.  Its activations hold new items only.                          *)

LEMMA SortTail ==
    ASSUME NEW s, NEW I, SortStack(s, I), s # <<>>
    PROVE  /\ s[1] \in SortFrame(I) /\ Head(s) = s[1] /\ SortCallers(Tail(s), I)
  <1>1. s \in Seq(SortFrame(I)) /\ Len(s) \in Nat \ {0}
    BY DEF SortStack
  <1>2. /\ Tail(s) \in Seq(SortFrame(I)) /\ Len(Tail(s)) = Len(s) - 1
        /\ \A i \in 1 .. Len(s) - 1 : Tail(s)[i] = s[i + 1]
    BY <1>1
  <1>3. \A i \in 1 .. Len(s) - 1 : i + 1 \in 2 .. Len(s)
    BY <1>1
  <1>4. SortCallers(Tail(s), I)
    BY <1>2, <1>3 DEF SortStack, SortCallers
  <1>5. QED BY <1>1, <1>4

LEMMA SortRest ==
    ASSUME NEW s, NEW I, SortStack(s, I), s # <<>>, Len(s) # 1
    PROVE  /\ s[2] \in SortFrame(I) /\ s[2].at \in {"first", "second"}
           /\ SortCallers(SubSeq(s, 3, Len(s)), I)
  <1>1. s \in Seq(SortFrame(I)) /\ Len(s) \in Nat /\ Len(s) > 1 /\ 2 \in 2 .. Len(s)
    BY DEF SortStack
  <1> DEFINE t == [i \in 1 .. Len(s) - 2 |-> s[i + 2]]
  <1>2. SubSeq(s, 3, Len(s)) = t
    BY <1>1
  <1>3. \A i \in 1 .. Len(s) - 2 : i + 2 \in 2 .. Len(s)
    BY <1>1
  <1>4. t \in [1 .. Len(s) - 2 -> SortFrame(I)] /\ Len(s) - 2 \in Nat
    BY <1>1, <1>3
  <1>5. \A i \in 1 .. Len(s) - 2 : t[i] = s[i + 2]
    OBVIOUS
  <1> HIDE DEF t
  <1>6. t \in Seq(SortFrame(I)) /\ Len(t) = Len(s) - 2
    BY <1>4
  <1>7. SortCallers(t, I)
    BY <1>3, <1>5, <1>6 DEF SortStack, SortCallers
  <1>8. s[2] \in SortFrame(I) /\ s[2].at \in {"first", "second"}
    BY <1>1 DEF SortStack
  <1>9. SortCallers(SubSeq(s, 3, Len(s)), I)
    BY <1>2, <1>7
  <1>10. QED BY <1>8, <1>9

LEMMA SortTop ==
    ASSUME NEW r, NEW I, SortCallers(r, I), NEW f \in SortFrame(I)
    PROVE  SortStack(<<f>> \o r, I) /\ <<f>> \o r # <<>> /\ (<<f>> \o r)[1] = f
  <1> DEFINE t == <<f>> \o r
  <1>1. r \in Seq(SortFrame(I)) /\ Len(r) \in Nat
    BY DEF SortCallers
  <1>2. /\ t \in Seq(SortFrame(I)) /\ Len(t) = Len(r) + 1 /\ t[1] = f
        /\ \A i \in 2 .. Len(r) + 1 : t[i] = r[i - 1]
    BY <1>1, Pushed
  <1> HIDE DEF t
  <1>3. \A i \in 2 .. Len(r) + 1 : i - 1 \in 1 .. Len(r)
    BY <1>1
  <1>4. SortStack(t, I)
    BY <1>2, <1>3 DEF SortStack, SortCallers
  <1>5. QED BY <1>1, <1>2, <1>4 DEF t

LEMMA SortTopTwo ==
    ASSUME NEW r, NEW I, SortCallers(r, I), NEW f \in SortFrame(I), NEW g \in SortFrame(I),
           g.at \in {"first", "second"}
    PROVE  SortStack(<<f, g>> \o r, I) /\ <<f, g>> \o r # <<>> /\ (<<f, g>> \o r)[1] = f
  <1> DEFINE t == <<f, g>> \o r
  <1>1. r \in Seq(SortFrame(I)) /\ Len(r) \in Nat
    BY DEF SortCallers
  <1>2. /\ t \in Seq(SortFrame(I)) /\ Len(t) = Len(r) + 2 /\ t[1] = f /\ t[2] = g
        /\ \A i \in 3 .. Len(r) + 2 : t[i] = r[i - 2]
    BY <1>1
  <1> HIDE DEF t
  <1>3. /\ \A i \in 3 .. Len(r) + 2 : i - 2 \in 1 .. Len(r)
        /\ 2 .. Len(r) + 2 = {2} \cup 3 .. Len(r) + 2
    BY <1>1
  <1>4. SortStack(t, I)
    BY <1>2, <1>3 DEF SortStack, SortCallers
  <1>5. QED BY <1>1, <1>2, <1>4 DEF t

(* What a step of the sort may do to the links and to the stack.            *)
SortsNew ==
    /\ next' \in Pointers /\ prev' \in Pointers
    /\ \A z \in Item \ New : next'[z] = next[z] /\ prev'[z] = prev[z]
    /\ \A z \in New : next'[z] \in New \cup {NULL} /\ prev'[z] \in New \cup {NULL}

StackGoesOn ==
    /\ SortStack(sorting', New \cup {NULL})
    /\ sorting' # <<>> => Halving(sorting[1])'
    /\ sorting' = <<>> => sorted' \in New \cup {NULL}

LEMMA SortingNow ==
    ASSUME CopyInv, sorting # <<>>
    PROVE  /\ sorting[1] \in SortFrame(New \cup {NULL}) /\ Head(sorting) = sorting[1]
           /\ SortStack(sorting, New \cup {NULL}) /\ Halving(sorting[1])
           /\ SortCallers(Tail(sorting), New \cup {NULL})
           /\ New \in SUBSET Item /\ TypeOK
           /\ \A x \in New : /\ next[x] \in New \cup {NULL} /\ prev[x] \in New \cup {NULL}
                             /\ child[x] \in New \cup {NULL}
           /\ \A x \in New : x # NULL
  <1>1. SortStack(sorting, New \cup {NULL}) /\ Halving(sorting[1])
    BY DEF CopyInv, SortInv
  <1>2. New \in SUBSET Item /\ TypeOK
    BY DEF CopyInv, TypesInv, TypeOK, New
  <1>3. \A x \in New : /\ next[x] \in New \cup {NULL} /\ prev[x] \in New \cup {NULL}
                       /\ child[x] \in New \cup {NULL}
    BY DEF CopyInv, NewInv
  <1>4. QED BY <1>1, <1>2, <1>3, SortTail, NullIsNoItem

LEMMA SameLinks ==
    ASSUME CopyInv, UNCHANGED <<next, prev>>
    PROVE  SortsNew
  BY DEF SortsNew, CopyInv, TypesInv, TypeOK, Pointers, NewInv

(* The innermost activation goes on.                                        *)
LEMMA SortContinues ==
    ASSUME CopyInv, sorting # <<>>, NEW g \in SortFrame(New \cup {NULL}),
           sorting' = <<g>> \o Tail(sorting),
           g.at = "merge" \/ (Halving(g) /\ UNCHANGED next)
    PROVE  StackGoesOn
  <1>1. /\ SortStack(sorting', New \cup {NULL}) /\ sorting' # <<>> /\ sorting'[1] = g
    BY SortingNow, SortTop
  <1>2. CASE g.at = "merge"
    BY <1>1, <1>2 DEF StackGoesOn, Halving
  <1>3. CASE Halving(g) /\ UNCHANGED next
    <2>1. Chain(sorting[1].second)' = Chain(g.second)
      BY <1>1, <1>3 DEF Chain, NextClosed
    <2>2. Halving(sorting[1])'
      BY <1>1, <1>3, <2>1 DEF Halving
    <2>3. QED BY <1>1, <2>2 DEF StackGoesOn
  <1>4. QED BY <1>2, <1>3

(* It returns new items.                                                    *)
LEMMA SortReturns ==
    ASSUME CopyInv, sorting # <<>>, NEW list \in New \cup {NULL}, S!Returning(list)
    PROVE  StackGoesOn
  <1> DEFINE I == New \cup {NULL}
  <1>1. SortStack(sorting, I)
    BY SortingNow
  <1>2. CASE Len(sorting) = 1
    <2>1. sorting' = <<>> /\ sorted' = list
      BY <1>2 DEF S!Returning
    <2>2. SortStack(<<>>, I)
      BY NoSort
    <2>3. QED BY <2>1, <2>2 DEF StackGoesOn
  <1>3. CASE Len(sorting) # 1
    <2> DEFINE caller == sorting[2]
               r == SubSeq(sorting, 3, Len(sorting))
               f == S!Activation(caller.second, caller.sensitive)
               g == [caller EXCEPT !.at = "second", !.first = list]
               h == [caller EXCEPT !.at = "merge", !.second = list, !.result = NULL]
    <2>1. caller \in SortFrame(I) /\ SortCallers(r, I)
      BY <1>1, <1>3, SortRest
    <2>2. \/ caller.at = "first" /\ sorting' = <<f, g>> \o r
          \/ sorting' = <<h>> \o r
      BY <1>3 DEF S!Returning
    <2>3. /\ f \in SortFrame(I) /\ f.at = "test" /\ f.second = f.first
          /\ g \in SortFrame(I) /\ g.at = "second"
          /\ h \in SortFrame(I) /\ h.at = "merge"
      BY <2>1 DEF SortFrame, S!Activation
    <2> HIDE DEF I, f, g, h, r, caller
    <2>4. CASE sorting' = <<f, g>> \o r
      <3>1. SortStack(sorting', I) /\ sorting' # <<>> /\ sorting'[1] = f
        BY <2>1, <2>3, <2>4, SortTopTwo
      <3>2. Halving(sorting[1])'
        BY <2>3, <3>1 DEF Halving
      <3>3. QED BY <3>1, <3>2 DEF StackGoesOn, I
    <2>5. CASE sorting' = <<h>> \o r
      <3>1. SortStack(sorting', I) /\ sorting' # <<>> /\ sorting'[1] = h
        BY <2>1, <2>3, <2>5, SortTop
      <3>2. Halving(sorting[1])'
        BY <2>3, <3>1 DEF Halving
      <3>3. QED BY <3>1, <3>2 DEF StackGoesOn, I
    <2>6. QED BY <2>2, <2>4, <2>5
  <1>4. QED BY <1>2, <1>3
LEMMA TestSortedStep ==
    ASSUME CopyInv, S!TestSorted
    PROVE  SortsNew /\ StackGoesOn
  <1> DEFINE f == sorting[1]
             I == New \cup {NULL}
  <1>1. sorting # <<>> /\ Head(sorting).at = "test" /\ UNCHANGED <<next, prev>>
    BY DEF S!TestSorted, S!Running
  <1>2. /\ f \in SortFrame(I) /\ Head(sorting) = f /\ Halving(f) /\ New \in SUBSET Item
        /\ TypeOK /\ \A x \in New : next[x] \in I /\ x # NULL
    BY <1>1, SortingNow
  <1> DEFINE g == [f EXCEPT !.current = next[f.current]]
             h == [f EXCEPT !.at = "middle", !.current = f.first]
  <1>3. \/ S!Returning(f.result)
        \/ f.current # NULL /\ sorting' = <<g>> \o Tail(sorting)
        \/ sorting' = <<h>> \o Tail(sorting)
    BY <1>2 DEF S!TestSorted, S!Continue
  <1>4. SortsNew
    BY <1>1, SameLinks
  <1>5. CASE S!Returning(f.result)
    <2>1. f.result \in I
      BY <1>2 DEF SortFrame
    <2>2. QED BY <1>1, <1>4, <1>5, <2>1, SortReturns
  <1>6. CASE f.current # NULL /\ sorting' = <<g>> \o Tail(sorting)
    <2>1. f.current \in New
      BY <1>2, <1>6 DEF SortFrame
    <2>2. next[f.current] \in I
      BY <1>2, <2>1
    <2>3. f.at = "test" /\ f.second = f.first
      BY <1>1, <1>2 DEF Halving
    <2>4. g \in SortFrame(I) /\ g.at = "test" /\ g.second = g.first
      BY <1>2, <2>2, <2>3 DEF SortFrame
    <2> HIDE DEF g
    <2>5. Halving(g)
      BY <2>4 DEF Halving
    <2>6. QED BY <1>1, <1>4, <1>6, <2>4, <2>5, SortContinues
  <1>7. CASE sorting' = <<h>> \o Tail(sorting)
    <2>1. f.at = "test" /\ f.second = f.first /\ f.first \in I
      BY <1>1, <1>2 DEF Halving, SortFrame
    <2>2. /\ h \in SortFrame(I) /\ h.at = "middle" /\ h.second = h.current
          /\ h.second \in I
      BY <1>2, <2>1 DEF SortFrame
    <2> HIDE DEF h
    <2>3. Halving(h)
      <3>1. ASSUME h.current # NULL PROVE h.current \in Chain(h.second)
        BY <1>2, <2>2, <3>1, ChainClosed
      <3>2. QED BY <2>2, <3>1 DEF Halving
    <2>4. QED BY <1>1, <1>4, <1>7, <2>2, <2>3, SortContinues
  <1>8. QED BY <1>3, <1>5, <1>6, <1>7

(* `second' stays behind `current', so it is not NULL before the end.       *)
LEMMA WalkTwoStep ==
    ASSUME CopyInv, S!WalkTwo
    PROVE  SortsNew /\ StackGoesOn
  <1> DEFINE f == sorting[1]
             I == New \cup {NULL}
             one == next[f.current]
             two == IF one = NULL THEN NULL ELSE next[one]
             g == [f EXCEPT !.second = next[f.second], !.current = two]
  <1>1. sorting # <<>> /\ Head(sorting).at = "middle" /\ UNCHANGED <<next, prev>>
        /\ Head(sorting).current # NULL
    BY DEF S!WalkTwo, S!Running
  <1>2. /\ f \in SortFrame(I) /\ Head(sorting) = f /\ Halving(f) /\ New \in SUBSET Item
        /\ TypeOK /\ \A x \in New : next[x] \in I /\ x # NULL
    BY <1>1, SortingNow
  <1>3. sorting' = <<g>> \o Tail(sorting) /\ f.at = "middle" /\ f.current # NULL
    BY <1>1, <1>2 DEF S!WalkTwo, S!Continue
  <1>4. f.second \in New /\ f.current \in New /\ f.current \in Chain(f.second)
    BY <1>2, <1>3 DEF SortFrame, Halving
  <1>5. one \in I /\ two \in I /\ next[f.second] \in I
    BY <1>2, <1>4
  <1>6. two # NULL => next[f.second] # NULL /\ two \in Chain(next[f.second])
    <2> SUFFICES ASSUME two # NULL PROVE next[f.second] # NULL /\ two \in Chain(next[f.second])
      OBVIOUS
    <2> DEFINE s == next[f.second]
               T == {f.second} \cup (IF s = NULL THEN {} ELSE Chain(s))
    <2>1. one # NULL /\ one \in Item /\ two = next[one] /\ two \in Item
      BY <1>2, <1>5
    <2>2. f.second \in Item /\ f.current \in Item /\ s \in Item \cup {NULL}
      BY <1>2, <1>4, <1>5
    <2>3. s # NULL => s \in Chain(s) /\ NextClosed(Chain(s)) /\ Chain(s) \subseteq Item
      BY <1>2, <2>2, ChainClosed
    <2>4. T \in SUBSET Item /\ f.second \in T /\ NextClosed(T)
      BY <2>2, <2>3 DEF NextClosed
    <2>5. f.current \in T
      BY <1>4, <2>2, <2>4, ChainLeast
    <2>6. s # NULL /\ one \in Chain(s)
      BY <2>1, <2>3, <2>5 DEF NextClosed
    <2>7. QED BY <2>1, <2>3, <2>6 DEF NextClosed
  <1> HIDE DEF one, two
  <1>7. g \in SortFrame(I) /\ g.at = "middle" /\ g.second = next[f.second] /\ g.current = two
    <2> DEFINE s == next[f.second]
    <2>1. s \in I
      BY <1>5
    <2> HIDE DEF s
    <2>2. LET k == [f EXCEPT !.second = s, !.current = two]
          IN  k \in SortFrame(I) /\ k.at = "middle" /\ k.second = s /\ k.current = two
      BY <1>2, <1>3, <1>5, <2>1 DEF SortFrame
    <2>3. QED BY <2>2 DEF s
  <1> HIDE DEF g
  <1>8. Halving(g)
    BY <1>6, <1>7 DEF Halving
  <1>9. SortsNew
    BY <1>1, SameLinks
  <1>10. QED BY <1>1, <1>3, <1>7, <1>8, <1>9, SortContinues

LEMMA SplitStep ==
    ASSUME CopyInv, S!Split
    PROVE  SortsNew /\ StackGoesOn
  <1> DEFINE f == sorting[1]
             I == New \cup {NULL}
             a == S!Activation(f.first, f.sensitive)
             b == [f EXCEPT !.at = "first"]
  <1>1. sorting # <<>>
    BY DEF S!Split, S!Running
  <1>2. /\ f \in SortFrame(I) /\ Head(sorting) = f /\ SortCallers(Tail(sorting), I)
        /\ New \in SUBSET Item /\ TypeOK
        /\ \A x \in New : next[x] \in I /\ prev[x] \in I /\ x # NULL
    BY <1>1, SortingNow
  <1>3. /\ next' = IF f.second # NULL /\ prev[f.second] # NULL
                   THEN [next EXCEPT ![prev[f.second]] = NULL] ELSE next
        /\ sorting' = <<a, b>> \o Tail(sorting) /\ prev' = prev
    BY <1>2 DEF S!Split, S!Cut
  <1>4. SortsNew
    <2>1. f.second # NULL => prev[f.second] \in I
      BY <1>2 DEF SortFrame
    <2>2. CASE f.second # NULL /\ prev[f.second] # NULL
      <3> DEFINE l == prev[f.second]
      <3>1. l \in New /\ next' = [next EXCEPT ![l] = NULL]
        BY <1>3, <2>1, <2>2
      <3> HIDE DEF l
      <3>2. QED BY <1>2, <1>3, <3>1 DEF SortsNew, TypeOK, Pointers
    <2>3. CASE ~(f.second # NULL /\ prev[f.second] # NULL)
      BY <1>3, <2>3, SameLinks
    <2>4. QED BY <2>2, <2>3
  <1>5. StackGoesOn
    <2>1. /\ a \in SortFrame(I) /\ a.at = "test" /\ a.second = a.first
          /\ b \in SortFrame(I) /\ b.at = "first"
      BY <1>2 DEF SortFrame, S!Activation
    <2> HIDE DEF a, b
    <2>2. SortStack(sorting', I) /\ sorting' # <<>> /\ sorting'[1] = a
      BY <1>2, <1>3, <2>1, SortTopTwo
    <2>3. Halving(sorting[1])'
      BY <2>1, <2>2 DEF Halving
    <2>4. QED BY <2>2, <2>3 DEF StackGoesOn
  <1>6. QED BY <1>4, <1>5

(* A new item is linked behind another.                                     *)
LEMMA FollowsNew ==
    ASSUME CopyInv, NEW tail \in New \cup {NULL}, NEW x \in New, S!Follows(tail, x)
    PROVE  SortsNew
  <1>1. /\ New \in SUBSET Item /\ TypeOK
        /\ \A y \in New : next[y] \in New \cup {NULL} /\ prev[y] \in New \cup {NULL}
    BY DEF CopyInv, TypesInv, TypeOK, New, NewInv
  <1>2. next' = [next EXCEPT ![tail] = x] /\ prev' = [prev EXCEPT ![x] = tail]
    BY DEF S!Follows
  <1>3. \A z \in Item : /\ next'[z] = IF z = tail THEN x ELSE next[z]
                       /\ prev'[z] = IF z = x THEN tail ELSE prev[z]
    BY <1>1, <1>2 DEF TypeOK
  <1>4. next' \in Pointers /\ prev' \in Pointers
    BY <1>1, <1>2 DEF TypeOK, Pointers
  <1>5. \A z \in Item \ New : z # tail /\ z # x
    BY <1>1, NullIsNoItem
  <1>6. QED BY <1>1, <1>3, <1>4, <1>5 DEF SortsNew

LEMMA MergeStep ==
    ASSUME CopyInv, S!Merge
    PROVE  SortsNew /\ StackGoesOn
  <1> DEFINE f == Head(sorting)
             I == New \cup {NULL}
             x == IF S!Less(f.first, f.second, FALSE) THEN f.first ELSE f.second
             r == IF f.result = NULL THEN x ELSE f.result
             g == [f EXCEPT !.result = r, !.tail = x]
             h == [g EXCEPT !.first = next[x]]
             k == [g EXCEPT !.second = next[x]]
  <1>1. sorting # <<>> /\ Head(sorting).at = "merge"
    BY DEF S!Merge, S!Running
  <1>2. /\ f \in SortFrame(I) /\ New \in SUBSET Item
        /\ \A y \in New : next[y] \in I /\ y # NULL
    BY <1>1, SortingNow
  <1>3. /\ f.first # NULL /\ f.second # NULL
        /\ IF f.result = NULL THEN UNCHANGED <<next, prev>> ELSE S!Follows(f.tail, x)
        /\ \/ sorting' = <<h>> \o Tail(sorting)
           \/ sorting' = <<k>> \o Tail(sorting)
    BY DEF S!Merge, S!Continue, S!Advanced
  <1>4. x \in New /\ r \in I /\ f.tail \in I
    BY <1>2, <1>3 DEF SortFrame
  <1> HIDE DEF x, r
  <1>5. next[x] \in I
    BY <1>2, <1>4
  <1>6. SortsNew
    BY <1>3, <1>4, FollowsNew, SameLinks
  <1>7. g \in SortFrame(I) /\ g.at = "merge"
    BY <1>1, <1>2, <1>4 DEF SortFrame
  <1> HIDE DEF g
  <1>8. h \in SortFrame(I) /\ h.at = "merge" /\ k \in SortFrame(I) /\ k.at = "merge"
    BY <1>5, <1>7 DEF SortFrame
  <1> HIDE DEF h, k
  <1>9. StackGoesOn
    BY <1>1, <1>3, <1>8, SortContinues
  <1>10. QED BY <1>6, <1>9

LEMMA AppendRestStep ==
    ASSUME CopyInv, S!AppendRest
    PROVE  SortsNew /\ StackGoesOn
  <1> DEFINE f == sorting[1]
             I == New \cup {NULL}
             rest == IF f.first # NULL THEN f.first ELSE f.second
  <1>1. sorting # <<>>
    BY DEF S!AppendRest, S!Running
  <1>2. /\ f \in SortFrame(I) /\ Head(sorting) = f
    BY <1>1, SortingNow
  <1>3. \/ S!Returning(rest) /\ UNCHANGED <<next, prev>>
        \/ /\ IF rest = NULL THEN UNCHANGED <<next, prev>> ELSE S!Follows(f.tail, rest)
           /\ S!Returning(f.result)
    BY <1>2 DEF S!AppendRest
  <1>4. rest \in I /\ f.tail \in I /\ f.result \in I
    BY <1>2 DEF SortFrame
  <1> HIDE DEF rest
  <1>5. SortsNew
    BY <1>3, <1>4, FollowsNew, SameLinks
  <1>6. StackGoesOn
    BY <1>1, <1>3, <1>4, SortReturns
  <1>7. QED BY <1>5, <1>6

LEMMA SortingStep ==
    ASSUME CopyInv, Sorting
    PROVE  CopyInv' /\ KeepsSource
  <1> DEFINE I == New \cup {NULL}
  <1>1. /\ S!SortStep
        /\ child' = IF sorting' = <<>> THEN [child EXCEPT ![call.object] = sorted'] ELSE child
        /\ UNCHANGED <<live, string, stringIsConst, isReference, isObject, roots, crashed,
                       valuestring, building, copying, made, call, before>>
    BY DEF Sorting, names, values
  <1>2. SortsNew /\ StackGoesOn
    BY <1>1, TestSortedStep, WalkTwoStep, SplitStep, MergeStep, AppendRestStep DEF S!SortStep
  <1>3. sorting # <<>>
    BY <1>1 DEF S!SortStep, S!TestSorted, S!WalkTwo, S!Split, S!Merge, S!AppendRest, S!Running
  <1>4. call.name = "sort" /\ call.object \in New /\ New' = New /\ New \in SUBSET Item
    BY <1>1, <1>3 DEF CopyInv, CallInv, New, TypesInv, TypeOK
  <1>5. building = NULL /\ copying = <<>>
    BY <1>4 DEF CopyInv, CallInv
  <1>6. /\ child' \in Pointers /\ \A z \in Item \ New : child'[z] = child[z]
        /\ \A z \in New : child'[z] \in I
    <2>1. child \in Pointers /\ \A z \in New : child[z] \in I
      BY DEF CopyInv, TypesInv, TypeOK, Pointers, NewInv
    <2>2. CASE sorting' = <<>>
      <3>1. sorted' \in I /\ child' = [child EXCEPT ![call.object] = sorted']
        BY <1>1, <1>2, <2>2 DEF StackGoesOn
      <3>2. QED BY <1>4, <2>1, <3>1 DEF Pointers
    <2>3. CASE sorting' # <<>>
      BY <1>1, <2>1, <2>3
    <2>4. QED BY <2>2, <2>3
  <1>7. TypesInv'
    BY <1>1, <1>2, <1>6 DEF CopyInv, TypesInv, TypeOK, SortsNew, Pointers
  <1>8. NewInv'
    <2>1. \A z \in Item \ live : z \in Item \ New
      BY DEF New
    <2>2. BlankInv' /\ NoReference'
      BY <1>1, <1>2, <1>4, <1>6, <2>1 DEF CopyInv, NewInv, BlankInv, NoReference, SortsNew
    <2>3. QED BY <1>2, <1>4, <1>6, <2>2 DEF NewInv, SortsNew
  <1>9. CallInv'
    BY <1>1, <1>4, <1>5 DEF CallInv
  <1>10. MakingInv'
    BY <1>1, <1>5 DEF MakingInv, Frames, Waiting
  <1>11. SortInv'
    BY <1>2, <1>4 DEF StackGoesOn, SortInv
  <1>12. ReturnInv'
    BY <1>1, <1>4 DEF ReturnInv, FailureKeepsNothing, MadeWhole
  <1>13. KeepsSource
    <2>1. \A z \in before.items : z \in Item \ New /\ z \in live
      BY DEF CopyInv, TypesInv, TypeOK, New
    <2>2. QED BY <1>1, <1>2, <1>6, <2>1 DEF KeepsSource, SortsNew
  <1>14. QED BY <1>7, <1>8, <1>9, <1>10, <1>11, <1>12, <1>13 DEF CopyInv
-----------------------------------------------------------------------------
(* The invariant holds.                                                     *)

(* A structure that the program has is linked within itself.                *)
LEMMA LinkedWithin ==
    ASSUME NEW items \in SUBSET Item, NEW kids \in [Item -> Seq(items)], Link(kids)
    PROVE  /\ next \in Pointers /\ prev \in Pointers
           /\ \A x \in Item \ items : next[x] = NULL /\ prev[x] = NULL
           /\ \A x \in Item : next[x] \in items \cup {NULL}
  <1> DEFINE Sibling(x, d) ==
                {y \in Item : \E p \in Item : \E i \in DOMAIN kids[p] :
                    i + d \in DOMAIN kids[p] /\ kids[p][i] = x /\ kids[p][i + d] = y}
             Before1(x) == {y \in Item : x \in Sibling(y, 1)}
             One(s) == IF s = {} THEN NULL ELSE CHOOSE y \in s : TRUE
  <1>1. /\ next = [x \in Item |-> One(Sibling(x, 1))]
        /\ prev = [x \in Item |-> One(Before1(x))]
    BY DEF Link
  <1>2. \A p \in Item : \A i \in DOMAIN kids[p] : kids[p][i] \in items
    OBVIOUS
  <1>3. \A x \in Item \ items : Sibling(x, 1) = {}
    BY <1>2
  <1>4. \A x \in Item \ items : Before1(x) = {}
    BY <1>2
  <1>5. \A x \in Item : Sibling(x, 1) \subseteq items /\ Before1(x) \subseteq Item
    BY <1>2
  <1> HIDE DEF Sibling, Before1
  <1>6. /\ \A s \in SUBSET Item : One(s) \in Item \cup {NULL}
        /\ \A s \in SUBSET items : One(s) \in items \cup {NULL}
    OBVIOUS
  <1>7. One({}) = NULL
    OBVIOUS
  <1> HIDE DEF One
  <1>8. next \in Pointers /\ prev \in Pointers
    BY <1>1, <1>5, <1>6 DEF Pointers
  <1>9. \A x \in Item \ items : next[x] = NULL /\ prev[x] = NULL
    BY <1>1, <1>3, <1>4, <1>7
  <1>10. \A x \in Item : next[x] \in items \cup {NULL}
    BY <1>1, <1>5, <1>6
  <1>11. QED BY <1>8, <1>9, <1>10

LEMMA InitCopyInv ==
    ASSUME CopySortInit
    PROVE  CopyInv
  <1>1. PICK s \in Sources :
           /\ live = s.items
           /\ Link(s.kids)
           /\ child = [x \in Item |-> IF x \in DOMAIN s.reference
                                      THEN s.kids[s.reference[x]][1]
                                      ELSE IF s.kids[x] = <<>> THEN NULL ELSE s.kids[x][1]]
           /\ string = [x \in Item |-> IF x \in s.items THEN s.string[x] ELSE NULL]
           /\ isReference = DOMAIN s.reference
           /\ stringIsConst = {x \in s.items : s.string[x] # NULL /\ s.string[x].literal}
           /\ isObject = {x \in s.items : s.kids[x] # <<>>} \cup isReference
           /\ roots = s.roots
           /\ valuestring = [x \in Item |-> IF x \in s.texts THEN x ELSE NULL]
    BY DEF CopySortInit
  <1>2. /\ crashed = FALSE /\ building = NULL /\ copying = <<>> /\ made = NULL
        /\ sorting = <<>> /\ call = [name |-> "none"]
        /\ before = [items |-> live, first |-> NULL, members |-> {}, next |-> next]
    BY DEF CopySortInit, S!SortInit
  <1> DEFINE items == s.items
             kids == s.kids
             reference == s.reference
  <1>3. /\ items \subseteq Item /\ s.roots \subseteq items
        /\ kids \in [Item -> Seq(items)]
        /\ \A x \in Item \ items : kids[x] = <<>>
        /\ DOMAIN reference \subseteq items
        /\ \A x \in DOMAIN reference :
              reference[x] \in items /\ kids[reference[x]] # <<>>
        /\ \A x \in items : s.string[x] \in Name \cup {NULL}
    BY SourcesAreStructures
  <1>4. /\ live = items /\ Link(kids)
        /\ child = [x \in Item |-> IF x \in DOMAIN reference THEN kids[reference[x]][1]
                                   ELSE IF kids[x] = <<>> THEN NULL ELSE kids[x][1]]
        /\ isReference = DOMAIN reference
        /\ isObject = {x \in items : kids[x] # <<>>} \cup isReference
    BY <1>1
  <1> HIDE DEF items, kids, reference
  <1>5. /\ next \in Pointers /\ prev \in Pointers
        /\ \A x \in Item \ live : next[x] = NULL /\ prev[x] = NULL
    BY <1>3, <1>4, LinkedWithin
  <1>6. child \in Pointers /\ \A x \in Item \ live : child[x] = NULL
    <2>1. \A x \in Item : kids[x] \in Seq(items)
      BY <1>3
    <2>2. \A x \in Item : kids[x] # <<>> => kids[x][1] \in Item
      BY <1>3, <2>1
    <2>3. QED BY <1>3, <1>4, <2>2 DEF Pointers
  <1>7. TypesInv
    <2>1. string \in [Item -> Name \cup {NULL}]
      <3>1. \A x \in Item : (IF x \in s.items THEN s.string[x] ELSE NULL) \in Name \cup {NULL}
        BY <1>3 DEF items
      <3>2. QED BY <1>1, <3>1
    <2>2. valuestring \in [Item -> Item \cup {NULL}]
      BY <1>1
    <2>3. /\ isReference \subseteq live /\ isObject \subseteq live /\ roots \subseteq live
          /\ live \subseteq Item
      BY <1>1, <1>3, <1>4
    <2>4. stringIsConst \subseteq live
      BY <1>1
    <2>5. TypeOK
      BY <1>2, <1>5, <1>6, <2>1, <2>3, <2>4 DEF TypeOK, Pointers
    <2>6. QED BY <1>2, <1>5, <2>2, <2>3, <2>5 DEF TypesInv, Snapshot
  <1>8. New = {}
    BY <1>2 DEF New
  <1>9. NewInv
    BY <1>5, <1>6, <1>8 DEF NewInv, BlankInv, NoReference
  <1>10. CallInv
    BY <1>2 DEF CallInv, Idle
  <1>11. MakingInv
    BY <1>2 DEF MakingInv, Frames, Waiting
  <1>12. SortInv
    BY <1>2, NoSort DEF SortInv
  <1>13. ReturnInv
    BY <1>2 DEF ReturnInv, FailureKeepsNothing, MadeWhole
  <1>14. QED BY <1>7, <1>9, <1>10, <1>11, <1>12, <1>13 DEF CopyInv

LEMMA StutterCopyInv ==
    ASSUME CopyInv, UNCHANGED allVars
    PROVE  CopyInv' /\ KeepsSource
  <1>1. UNCHANGED <<live, next, prev, child, string, isReference, stringIsConst, isObject, roots,
                    crashed, valuestring, building, copying, made, sorting, sorted, call, before>>
    BY DEF allVars, dupVars, vars, values
  <1>2. TypesInv' /\ NewInv' /\ KeepsSource
    BY <1>1 DEF CopyInv, TypesInv, TypeOK, NewInv, BlankInv, NoReference, New, KeepsSource
  <1>3. CallInv' /\ MakingInv'
    BY <1>1 DEF CopyInv, CallInv, Idle, MakingInv, New
  <1>4. SortInv'
    <2>1. \A x : Chain(x)' = Chain(x)
      BY <1>1 DEF Chain, NextClosed
    <2>2. QED BY <1>1, <2>1 DEF CopyInv, SortInv, Halving, New
  <1>5. ReturnInv'
    <2>1. Reach(made)' = Reach(made)
      BY <1>1 DEF Reach, OwnClosed, NextClosed
    <2>2. QED BY <1>1, <2>1 DEF CopyInv, ReturnInv, FailureKeepsNothing, MadeWhole, Idle
  <1>6. QED BY <1>2, <1>3, <1>4, <1>5 DEF CopyInv

LEMMA NextCopyInv ==
    ASSUME CopyInv, [CopySortNext]_allVars
    PROVE  CopyInv' /\ KeepsSource
  <1>1. CASE \E count \in Count : MakeArray(count)
    BY <1>1, MakeArrayStep
  <1>2. CASE \E item \in Item, recurse \in BOOLEAN : Copying(item, recurse)
    BY <1>2, CopyingStep
  <1>3. CASE Making
    BY <1>3, MakingStep
  <1>4. CASE \E object \in Item, sensitive \in BOOLEAN : SortObject(object, sensitive)
    BY <1>4, SortObjectStep
  <1>5. CASE Sorting
    BY <1>5, SortingStep
  <1>6. CASE UNCHANGED allVars
    BY <1>6, StutterCopyInv
  <1>7. QED BY <1>1, <1>2, <1>3, <1>4, <1>5, <1>6 DEF CopySortNext

(* In every state of every run.                                             *)
LEMMA AlwaysCopyInv == CopySortSpec => []CopyInv /\ [][KeepsSource]_allVars
  <1>1. CopySortInit => CopyInv
    BY InitCopyInv
  <1>2. CopyInv /\ [CopySortNext]_allVars => CopyInv' /\ [KeepsSource]_allVars
    BY NextCopyInv
  <1>3. QED BY <1>1, <1>2, PTL DEF CopySortSpec

-----------------------------------------------------------------------------
(* Links both ways.                                                         *)

(* Whoever is next of an item has it as prev; a first kid has none.         *)
Linked(n, p, c, N) ==
    \A x \in N : (n[x] # NULL => p[n[x]] = x) /\ (c[x] # NULL => p[c[x]] = NULL)

(* A sort gives a first member a prev (FirstHasNoPrev), nothing else does.  *)
BackInv == call.name # "sort" => Linked(next, prev, child, New)

LEMMA LinkedAppended ==
    ASSUME TypeOK, NEW N \in SUBSET Item, Linked(next, prev, child, N),
           NEW u \in N, NEW x \in N, NEW last \in N \cup {NULL}, Appends(u, x, last),
           prev[x] = NULL, \A z \in N : next[z] # x /\ child[z] # x
    PROVE  Linked(next', prev', child', N)
  <1>1. \A z \in N : /\ next[z] # NULL => prev[next[z]] = z
                     /\ child[z] # NULL => prev[child[z]] = NULL
    BY DEF Linked
  <1>2. CASE last = NULL
    <2>1. /\ next' = next /\ prev' = prev
          /\ \A z \in N : child'[z] = IF z = u THEN x ELSE child[z]
      BY <1>2 DEF Appends, TypeOK
    <2>2. QED BY <1>1, <2>1 DEF Linked
  <1>3. CASE last # NULL
    <2>1. child' = child /\ next' = [next EXCEPT ![last] = x] /\ prev' = [prev EXCEPT ![x] = last]
      BY <1>3 DEF Appends
    <2>2. next \in [Item -> Item \cup {NULL}] /\ prev \in [Item -> Item \cup {NULL}]
          /\ child \in [Item -> Item \cup {NULL}] /\ last \in N
      BY <1>3 DEF TypeOK
    <2>3. /\ \A z \in Item : next'[z] = IF z = last THEN x ELSE next[z]
          /\ \A z \in Item : prev'[z] = IF z = x THEN last ELSE prev[z]
      BY <2>1, <2>2
    <2>4. ASSUME NEW z \in N, next'[z] # NULL PROVE prev'[next'[z]] = z
      <3>1. CASE z = last
        BY <2>3, <3>1
      <3>2. CASE z # last
        <4>1. next'[z] = next[z] /\ next[z] \in Item /\ next[z] # x
          BY <2>2, <2>3, <2>4, <3>2
        <4>2. QED BY <1>1, <2>3, <2>4, <4>1
      <3>3. QED BY <3>1, <3>2
    <2>5. ASSUME NEW z \in N, child'[z] # NULL PROVE prev'[child'[z]] = NULL
      <3>1. child'[z] = child[z] /\ child[z] \in Item /\ child[z] # x
        BY <2>1, <2>2, <2>5
      <3>2. QED BY <1>1, <2>3, <2>5, <3>1
    <2>6. QED BY <2>4, <2>5 DEF Linked
  <1>4. QED BY <1>2, <1>3

(* What is left after a tree was freed.                                     *)
LEMMA LinkedDiscarded ==
    ASSUME CopyInv, CopyInv', BackInv, NEW t, Discard(t), UNCHANGED <<call, before>>
    PROVE  BackInv'
  <1> SUFFICES ASSUME call.name # "sort" PROVE Linked(next', prev', child', New')
    BY DEF BackInv
  <1>1. PICK F \in {Reach(t)} : Free(F, next, prev, child, string)
    BY DEF Discard
  <1>2. /\ live' = live \ F /\ New' = New \ F /\ New \in SUBSET Item
        /\ \A z \in Item : /\ next'[z] = IF z \in F THEN NULL ELSE next[z]
                           /\ prev'[z] = IF z \in F THEN NULL ELSE prev[z]
                           /\ child'[z] = IF z \in F THEN NULL ELSE child[z]
    BY <1>1 DEF Free, New, CopyInv, TypesInv, TypeOK
  <1>3. \A z \in New' : next'[z] \in New' \cup {NULL} /\ child'[z] \in New' \cup {NULL}
    BY DEF CopyInv, NewInv
  <1>4. \A z \in New : /\ next[z] # NULL => prev[next[z]] = z
                       /\ child[z] # NULL => prev[child[z]] = NULL
    BY DEF BackInv, Linked
  <1>5. ASSUME NEW z \in New'
        PROVE  /\ next'[z] # NULL => prev'[next'[z]] = z
               /\ child'[z] # NULL => prev'[child'[z]] = NULL
    <2>1. z \in Item /\ z \notin F /\ z \in New /\ next'[z] = next[z] /\ child'[z] = child[z]
      BY <1>2
    <2>2. ASSUME next'[z] # NULL PROVE prev'[next'[z]] = prev[next[z]]
      <3>1. next'[z] \in Item /\ next'[z] \notin F
        BY <1>2, <1>3, <2>2
      <3>2. QED BY <1>2, <2>1, <3>1
    <2>3. ASSUME child'[z] # NULL PROVE prev'[child'[z]] = prev[child[z]]
      <3>1. child'[z] \in Item /\ child'[z] \notin F
        BY <1>2, <1>3, <2>3
      <3>2. QED BY <1>2, <2>1, <3>1
    <2>4. QED BY <1>4, <2>1, <2>2, <2>3
  <1>6. QED BY <1>5 DEF Linked

(* Links stay, and what is allocated is blank.                              *)
LEMMA LinkedGrown ==
    ASSUME CopyInv, BackInv, UNCHANGED <<next, prev, child, call, before>>,
           live' \subseteq Item
    PROVE  BackInv'
  <1>1. \A x \in Item \ live : next[x] = NULL /\ child[x] = NULL
    BY DEF CopyInv, NewInv, BlankInv
  <1>2. \A x \in New' : x \in New \/ x \in Item \ live
    BY DEF New
  <1>3. QED BY <1>1, <1>2 DEF BackInv, Linked

LEMMA LinkedAddElement ==
    ASSUME CopyInv, BackInv, AddElement, UNCHANGED <<call, before>>
    PROVE  BackInv'
  <1> SUFFICES ASSUME call.name # "sort" PROVE Linked(next', prev', child', New')
    BY DEF BackInv
  <1> DEFINE x == Fresh
             a == building.array
             l == building.last
             N == New \cup {x}
  <1>1. building # NULL /\ MemoryLeft /\ live' = live \cup {x} /\ Appends(a, x, l)
    BY DEF AddElement, Appends
  <1>2. /\ a \in New /\ l \in Item \cup {NULL} /\ IsForest(next, child, prev, New, {a})
        /\ EndsWith(next, child, New, a, l) /\ New \in SUBSET Item /\ TypeOK /\ BlankInv
    BY <1>1, Building
  <1>3. x \in Item \ live
    BY <1>1, FreshFree
  <1>4. l \in New \cup {NULL}
    <2>1. Inside(next, child, prev, New)
      BY <1>2 DEF IsForest
    <2>2. Below(next, child, New, a) \subseteq New
      BY <1>2, <2>1, BelowClosed
    <2>3. QED BY <1>2, <2>2 DEF EndsWith
  <1> HIDE DEF x, a, l
  <1>5. New' = N /\ x \notin New /\ N \in SUBSET Item /\ a \in N /\ x \in N /\ l \in N \cup {NULL}
    BY <1>1, <1>2, <1>3, <1>4 DEF New, CopyInv, TypesInv
  <1>6. next[x] = NULL /\ prev[x] = NULL /\ child[x] = NULL /\ x # NULL
    BY <1>2, <1>3, NullIsNoItem DEF BlankInv
  <1>7. \A z \in N : next[z] # x /\ child[z] # x
    <2>1. \A z \in New : next[z] \in New \cup {NULL} /\ child[z] \in New \cup {NULL}
      BY DEF CopyInv, NewInv
    <2>2. QED BY <1>5, <1>6, <2>1
  <1>8. Linked(next, prev, child, N)
    BY <1>6 DEF BackInv, Linked
  <1> HIDE DEF N
  <1>9. Linked(next', prev', child', N)
    BY <1>1, <1>2, <1>5, <1>6, <1>7, <1>8, LinkedAppended
  <1>10. QED BY <1>5, <1>9

LEMMA LinkedLinkKid ==
    ASSUME CopyInv, BackInv, LinkKid, UNCHANGED <<call, before>>
    PROVE  BackInv'
  <1> SUFFICES ASSUME call.name # "sort" PROVE Linked(next', prev', child', New')
    BY DEF BackInv
  <1> DEFINE f == copying[2]
             x == copying[1].new
             u == f.new
             l == f.last
  <1>1. Len(copying) > 1
    BY DEF LinkKid
  <1>2. /\ copying # <<>> /\ u \in News(copying) /\ u # x /\ l \in Item \cup {NULL}
        /\ Good(f, TRUE, New, next, child) /\ u # NULL
        /\ News(copying) = ({x} \ {NULL}) \cup {u} \cup Rest(copying, 3)
    BY <1>1, Caller, NullIsNoItem
  <1>3. /\ Head(copying) = copying[1] /\ New \in SUBSET Item
        /\ IsForest(next, child, prev, New, News(copying))
    BY <1>2, Innermost
  <1>4. x # NULL /\ Appends(u, x, l) /\ UNCHANGED live
    BY <1>3 DEF LinkKid, Locals, Appends
  <1>5. TypeOK /\ New' = New
    BY <1>4 DEF CopyInv, TypesInv, New
  <1>6. EndsWith(next, child, New, u, l)
    BY <1>2 DEF Good
  <1>7. x \in News(copying)
    BY <1>2, <1>4
  <1> HIDE DEF f, x, u, l
  <1>8. /\ u \in New /\ x \in New /\ Inside(next, child, prev, New)
        /\ \A z \in New : next[z] # x /\ child[z] # x
    BY <1>2, <1>3, <1>7 DEF IsForest, Loose
  <1>9. l \in New \cup {NULL}
    <2>1. Below(next, child, New, u) \subseteq New
      BY <1>3, <1>8, BelowClosed
    <2>2. QED BY <1>6, <2>1 DEF EndsWith
  <1>10. prev[x] = NULL
    BY <1>8 DEF Inside
  <1>11. Linked(next, prev, child, New)
    BY DEF BackInv
  <1>12. Linked(next', prev', child', New)
    BY <1>3, <1>4, <1>5, <1>8, <1>9, <1>10, <1>11, LinkedAppended
  <1>13. QED BY <1>5, <1>12

LEMMA NextBackInv ==
    ASSUME CopyInv, CopyInv', BackInv, [CopySortNext]_allVars
    PROVE  BackInv'
  <1>0. live' \subseteq Item
    BY DEF CopyInv, TypesInv, TypeOK
  <1>1. ASSUME NEW count \in Count, MakeArray(count) PROVE BackInv'
    <2>1. /\ call.name = "none" /\ UNCHANGED <<next, prev, child, before>>
          /\ call' = [name |-> "array", count |-> count]
      BY <1>1 DEF MakeArray, CreateArrayOf, links
    <2>2. New = {}
      BY <2>1 DEF CopyInv, CallInv, New
    <2>3. \A x \in New' : next'[x] = NULL /\ child'[x] = NULL
      <3>1. \A x \in New' : x \in Item \ live
        BY <1>0, <2>1, <2>2 DEF New
      <3>2. QED BY <2>1, <3>1 DEF CopyInv, NewInv, BlankInv
    <2>4. QED BY <2>3 DEF BackInv, Linked
  <1>2. ASSUME NEW item \in Item, NEW recurse \in BOOLEAN, Copying(item, recurse) PROVE BackInv'
    <2>1. live' = live /\ before' = [before EXCEPT !.items = live]
      BY <1>2 DEF Copying, Duplicate, vars
    <2>2. before'.items = live
      BY <2>1 DEF CopyInv, TypesInv, Snapshot
    <2>3. New' = {}
      BY <2>1, <2>2 DEF New
    <2>4. QED BY <2>3 DEF BackInv, Linked
  <1>3. CASE Making
    <2>1. MakeStep /\ UNCHANGED <<call, before>>
      BY <1>3 DEF Making
    <2>2. CASE AddElement
      BY <2>1, <2>2, LinkedAddElement
    <2>3. CASE AddElementFails
      <3>1. Discard(building.array)
        BY <2>3 DEF AddElementFails
      <3>2. QED BY <2>1, <3>1, LinkedDiscarded
    <2>4. CASE ArrayDone
      BY <1>0, <2>1, <2>4, LinkedGrown DEF ArrayDone, links
    <2>5. CASE NewItem
      BY <1>0, <2>1, <2>5, LinkedGrown DEF NewItem, Blank
    <2>6. CASE CopyText
      BY <1>0, <2>1, <2>6, LinkedGrown DEF CopyText, vars
    <2>7. CASE CopyName
      BY <1>0, <2>1, <2>7, LinkedGrown DEF CopyName, links
    <2>8. CASE AllocationFails
      <3>1. UNCHANGED <<next, prev, child>> \/ Discard(Locals.new)
        BY <2>8 DEF AllocationFails, links
      <3>2. QED BY <1>0, <2>1, <3>1, LinkedGrown, LinkedDiscarded
    <2>9. CASE NextKid
      BY <1>0, <2>1, <2>9, LinkedGrown DEF NextKid, vars
    <2>10. CASE LinkKid
      BY <2>1, <2>10, LinkedLinkKid
    <2>11. CASE KidFails
      <3>1. Discard(copying[2].new)
        BY <2>11 DEF KidFails
      <3>2. QED BY <2>1, <3>1, LinkedDiscarded
    <2>12. CASE DuplicateDone
      BY <1>0, <2>1, <2>12, LinkedGrown DEF DuplicateDone, links
    <2>13. QED
      BY <2>1, <2>2, <2>3, <2>4, <2>5, <2>6, <2>7, <2>8, <2>9, <2>10, <2>11, <2>12 DEF MakeStep
  <1>4. ASSUME NEW object \in Item, NEW sensitive \in BOOLEAN, SortObject(object, sensitive)
        PROVE  BackInv'
    <2>1. call' = [name |-> "sort", object |-> object, sensitive |-> sensitive]
      BY <1>4 DEF SortObject
    <2>2. QED BY <2>1 DEF BackInv
  <1>5. CASE Sorting
    <2>1. sorting # <<>> /\ call' = call
      BY <1>5 DEF Sorting, S!SortStep, S!TestSorted, S!WalkTwo, S!Split, S!Merge, S!AppendRest,
                  S!Running
    <2>2. QED BY <2>1 DEF CopyInv, CallInv, BackInv
  <1>6. CASE UNCHANGED allVars
    <2>1. UNCHANGED <<next, prev, child, call, before>>
      BY <1>6 DEF allVars, dupVars, vars
    <2>2. QED BY <1>0, <2>1, LinkedGrown
  <1>7. QED BY <1>1, <1>2, <1>3, <1>4, <1>5, <1>6 DEF CopySortNext

(* Whatever is being made or was made, half of it included, is linked both  *)
(* ways, and a first child has no prev, as long as it is not sorted: what   *)
(* FirstHasNoPrev says of every item no call but a sort takes away.         *)
THEOREM LinkedBothWays == CopySortSpec => []BackInv
  <1>1. CopySortInit => BackInv
    <2> SUFFICES ASSUME CopySortInit PROVE BackInv
      OBVIOUS
    <2>1. New = {}
      BY DEF CopySortInit, New
    <2>2. QED BY <2>1 DEF BackInv, Linked
  <1>2. CopyInv /\ CopyInv' /\ BackInv /\ [CopySortNext]_allVars => BackInv'
    BY NextBackInv
  <1>3. QED BY <1>1, <1>2, AlwaysCopyInv, PTL DEF CopySortSpec

-----------------------------------------------------------------------------
(* What follows.                                                            *)

(* Making a copy, giving half of one up again and sorting it never change,  *)
(* rename or free an item that was there before (cJSON_Duplicate and        *)
(* sort_list work on what they allocated and on nothing else).              *)
THEOREM SourceUntouched == CopySortSpec => SourceKept
  BY AlwaysCopyInv, PTL DEF SourceKept

(* When cJSON_Duplicate or an array constructor returns NULL, whatever the  *)
(* allocation that failed and however deep, all of the memory it had        *)
(* allocated has been released (cJSON.c:2428-2433, 2238).                   *)
THEOREM FailureReleasesAll == CopySortSpec => []FailureKeepsNothing
  <1>1. CopyInv => FailureKeepsNothing
    BY DEF CopyInv, ReturnInv
  <1>2. QED BY <1>1, AlwaysCopyInv, PTL

(* When one of them returns an item, that item is new and in no list, and   *)
(* cJSON_Delete of it frees exactly what the call has allocated: the copy   *)
(* is whole, and it shares no item with the original, references included.  *)
THEOREM MadeOwnsItself == CopySortSpec => []MadeWhole
  <1>1. CopyInv => MadeWhole
    BY DEF CopyInv, ReturnInv
  <1>2. QED BY <1>1, AlwaysCopyInv, PTL
=============================================================================
